------------------------ MODULE ConsumerDiscovery_proofs ------------------------
(***************************************************************************)
(* Proofs about ConsumerDiscovery, for every number of workers, ring size, *)
(* discovery and coordination mode, bound on events and crashes, and set   *)
(* of races.                                                               *)
(***************************************************************************)
EXTENDS ConsumerDiscovery, FiniteSetTheorems, WellFoundedInduction, TLAPS

LEMMA ConstantFacts ==
    /\ Workers \subseteq Ids /\ Ids \subseteq Nat
    /\ \A w \in Workers : w # NoId
    /\ IsFiniteSet(Workers) /\ Cardinality(Workers) = NumWorkers
    /\ IsFiniteSet(Ids) /\ Cardinality(Ids) = NumWorkers + MaxCrashes
    /\ NoId \notin Ids
<1>1. NumWorkers \in Nat /\ MaxCrashes \in Nat /\ NumWorkers > 0
  BY CountsAssumption
<1>2. IsFiniteSet(0..(NumWorkers - 1)) /\ Cardinality(0..(NumWorkers - 1)) = NumWorkers
  BY <1>1, FS_Interval
<1>3. /\ IsFiniteSet(0..(NumWorkers + MaxCrashes - 1))
      /\ Cardinality(0..(NumWorkers + MaxCrashes - 1)) = NumWorkers + MaxCrashes
  BY <1>1, FS_Interval
<1>4. QED
  BY <1>1, <1>2, <1>3 DEF Workers, Ids, NoId

\* The counts the invariant speaks of are numbers, and none exceeds the workers.
LEMMA WorkerCounts ==
    ASSUME NEW S \in SUBSET Workers
    PROVE  IsFiniteSet(S) /\ Cardinality(S) \in 0..NumWorkers
<1>1. IsFiniteSet(S) /\ Cardinality(S) <= Cardinality(Workers)
  BY ConstantFacts, FS_Subset
<1>2. Cardinality(S) \in Nat
  BY <1>1, FS_CardinalityType
<1>3. QED
  BY <1>1, <1>2, ConstantFacts, CountsAssumption

\* A nonempty set of cursors has a least one.
LEMMA MinIsLeast ==
    ASSUME NEW S, S # {}, S \subseteq NoSegment..MaxSequence
    PROVE  Min(S) \in S /\ \A s \in S : Min(S) <= s
<1> DEFINE Domain == NoSegment..MaxSequence
           UpTo(s) == NoSegment..s
           R == StrictSubsetOrdering(Domain)
           T == {UpTo(s) : s \in S}
<1>0. MaxSequence \in Nat /\ NoSegment \in Int
  BY CountsAssumption DEF NoSegment
<1>1. T \subseteq SUBSET Domain /\ T # {}
  <2>1. ASSUME NEW s \in S PROVE UpTo(s) \subseteq Domain
    BY <1>0
  <2>2. QED
    BY <2>1
<1>2. PICK X \in T : \A Y \in T : ~ (<<Y, X>> \in R)
  <2>1. IsFiniteSet(Domain)
    BY <1>0, FS_Interval
  <2>2. T \subseteq FiniteSubsetsOf(Domain)
    BY <1>1, <2>1, FS_FiniteSubsetsOfFinite
  <2>3. IsWellFoundedOn(R, FiniteSubsetsOf(Domain))
    BY FS_StrictSubsetOrderingWellFounded
  <2> HIDE DEF R, T, Domain
  <2>4. QED
    BY <1>1, <2>2, <2>3, WFMin
<1>3. PICK m \in S : X = UpTo(m)
  OBVIOUS
<1>4. \A s \in S : m <= s
  <2>1. SUFFICES ASSUME NEW s \in S, s < m PROVE FALSE
    BY <1>0
  <2>2. UpTo(s) \subseteq UpTo(m) /\ UpTo(s) # UpTo(m)
    BY <2>1, <1>0
  <2>3. UpTo(s) \in SUBSET Domain /\ UpTo(m) \in SUBSET Domain
    BY <1>1
  <2>4. <<UpTo(s), UpTo(m)>> \in R
    BY <2>2, <2>3 DEF StrictSubsetOrdering
  <2>5. QED
    BY <1>2, <1>3, <2>4
<1>5. QED
  BY <1>4 DEF Min

-----------------------------------------------------------------------------
(* The initial state. *)

LEMMA InitEstablishes == Init => IInv
<1> SUFFICES ASSUME Init PROVE IInv
  OBVIOUS
<1> USE CountsAssumption, ModesAssumption
<1>1. TypeOK
  <2>1. /\ cursor \in [Ids -> NoSegment..MaxSequence]
        /\ id \in [Workers -> {NoId} \union Ids]
        /\ last_processed_sequence \in [Workers -> -1..MaxSequence]
        /\ wstage \in [Workers -> {"down", "named", "created", "attached", "up"}]
    BY DEF Init, NoSegment
  <2>2. /\ producer_sequence \in NoSegment..MaxSequence
        /\ registered \in 0..(NumWorkers + MaxCrashes)
        /\ sequence \in 0..(MaxSequence + 1) /\ crashes \in 0..MaxCrashes
        /\ sequence_clear_of_consumers \in (Size - 1)..(MaxSequence + Size)
    BY DEF Init, NoSegment
  <2>3. QED
    BY <2>1, <2>2 DEF Init, TypeOK
<1>2. Counted
  <2>1. Alive = {} /\ signalled \cap Up = {} /\ Cardinality({}) = 0
    BY FS_EmptySet DEF Init, Alive, Up
  <2>2. QED
    BY <2>1 DEF Init, Counted, NoSegment
<1>3. NamesDistinct
  BY DEF Init, NamesDistinct, Alive
<1>4. ProducerInStep
  BY DEF Init, ProducerInStep, Alive
<1>5. WorkersInStep
  BY DEF Init, WorkersInStep, Up
<1>6. WindowSound /\ PresentGated
  BY DEF Init, WindowSound, PresentGated
<1>7. QED
  BY <1>1, <1>2, <1>3, <1>4, <1>5, <1>6 DEF IInv

-----------------------------------------------------------------------------
(* The producer. *)

\* A scan finds only cursors that exist, and without the race none that is still to
\* get its initial value.
LEMMA AttachableFacts ==
    /\ Attachable \subseteq {i \in Ids : cursor[i] # NoSegment}
    /\ "init" \notin Races => \A i \in Attachable : ~Initialising(i)
    /\ TypeOK => Attachable \subseteq 0..(MaxConsumers - 1)
<1>1. TypeOK => ScannedIds \subseteq 0..(MaxConsumers - 1)
  <2>1. SUFFICES ASSUME TypeOK PROVE ScannedIds \subseteq 0..(MaxConsumers - 1)
    OBVIOUS
  <2>2. registered \in Nat /\ MaxConsumers \in Nat
    BY <2>1, CountsAssumption DEF TypeOK
  <2>3. Min({registered, MaxConsumers}) = IF registered <= MaxConsumers THEN registered ELSE MaxConsumers
    BY <2>2 DEF Min
  <2>4. QED
    BY <2>2, <2>3 DEF ScannedIds
<1>2. QED
  BY <1>1 DEF Attachable

\* UpdateWindow leaves a window that the known consumers allow, or one that is used
\* up.
LEMMA GateFacts ==
    ASSUME TypeOK, ProducerInStep, NeedsGate, NEW K \in SUBSET Ids,
           \A i \in K : cursor[i] # NoSegment, UpdateWindow(K)
    PROVE  /\ sequence_clear_of_consumers' \in (Size - 1)..(MaxSequence + Size)
           /\ sequence - 1 <= sequence_clear_of_consumers'
           /\ sequence <= sequence_clear_of_consumers' =>
                 \A i \in K : sequence_clear_of_consumers' <= cursor[i] + Size
<1> DEFINE m == MinSequence(K)
<1>1. /\ sequence \in Nat /\ sequence <= MaxSequence /\ sequence > sequence_clear_of_consumers
      /\ sequence_clear_of_consumers \in (Size - 1)..(MaxSequence + Size)
      /\ sequence - 1 <= sequence_clear_of_consumers
      /\ Size \in Nat /\ Size > 0 /\ MaxSequence \in Nat
  BY CountsAssumption DEF TypeOK, ProducerInStep, NeedsGate
<1>2. \A i \in K : cursor[i] \in -1..MaxSequence
  BY <1>1 DEF TypeOK, NoSegment
<1>3. m \in -1..MaxSequence /\ \A i \in K : m <= cursor[i]
  <2>1. CASE K = {}
    BY <1>1, <2>1 DEF MinSequence, Fallback
  <2>2. CASE K # {}
    <3> DEFINE S == {cursor[i] : i \in K}
    <3>1. S # {} /\ S \subseteq NoSegment..MaxSequence /\ S \subseteq -1..MaxSequence
      BY <1>1, <1>2, <2>2 DEF NoSegment
    <3>2. m = Min(S)
      BY <2>2 DEF MinSequence
    <3> HIDE DEF S, m
    <3>3. m \in S /\ \A s \in S : m <= s
      BY <3>1, <3>2, MinIsLeast
    <3>4. QED
      BY <3>1, <3>3 DEF S
  <2>3. QED
    BY <2>1, <2>2
<1>4. sequence_clear_of_consumers' =
         IF m - (sequence - 1 - Size) >= 1 THEN sequence - 1 + (m - (sequence - 1 - Size))
                                           ELSE sequence_clear_of_consumers
  BY DEF UpdateWindow, FreeSlots
<1> HIDE DEF m
<1>5. CASE m - (sequence - 1 - Size) >= 1
  <2>1. sequence_clear_of_consumers' = m + Size /\ m + Size >= sequence
    BY <1>1, <1>3, <1>4, <1>5
  <2>2. QED
    BY <1>1, <1>2, <1>3, <2>1
<1>6. CASE ~ (m - (sequence - 1 - Size) >= 1)
  BY <1>1, <1>3, <1>4, <1>6
<1>7. QED
  BY <1>5, <1>6

\* What concerns only the workers and their cursors.
LEMMA WorkersUntouched ==
    ASSUME IInv, UNCHANGED <<registered, cursor, wstage, id, last_processed_sequence>>
    PROVE  /\ NamesDistinct' /\ WorkersInStep'
           /\ Up' = Up /\ Alive' = Alive
           /\ \A i : Initialising(i)' = Initialising(i)
  BY DEF IInv, NamesDistinct, WorkersInStep, Up, Alive, Initialising

LEMMA StartKeepsInvariant ==
    ASSUME IInv,
           \/ CreateProducerSequence \/ InitProducerSequence \/ CreateReadiness
           \/ DiscoverInitially \/ ConsumersReady \/ ReadinessTimeout
    PROVE  IInv'
<1>1. /\ TypeOK /\ Counted /\ ProducerInStep /\ WindowSound /\ PresentGated
      /\ UNCHANGED <<registered, cursor, wstage, id, last_processed_sequence, sequence,
                     sequence_clear_of_consumers, present, missed, signalled, crashes>>
      /\ pstage # "publish"
      /\ pstage' \in {"create", "init", "readiness", "discover", "await", "publish"}
      /\ discovered' \in {discovered, Attachable, {}}
  BY DEF IInv, CreateProducerSequence, InitProducerSequence, CreateReadiness,
         DiscoverInitially, ConsumersReady, ReadinessTimeout, workerVars, history, segments
<1>2. /\ NamesDistinct' /\ WorkersInStep' /\ Up' = Up /\ Alive' = Alive
      /\ \A i : Initialising(i)' = Initialising(i)
  BY <1>1, WorkersUntouched
<1>3. /\ \/ consumers_ready' = consumers_ready
         \/ consumers_ready' = 0 /\ pstage = "readiness" /\ ~waited'
      /\ waited' => pstage' = "publish" /\ consumers_ready' >= MinConsumers
      /\ waited' \in BOOLEAN
  <2>1. waited \in BOOLEAN /\ ~waited
    BY <1>1 DEF Counted, TypeOK
  <2>2. CASE ConsumersReady
    BY <2>2 DEF ConsumersReady, segments
  <2>3. CASE CreateReadiness
    BY <2>1, <2>3 DEF CreateReadiness, history
  <2>4. CASE ~ConsumersReady /\ ~CreateReadiness
    BY <2>1, <2>4 DEF CreateProducerSequence, InitProducerSequence, DiscoverInitially,
                      ReadinessTimeout, history, segments
  <2>5. QED
    BY <2>2, <2>3, <2>4
<1>4. /\ producer_sequence' \in NoSegment..MaxSequence
      /\ pstage' = "create" => producer_sequence' = NoSegment
      /\ pstage' = "init" => producer_sequence' = Uninitialised
      /\ pstage' \notin {"create", "init"} => producer_sequence' = sequence - 1
      /\ pstage' \in {"create", "init"} => pstage \in {"create", "init"}
  BY <1>1, CountsAssumption
     DEF ProducerInStep, TypeOK, CreateProducerSequence, InitProducerSequence,
         CreateReadiness, DiscoverInitially, ConsumersReady, ReadinessTimeout, segments,
         NoSegment, Uninitialised
<1>5. TypeOK'
  <2>1. discovered' \subseteq {i \in Ids : cursor'[i] # NoSegment}
    BY <1>1, AttachableFacts DEF TypeOK
  <2>2. consumers_ready' \in {NoSegment} \union 0..(NumWorkers + MaxCrashes)
    BY <1>1, <1>3, CountsAssumption DEF TypeOK
  <2>3. QED
    BY <1>1, <1>3, <1>4, <2>1, <2>2 DEF TypeOK
<1>6. Counted'
  <2>1. 0 <= Cardinality(signalled \cap Up) + crashes
    <3>1. signalled \cap Up \in SUBSET Workers /\ crashes \in Nat
      BY <1>1, CountsAssumption DEF TypeOK
    <3>2. Cardinality(signalled \cap Up) \in 0..NumWorkers
      BY <3>1, WorkerCounts
    <3>3. QED
      BY <3>1, <3>2
  <2>2. QED
    BY <1>1, <1>2, <1>3, <2>1 DEF Counted
<1>7. ProducerInStep'
  BY <1>1, <1>2, <1>4 DEF ProducerInStep
<1>8. WindowSound'
  <2>1. SUFFICES ASSUME "init" \notin Races PROVE WindowSound'
    BY DEF WindowSound
  <2>2. \A i \in discovered' : ~Initialising(i)'
    BY <1>1, <1>2, <2>1, AttachableFacts DEF WindowSound
  <2>3. \A i \in discovered' : cursor[i] \in -1..MaxSequence
    BY <1>1, AttachableFacts, CountsAssumption DEF TypeOK, NoSegment
  <2>4. sequence_clear_of_consumers = Size - 1
    BY <1>1 DEF ProducerInStep
  <2>5. \A i \in discovered' : sequence_clear_of_consumers' <= cursor'[i] + Size
    BY <1>1, <2>3, <2>4, CountsAssumption
  <2>6. QED
    BY <2>2, <2>5 DEF WindowSound
<1>9. PresentGated'
  <2>1. present' = {}
    BY <1>1 DEF ProducerInStep, PresentGated
  <2>2. discovered' \subseteq 0..(MaxConsumers - 1)
    BY <1>1, AttachableFacts DEF PresentGated
  <2>3. QED
    BY <2>1, <2>2 DEF PresentGated
<1>10. QED
  BY <1>2, <1>5, <1>6, <1>7, <1>8, <1>9 DEF IInv

\* A scan finds every worker that was up for the first event and that max_consumers
\* reaches, and one that is not needed any more has found them.
LEMMA ScanFindsAll ==
    ASSUME IInv, NEW i \in present, i < MaxConsumers, i \notin missed',
           DiscoverAndGate \/ GateOnly
    PROVE  i \in discovered'
<1>1. /\ TypeOK /\ PresentGated /\ MaxConsumers \in Nat /\ registered \in Nat
      /\ i \in Ids /\ i \in Nat /\ cursor[i] # NoSegment /\ ~Initialising(i)
      /\ Discovery = "slots" => i < registered
  <2>1. i \in Ids
    BY DEF IInv, TypeOK
  <2>2. QED
    BY <2>1, ConstantFacts, CountsAssumption DEF IInv, PresentGated, TypeOK
<1>2. CASE DiscoverAndGate
  <2>1. Min({registered, MaxConsumers}) = IF registered <= MaxConsumers THEN registered ELSE MaxConsumers
    BY <1>1 DEF Min
  <2>2. i \in ScannedIds
    BY <1>1, <2>1 DEF ScannedIds
  <2>3. i \in Attachable
    BY <1>1, <2>2 DEF Attachable
  <2>4. QED
    BY <1>2, <2>3 DEF DiscoverAndGate
<1>3. CASE GateOnly /\ ShouldScan
  <2>1. missed' = missed \cup (present \ discovered) /\ discovered' = discovered
    BY <1>3 DEF GateOnly
  <2>2. QED
    BY <2>1
<1>4. CASE GateOnly /\ ~ShouldScan
  <2>1. Cardinality(discovered) >= MaxConsumers /\ discovered' = discovered
    BY <1>4 DEF GateOnly, ShouldScan, Completed
  <2>2. IsFiniteSet(0..(MaxConsumers - 1)) /\ Cardinality(0..(MaxConsumers - 1)) = MaxConsumers
    BY <1>1, CountsAssumption, FS_Interval
  <2>3. discovered \subseteq 0..(MaxConsumers - 1)
    BY <1>1 DEF PresentGated
  <2>4. /\ IsFiniteSet(discovered) /\ Cardinality(discovered) <= MaxConsumers
        /\ Cardinality(discovered) = MaxConsumers => discovered = 0..(MaxConsumers - 1)
    BY <2>2, <2>3, FS_Subset
  <2>5. Cardinality(discovered) \in Nat
    BY <2>4, FS_CardinalityType
  <2>6. discovered = 0..(MaxConsumers - 1)
    BY <1>1, <2>1, <2>4, <2>5
  <2>7. QED
    BY <1>1, <2>1, <2>6
<1>5. QED
  BY <1>2, <1>3, <1>4

LEMMA GateKeepsInvariant ==
    ASSUME IInv, DiscoverAndGate \/ GateOnly
    PROVE  IInv'
<1>1. /\ TypeOK /\ Counted /\ ProducerInStep /\ WindowSound /\ PresentGated /\ NeedsGate
      /\ WorkersInStep
      /\ UNCHANGED <<producer_sequence, consumers_ready, registered, cursor, wstage, id,
                     last_processed_sequence, pstage, sequence, present, signalled, waited,
                     crashes>>
      /\ missed \subseteq missed' /\ missed' \subseteq present
      /\ discovered' \in {discovered, discovered \union Attachable}
      /\ UpdateWindow(discovered')
  BY DEF IInv, TypeOK, DiscoverAndGate, GateOnly, workerVars, history, segments
<1>2. /\ NamesDistinct' /\ WorkersInStep' /\ Up' = Up /\ Alive' = Alive
      /\ \A i : Initialising(i)' = Initialising(i)
  BY <1>1, WorkersUntouched
<1>3. discovered' \subseteq {i \in Ids : cursor[i] # NoSegment}
  BY <1>1, AttachableFacts DEF TypeOK
<1>4. /\ sequence_clear_of_consumers' \in (Size - 1)..(MaxSequence + Size)
      /\ sequence - 1 <= sequence_clear_of_consumers'
      /\ sequence <= sequence_clear_of_consumers' =>
            \A i \in discovered' : sequence_clear_of_consumers' <= cursor[i] + Size
  BY <1>1, <1>3, GateFacts
<1>5. TypeOK'
  BY <1>1, <1>3, <1>4 DEF TypeOK
<1>6. Counted'
  BY <1>1, <1>2 DEF Counted
<1>7. sequence # 0 /\ sequence > sequence_clear_of_consumers
  BY <1>1, CountsAssumption DEF ProducerInStep, NeedsGate, TypeOK
<1>8. ProducerInStep'
  BY <1>1, <1>2, <1>4, <1>7 DEF ProducerInStep
<1>9. WindowSound'
  <2>1. "init" \notin Races => \A i \in discovered' : ~Initialising(i)'
    BY <1>1, <1>2, AttachableFacts DEF WindowSound
  <2>2. QED
    BY <1>1, <1>4, <2>1 DEF WindowSound
<1>10. PresentGated'
  <2>1. discovered' \subseteq 0..(MaxConsumers - 1)
    BY <1>1, AttachableFacts DEF PresentGated
  <2>2. ASSUME NEW i \in present, i \notin missed', i < MaxConsumers
        PROVE  i \in discovered' /\ sequence_clear_of_consumers' <= cursor[i] + Size
    <3>1. i \in discovered'
      BY <2>2, ScanFindsAll
    <3>2. CASE sequence <= sequence_clear_of_consumers'
      BY <1>4, <3>1, <3>2
    <3>3. CASE ~(sequence <= sequence_clear_of_consumers')
      <4>1. /\ sequence_clear_of_consumers <= cursor[i] + Size
            /\ sequence_clear_of_consumers \in Int /\ sequence \in Int
            /\ sequence - 1 <= sequence_clear_of_consumers
            /\ i \in Ids /\ cursor[i] \in Int /\ Size \in Int
        BY <1>1, <2>2, CountsAssumption DEF PresentGated, TypeOK, ProducerInStep, NoSegment
      <4>2. sequence_clear_of_consumers' <= sequence_clear_of_consumers
        BY <1>4, <1>7, <3>3, <4>1, CountsAssumption
      <4>3. sequence_clear_of_consumers' \in Int
        BY <1>4, CountsAssumption
      <4>4. QED
        BY <3>1, <4>1, <4>2, <4>3
    <3>4. QED
      BY <3>1, <3>2, <3>3
  <2>3. ASSUME NEW i \in present
        PROVE  cursor[i] # NoSegment /\ ~Initialising(i)' /\ (Discovery = "slots" => i < registered)
    BY <1>1, <1>2 DEF PresentGated
  <2>4. QED
    BY <1>1, <1>7, <2>1, <2>2, <2>3 DEF PresentGated
<1>11. QED
  BY <1>2, <1>5, <1>6, <1>8, <1>9, <1>10 DEF IInv

LEMMA PublishKeepsInvariant ==
    ASSUME IInv, Publish
    PROVE  IInv'
<1>1. /\ TypeOK /\ Counted /\ ProducerInStep /\ WindowSound /\ PresentGated /\ WorkersInStep
      /\ UNCHANGED <<consumers_ready, registered, cursor, wstage, id, discovered, pstage,
                     last_processed_sequence, sequence_clear_of_consumers, missed, signalled, waited,
                     crashes>>
      /\ pstage = "publish" /\ sequence <= MaxSequence
      /\ sequence <= sequence_clear_of_consumers
      /\ producer_sequence' = sequence /\ sequence' = sequence + 1
      /\ present' = IF sequence = 0 THEN {id[w] : w \in Up} ELSE present
  BY DEF IInv, Publish, workerVars
<1>2. /\ NamesDistinct' /\ WorkersInStep' /\ Up' = Up /\ Alive' = Alive
      /\ \A i : Initialising(i)' = Initialising(i)
  BY <1>1, WorkersUntouched
<1>3. /\ sequence \in Nat /\ sequence_clear_of_consumers \in Int
      /\ Size \in Nat /\ Size > 0 /\ MaxSequence \in Nat
  BY <1>1, CountsAssumption DEF TypeOK
<1>4. TypeOK'
  <2>1. producer_sequence' \in NoSegment..MaxSequence /\ sequence' \in 0..(MaxSequence + 1)
    BY <1>1, <1>3 DEF NoSegment
  <2>2. present' \subseteq Ids /\ missed' \subseteq present'
    <3>1. \A w \in Up : id[w] \in Ids
      BY <1>1 DEF IInv, TypeOK, NamesDistinct, Up, Alive
    <3>2. sequence = 0 => missed = {}
      BY <1>1 DEF TypeOK, PresentGated
    <3>3. QED
      BY <1>1, <3>1, <3>2 DEF TypeOK
  <2>3. QED
    BY <1>1, <2>1, <2>2 DEF TypeOK
<1>5. Counted'
  BY <1>1, <1>2 DEF Counted
<1>6. ProducerInStep'
  BY <1>1, <1>2, <1>3 DEF ProducerInStep
<1>7. WindowSound'
  BY <1>1, <1>2, <1>3 DEF WindowSound
<1>8. PresentGated'
  <2>1. CASE sequence = 0
    <3>1. sequence_clear_of_consumers = Size - 1
      BY <1>1, <2>1 DEF ProducerInStep
    <3>2. ASSUME NEW w \in Up
          PROVE  /\ cursor[id[w]] # NoSegment /\ ~Initialising(id[w])
                 /\ Discovery = "slots" => id[w] < registered
                 /\ Size - 1 <= cursor[id[w]] + Size
      <4>1. /\ w \in Workers /\ wstage[w] = "up" /\ id[w] \in Ids /\ id[w] # NoId
            /\ cursor[id[w]] # NoSegment
        BY <1>1 DEF IInv, TypeOK, NamesDistinct, WorkersInStep, Up, Alive
      <4>2. cursor[id[w]] \in -1..MaxSequence
        BY <1>1, <1>3, <4>1 DEF TypeOK, NoSegment
      <4>3. ~Initialising(id[w])
        BY <4>1 DEF IInv, NamesDistinct, Initialising
      <4>4. Discovery = "slots" => id[w] < registered
        BY <4>1 DEF IInv, NamesDistinct
      <4>5. QED
        BY <1>3, <4>1, <4>2, <4>3, <4>4
    <3>3. discovered \subseteq 0..(MaxConsumers - 1)
      BY <1>1 DEF PresentGated
    <3>4. ASSUME NEW i \in present'
          PROVE  /\ cursor[i] # NoSegment /\ ~Initialising(i)'
                 /\ Discovery = "slots" => i < registered
                 /\ sequence_clear_of_consumers <= cursor[i] + Size
      BY <1>1, <1>2, <2>1, <3>1, <3>2
    <3>5. sequence' # 0
      BY <1>1, <1>3
    <3>6. QED
      BY <1>1, <3>1, <3>3, <3>4, <3>5 DEF PresentGated
  <2>2. CASE sequence # 0
    <3>1. present' = present /\ sequence' # 0
      BY <1>1, <1>3, <2>2
    <3>2. QED
      BY <1>1, <1>2, <3>1 DEF PresentGated
  <2>3. QED
    BY <2>1, <2>2
<1>9. QED
  BY <1>2, <1>4, <1>5, <1>6, <1>7, <1>8 DEF IInv

-----------------------------------------------------------------------------
(* The workers. *)

\* The sets of workers after one of them has changed its stage.
LEMMA StageChange ==
    ASSUME TypeOK, NEW w \in Workers, NEW s, wstage' = [wstage EXCEPT ![w] = s]
    PROVE  /\ Alive' = IF s = "down" THEN Alive \ {w} ELSE Alive \cup {w}
           /\ Up' = IF s = "up" THEN Up \cup {w} ELSE Up \ {w}
  BY DEF TypeOK, Alive, Up

LEMMA AttachKeepsInvariant ==
    ASSUME IInv, NEW w \in Workers, Attach(w)
    PROVE  IInv'
<1>1. /\ TypeOK /\ Counted /\ NamesDistinct /\ ProducerInStep /\ WorkersInStep
      /\ WindowSound /\ PresentGated
      /\ UNCHANGED <<producer_sequence, consumers_ready, cursor, pstage, discovered, sequence,
                     sequence_clear_of_consumers, last_processed_sequence, present, missed,
                     signalled, waited, crashes>>
      /\ wstage[w] = "down" /\ wstage' = [wstage EXCEPT ![w] = "named"]
      /\ pstage # "create" /\ (pstage = "init" => "init" \in Races)
  BY DEF IInv, Attach, producerVars, history
<1>2. Alive' = Alive \cup {w} /\ w \notin Alive /\ Up' = Up
  <2>1. w \notin Alive /\ w \notin Up
    BY <1>1 DEF Alive, Up
  <2>2. Alive' = Alive \cup {w} /\ Up' = Up \ {w}
    <3>1. TypeOK /\ wstage' = [wstage EXCEPT ![w] = "named"]
      BY <1>1
    <3>2. "named" # "down" /\ "named" # "up"
      OBVIOUS
    <3>3. QED
      BY <3>1, <3>2, StageChange
  <2>3. QED
    BY <2>1, <2>2
<1>3. /\ IsFiniteSet(Alive) /\ Cardinality(Alive) \in 0..NumWorkers
      /\ Cardinality(Alive') \in 0..NumWorkers
      /\ Cardinality(Alive') = Cardinality(Alive) + 1
  <2>1. Alive \in SUBSET Workers /\ Alive' \in SUBSET Workers
    BY <1>2 DEF Alive
  <2>2. IsFiniteSet(Alive) /\ Cardinality(Alive) \in 0..NumWorkers
    BY <2>1, WorkerCounts
  <2>3. Cardinality(Alive') \in 0..NumWorkers
    BY <2>1, WorkerCounts
  <2>4. QED
    BY <1>2, <2>2, <2>3, FS_AddElement
<1>4. /\ IF Discovery = "prefix" THEN registered' = 0
                                 ELSE registered' <= Cardinality(Alive') + crashes
      /\ registered' \in 0..(NumWorkers + MaxCrashes) /\ registered' >= registered
      /\ id' = [id EXCEPT ![w] = IF Discovery = "prefix" THEN w ELSE registered]
      /\ Discovery # "prefix" => registered \in Ids /\ registered < registered'
  <2>1. crashes \in 0..MaxCrashes /\ registered \in 0..(NumWorkers + MaxCrashes)
    BY <1>1 DEF TypeOK
  <2>2. CASE Discovery = "prefix"
    BY <1>1, <2>1, <2>2 DEF Attach, Counted
  <2>3. CASE Discovery # "prefix"
    <3>1. registered' = registered + 1 /\ registered <= Cardinality(Alive) + crashes
      BY <1>1, <2>3 DEF Attach, Counted
    <3>2. registered' <= Cardinality(Alive') + crashes
      BY <1>3, <2>1, <3>1
    <3>3. registered' \in 0..(NumWorkers + MaxCrashes)
      BY <1>3, <2>1, <3>1, <3>2, CountsAssumption
    <3>4. registered \in Ids
      BY <2>1, <3>1, <3>3, CountsAssumption DEF Ids
    <3>5. QED
      BY <2>1, <2>3, <3>1, <3>2, <3>3, <3>4 DEF Attach
  <2>4. QED
    BY <2>2, <2>3
<1>5. id' \in [Workers -> {NoId} \union Ids] /\ id'[w] \in Ids /\ id'[w] # NoId
  BY <1>1, <1>4, ConstantFacts DEF TypeOK
<1>6. TypeOK'
  BY <1>1, <1>4, <1>5 DEF TypeOK
<1>7. Counted'
  BY <1>1, <1>2, <1>4 DEF Counted
<1>8. NamesDistinct'
  <2>1. \A v \in Workers : v # w => id'[v] = id[v]
    BY <1>1, <1>4 DEF TypeOK
  <2>2. \A v \in Workers : v # w => id'[v] # id'[w]
    <3>1. SUFFICES ASSUME NEW v \in Workers, v # w, id[v] = id'[w] PROVE FALSE
      BY <2>1
    <3>2. id[v] # NoId
      BY <1>5, <3>1
    <3>3. CASE Discovery = "prefix"
      BY <1>1, <1>4, <3>1, <3>2, <3>3 DEF NamesDistinct, TypeOK
    <3>4. CASE Discovery # "prefix"
      BY <1>1, <1>4, <3>1, <3>2, <3>4 DEF NamesDistinct, TypeOK
    <3>5. QED
      BY <3>3, <3>4
  <2>3. \A v \in Workers :
           id'[v] # NoId => IF Discovery = "prefix" THEN id'[v] = v ELSE id'[v] < registered'
    <3>1. CASE Discovery = "prefix"
      BY <1>1, <1>4, <2>1, <3>1 DEF NamesDistinct, TypeOK
    <3>2. CASE Discovery # "prefix"
      <4>1. ASSUME NEW v \in Workers, id'[v] # NoId, v # w PROVE id'[v] < registered'
        <5>1. id[v] < registered /\ id[v] \in Ids /\ id'[v] = id[v]
          BY <1>1, <2>1, <3>2, <4>1 DEF NamesDistinct, TypeOK
        <5>2. id[v] \in Nat /\ registered \in Int /\ registered' \in Int
          <6>1. registered \in 0..(NumWorkers + MaxCrashes)
            BY <1>1 DEF TypeOK
          <6>2. registered' \in 0..(NumWorkers + MaxCrashes)
            BY <1>4
          <6>3. id[v] \in Nat
            BY <5>1, ConstantFacts
          <6>4. registered \in Int /\ registered' \in Int
            BY <6>1, <6>2
          <6>5. QED
            BY <6>3, <6>4
        <5>3. QED
          BY <1>4, <5>1, <5>2
      <4>2. id'[w] < registered'
        BY <1>1, <1>4, <3>2 DEF TypeOK
      <4>3. QED
        BY <3>2, <4>1, <4>2
    <3>3. QED
      BY <3>1, <3>2
  <2>4. \A v \in Alive' : id'[v] # NoId
    BY <1>1, <1>2, <1>5, <2>1 DEF NamesDistinct, Alive
  <2>5. ASSUME NEW u \in Workers, NEW v \in Workers, u # v, id'[u] # NoId
        PROVE  id'[u] # id'[v]
    <3>1. CASE u = w \/ v = w
      BY <2>2, <2>5, <3>1
    <3>2. CASE u # w /\ v # w
      BY <1>1, <2>1, <2>5, <3>2 DEF NamesDistinct
    <3>3. QED
      BY <3>1, <3>2
  <2>6. QED
    BY <2>3, <2>4, <2>5 DEF NamesDistinct
<1>9. ProducerInStep'
  BY <1>1 DEF ProducerInStep
<1>10. \A v \in Workers : v # w => wstage'[v] = wstage[v] /\ id'[v] = id[v]
  BY <1>1, <1>4 DEF TypeOK
<1>11. WorkersInStep'
  <2>1. wstage'[w] = "named"
    BY <1>1 DEF TypeOK
  <2>2. \A v \in Up : v # w /\ v \in Workers
    BY <1>1 DEF Up
  <2>3. QED
    BY <1>1, <1>2, <1>10, <2>1, <2>2 DEF WorkersInStep
<1>12. WindowSound'
  <2>1. wstage'[w] = "named"
    BY <1>1 DEF TypeOK
  <2>2. \A i : Initialising(i)' => Initialising(i)
    BY <1>10, <2>1 DEF Initialising
  <2>3. QED
    BY <1>1, <2>2 DEF WindowSound
<1>13. PresentGated'
  <2>1. wstage'[w] = "named"
    BY <1>1 DEF TypeOK
  <2>2. \A i : Initialising(i)' => Initialising(i)
    BY <1>10, <2>1 DEF Initialising
  <2>3. ASSUME NEW i \in present, Discovery = "slots" PROVE i < registered'
    <3>1. i < registered /\ i \in Int
      BY <1>1, <2>3, ConstantFacts DEF PresentGated, TypeOK
    <3>2. registered \in Int /\ registered' \in Int
      BY <1>1, <1>4 DEF TypeOK
    <3>3. QED
      BY <1>4, <3>1, <3>2
  <2>4. QED
    BY <1>1, <2>2, <2>3 DEF PresentGated
<1>14. QED
  BY <1>6, <1>7, <1>8, <1>9, <1>11, <1>12, <1>13 DEF IInv

\* build_consumer creates its cursor, or attaches the one it has left.
LEMMA CreateKeepsInvariant ==
    ASSUME IInv, NEW w \in Workers, CreateCursor(w)
    PROVE  IInv'
<1>1. /\ TypeOK /\ Counted /\ NamesDistinct /\ ProducerInStep /\ WorkersInStep
      /\ WindowSound /\ PresentGated
      /\ UNCHANGED <<producer_sequence, consumers_ready, registered, pstage, discovered,
                     sequence, sequence_clear_of_consumers, id, last_processed_sequence,
                     present, missed, signalled, waited, crashes>>
      /\ wstage[w] = "named"
      /\ \/ /\ cursor[id[w]] = NoSegment
            /\ cursor' = [cursor EXCEPT ![id[w]] = Uninitialised]
            /\ wstage' = [wstage EXCEPT ![w] = "created"]
         \/ /\ cursor[id[w]] # NoSegment /\ cursor' = cursor
            /\ wstage' = [wstage EXCEPT ![w] = "attached"]
  BY DEF IInv, CreateCursor, producerVars, history
<1>2. /\ Alive' = Alive /\ w \in Alive /\ Up' = Up /\ w \notin Up
      /\ wstage'[w] \in {"created", "attached"}
      /\ wstage'[w] = "created" <=> cursor[id[w]] = NoSegment
  BY <1>1, StageChange DEF Alive, Up, TypeOK
<1>3. /\ id[w] \in Ids
      /\ \A v \in Workers : v # w => wstage'[v] = wstage[v] /\ id[v] # id[w]
      /\ \A i \in Ids : i # id[w] => cursor'[i] = cursor[i]
      /\ cursor[id[w]] # NoSegment => cursor'[id[w]] = cursor[id[w]]
      /\ cursor'[id[w]] # NoSegment
  BY <1>1, <1>2 DEF TypeOK, NamesDistinct, NoSegment, Uninitialised
<1>4. \A i \in Ids : cursor[i] # NoSegment => cursor'[i] = cursor[i]
  BY <1>3
<1>5. TypeOK'
  <2>1. Uninitialised \in NoSegment..MaxSequence /\ Uninitialised # NoSegment
    BY CountsAssumption DEF Uninitialised, NoSegment
  <2>2. cursor' \in [Ids -> NoSegment..MaxSequence]
    BY <1>1, <2>1 DEF TypeOK
  <2>3. discovered' \subseteq {i \in Ids : cursor'[i] # NoSegment}
    BY <1>1, <1>4 DEF TypeOK
  <2>4. QED
    BY <1>1, <2>2, <2>3 DEF TypeOK
<1>6. Counted' /\ NamesDistinct' /\ ProducerInStep'
  BY <1>1, <1>2 DEF Counted, NamesDistinct, ProducerInStep
<1>7. WorkersInStep'
  <2>1. ASSUME NEW v \in Workers, wstage'[v] \in {"created", "attached", "up"}
        PROVE  cursor'[id[v]] # NoSegment
    <3>1. CASE v = w
      BY <1>3, <3>1
    <3>2. CASE v # w
      <4>1. id[v] \in Ids /\ cursor[id[v]] # NoSegment
        BY <1>1, <1>3, <2>1, <3>2 DEF WorkersInStep, NamesDistinct, Alive, TypeOK
      <4>2. QED
        BY <1>4, <4>1
    <3>3. QED
      BY <3>1, <3>2
  <2>2. \A v \in Up : last_processed_sequence[v] = cursor'[id[v]]
    <3>1. SUFFICES ASSUME NEW v \in Up PROVE cursor'[id[v]] = cursor[id[v]]
      BY <1>1 DEF WorkersInStep
    <3>2. id[v] \in Ids /\ id[v] # id[w]
      BY <1>1, <1>2, <1>3 DEF Up, NamesDistinct, Alive, TypeOK
    <3>3. QED
      BY <1>3, <3>2
  <2>3. ASSUME NEW v \in Workers, Discovery = "prefix", last_processed_sequence[v] # -1
        PROVE  cursor'[v] >= last_processed_sequence[v] /\ wstage'[v] # "created"
    <3>1. /\ cursor[v] >= last_processed_sequence[v] /\ wstage[v] # "created"
          /\ v \in Ids /\ last_processed_sequence[v] \in -1..MaxSequence
      BY <1>1, <2>3, ConstantFacts DEF WorkersInStep, TypeOK
    <3>2. cursor[v] # NoSegment /\ cursor'[v] = cursor[v]
      BY <1>4, <3>1, CountsAssumption DEF NoSegment
    <3>3. v = w => id[w] = w
      BY <1>1, <1>2, <2>3 DEF NamesDistinct
    <3>4. QED
      BY <1>2, <1>3, <3>1, <3>2, <3>3
  <2>4. QED
    BY <1>1, <1>2, <2>1, <2>2, <2>3 DEF WorkersInStep
<1>8. WindowSound'
  <2>1. SUFFICES ASSUME "init" \notin Races PROVE WindowSound'
    BY DEF WindowSound
  <2>2. \A i \in discovered : cursor'[i] = cursor[i] /\ cursor[i] # NoSegment
    BY <1>1, <1>4 DEF TypeOK
  <2>3. ASSUME NEW i \in discovered PROVE ~Initialising(i)'
    <3>1. SUFFICES ASSUME NEW v \in Workers, wstage'[v] = "created", id[v] = i PROVE FALSE
      BY <1>1 DEF Initialising
    <3>2. v = w
      BY <1>1, <1>3, <2>1, <3>1 DEF WindowSound, Initialising
    <3>3. QED
      BY <1>2, <2>2, <3>1, <3>2
  <2>4. QED
    BY <1>1, <2>1, <2>2, <2>3 DEF WindowSound
<1>9. PresentGated'
  <2>1. ASSUME NEW i \in present
        PROVE  cursor'[i] = cursor[i] /\ cursor[i] # NoSegment
    BY <1>1, <1>4, <2>1 DEF PresentGated, TypeOK
  <2>2. ASSUME NEW i \in present PROVE ~Initialising(i)'
    <3>1. SUFFICES ASSUME NEW v \in Workers, wstage'[v] = "created", id[v] = i PROVE FALSE
      BY <1>1 DEF Initialising
    <3>2. v = w
      BY <1>1, <1>3, <2>2, <3>1 DEF PresentGated, Initialising
    <3>3. QED
      BY <1>2, <2>1, <3>1, <3>2
  <2>3. QED
    BY <1>1, <2>1, <2>2 DEF PresentGated
<1>10. QED
  BY <1>5, <1>6, <1>7, <1>8, <1>9 DEF IInv

LEMMA InitCursorKeepsInvariant ==
    ASSUME IInv, NEW w \in Workers, InitCursor(w)
    PROVE  IInv'
<1>1. /\ TypeOK /\ Counted /\ NamesDistinct /\ ProducerInStep /\ WorkersInStep
      /\ WindowSound /\ PresentGated
      /\ UNCHANGED <<producer_sequence, consumers_ready, registered, pstage, discovered,
                     sequence, sequence_clear_of_consumers, id, last_processed_sequence,
                     present, missed, signalled, waited, crashes>>
      /\ wstage[w] = "created" /\ wstage' = [wstage EXCEPT ![w] = "attached"]
      /\ cursor' = [cursor EXCEPT ![id[w]] = -1]
  BY DEF IInv, InitCursor, producerVars, history
<1>2. /\ Alive' = Alive /\ w \in Alive /\ Up' = Up /\ w \notin Up
      /\ wstage'[w] = "attached"
  BY <1>1, StageChange DEF Alive, Up, TypeOK
<1>3. /\ id[w] \in Ids
      /\ \A v \in Workers : v # w => wstage'[v] = wstage[v] /\ id[v] # id[w]
      /\ \A i \in Ids : i # id[w] => cursor'[i] = cursor[i]
      /\ cursor'[id[w]] = -1 /\ NoSegment # -1
  BY <1>1, <1>2 DEF TypeOK, NamesDistinct, NoSegment
<1>4. \A i \in Ids : cursor[i] # NoSegment => cursor'[i] # NoSegment
  BY <1>3
<1>5. TypeOK'
  <2>1. -1 \in NoSegment..MaxSequence
    BY CountsAssumption DEF NoSegment
  <2>2. cursor' \in [Ids -> NoSegment..MaxSequence]
    BY <1>1, <2>1 DEF TypeOK
  <2>3. discovered' \subseteq {i \in Ids : cursor'[i] # NoSegment}
    BY <1>1, <1>4 DEF TypeOK
  <2>4. QED
    BY <1>1, <2>2, <2>3 DEF TypeOK
<1>6. Counted' /\ NamesDistinct' /\ ProducerInStep'
  BY <1>1, <1>2 DEF Counted, NamesDistinct, ProducerInStep
<1>7. \A v \in Up : id[v] \in Ids /\ cursor'[id[v]] = cursor[id[v]]
  <2>1. \A v \in Up : id[v] \in Ids /\ id[v] # id[w]
    BY <1>1, <1>2, <1>3 DEF Up, NamesDistinct, Alive, TypeOK
  <2>2. QED
    BY <1>3, <2>1
<1>8. WorkersInStep'
  <2>1. ASSUME NEW v \in Workers, wstage'[v] \in {"created", "attached", "up"}
        PROVE  cursor'[id[v]] # NoSegment
    <3>1. CASE v = w
      BY <1>3, <3>1
    <3>2. CASE v # w
      <4>1. id[v] \in Ids /\ cursor[id[v]] # NoSegment
        BY <1>1, <1>3, <2>1, <3>2 DEF WorkersInStep, NamesDistinct, Alive, TypeOK
      <4>2. QED
        BY <1>4, <4>1
    <3>3. QED
      BY <3>1, <3>2
  <2>2. \A v \in Up : last_processed_sequence[v] = cursor'[id[v]]
    BY <1>1, <1>7 DEF WorkersInStep
  <2>3. ASSUME NEW v \in Workers, Discovery = "prefix", last_processed_sequence[v] # -1
        PROVE  cursor'[v] >= last_processed_sequence[v] /\ wstage'[v] # "created"
    <3>1. cursor[v] >= last_processed_sequence[v] /\ wstage[v] # "created" /\ v \in Ids
      BY <1>1, <2>3, ConstantFacts DEF WorkersInStep
    <3>2. v # w /\ id[w] = w
      BY <1>1, <1>2, <2>3, <3>1 DEF NamesDistinct
    <3>3. QED
      BY <1>3, <3>1, <3>2
  <2>4. QED
    BY <1>1, <1>2, <2>1, <2>2, <2>3 DEF WorkersInStep
<1>9. WindowSound'
  <2>1. SUFFICES ASSUME "init" \notin Races PROVE WindowSound'
    BY DEF WindowSound
  <2>2. Initialising(id[w])
    BY <1>1 DEF Initialising
  <2>3. \A i \in discovered : i # id[w] /\ cursor'[i] = cursor[i]
    BY <1>1, <1>3, <2>1, <2>2 DEF WindowSound, TypeOK
  <2>4. \A i \in discovered : ~Initialising(i)'
    BY <1>1, <1>2, <1>3, <2>1 DEF WindowSound, Initialising
  <2>5. QED
    BY <1>1, <2>1, <2>3, <2>4 DEF WindowSound
<1>10. PresentGated'
  <2>1. Initialising(id[w])
    BY <1>1 DEF Initialising
  <2>2. ASSUME NEW i \in present PROVE cursor'[i] = cursor[i]
    BY <1>1, <1>3, <2>1 DEF PresentGated, TypeOK
  <2>3. ASSUME NEW i \in present PROVE ~Initialising(i)'
    BY <1>1, <1>2, <1>3 DEF PresentGated, Initialising
  <2>4. QED
    BY <1>1, <2>2, <2>3 DEF PresentGated
<1>11. QED
  BY <1>5, <1>6, <1>8, <1>9, <1>10 DEF IInv

LEMMA SignalKeepsInvariant ==
    ASSUME IInv, NEW w \in Workers, SignalReadiness(w)
    PROVE  IInv'
<1>1. /\ TypeOK /\ Counted /\ NamesDistinct /\ ProducerInStep /\ WorkersInStep
      /\ WindowSound /\ PresentGated
      /\ UNCHANGED <<producer_sequence, registered, cursor, pstage, discovered, sequence,
                     sequence_clear_of_consumers, id, present, missed, waited, crashes>>
      /\ wstage[w] = "attached" /\ wstage' = [wstage EXCEPT ![w] = "up"]
      /\ last_processed_sequence' =
            [last_processed_sequence EXCEPT ![w] = cursor[id[w]]]
      /\ \/ UNCHANGED <<consumers_ready, signalled>>
         \/ /\ consumers_ready # NoSegment /\ consumers_ready' = consumers_ready + 1
            /\ signalled' = signalled \union {w}
  BY DEF IInv, SignalReadiness, producerVars
<1>2. /\ Alive' = Alive /\ w \in Alive /\ Up' = Up \cup {w} /\ w \notin Up
      /\ wstage'[w] = "up"
  <2>1. w \in Alive /\ w \notin Up /\ wstage'[w] = "up"
    BY <1>1 DEF Alive, Up, TypeOK
  <2>2. Alive' = Alive \cup {w} /\ Up' = Up \cup {w}
    BY <1>1, StageChange
  <2>3. QED
    BY <2>1, <2>2
<1>3. /\ Cardinality(signalled \cap Up) \in 0..NumWorkers
      /\ Cardinality(signalled' \cap Up') \in 0..NumWorkers
      /\ Cardinality(signalled \cap Up) <= Cardinality(signalled' \cap Up')
      /\ w \in signalled' =>
            Cardinality(signalled' \cap Up') = Cardinality(signalled \cap Up) + 1
      /\ signalled' \subseteq Workers
  <2> DEFINE S == signalled \cap Up
  <2>1. S \in SUBSET Workers /\ signalled' \subseteq Workers /\ w \notin S
    BY <1>1, <1>2 DEF TypeOK
  <2>2. signalled' \cap Up' = IF w \in signalled' THEN S \cup {w} ELSE S
    BY <1>1, <1>2
  <2> HIDE DEF S
  <2>3. IsFiniteSet(S) /\ Cardinality(S) \in 0..NumWorkers
    BY <2>1, WorkerCounts
  <2>4. Cardinality(S \cup {w}) = Cardinality(S) + 1
    BY <2>1, <2>3, FS_AddElement
  <2>5. Cardinality(S \cup {w}) \in 0..NumWorkers
    BY <2>1, WorkerCounts
  <2>6. CASE w \in signalled'
    <3>1. Cardinality(signalled' \cap Up') = Cardinality(S \cup {w})
      BY <2>2, <2>6
    <3>2. Cardinality(S) <= Cardinality(S) + 1
      BY <2>3
    <3>3. QED
      BY <2>1, <2>3, <2>4, <2>5, <3>1, <3>2, Zenon DEF S
  <2>7. CASE w \notin signalled'
    <3>1. signalled' \cap Up' = S
      BY <2>2, <2>7
    <3>2. Cardinality(S) <= Cardinality(S)
      BY <2>3
    <3>3. QED
      BY <2>1, <2>3, <2>7, <3>1, <3>2, Zenon DEF S
  <2>8. QED
    BY <2>6, <2>7
<1>4. /\ \A v \in Workers : v # w => /\ wstage'[v] = wstage[v]
                                     /\ last_processed_sequence'[v] = last_processed_sequence[v]
      /\ id[w] \in Ids /\ cursor[id[w]] \in -1..MaxSequence
      /\ last_processed_sequence'[w] = cursor[id[w]]
  <2>1. id[w] \in Ids /\ cursor[id[w]] # NoSegment
    BY <1>1, <1>2 DEF TypeOK, NamesDistinct, WorkersInStep
  <2>2. QED
    BY <1>1, <2>1, CountsAssumption DEF TypeOK, NoSegment
<1>5. /\ consumers_ready' <= Cardinality(signalled' \cap Up') + crashes
      /\ consumers_ready' \in {NoSegment} \union 0..(NumWorkers + MaxCrashes)
      /\ waited => consumers_ready' >= MinConsumers
  <2>1. /\ crashes \in 0..MaxCrashes
        /\ consumers_ready <= Cardinality(signalled \cap Up) + crashes
        /\ consumers_ready \in {NoSegment} \union 0..(NumWorkers + MaxCrashes)
        /\ waited => consumers_ready >= MinConsumers
    BY <1>1 DEF TypeOK, Counted
  <2>2. CASE UNCHANGED consumers_ready
    BY <1>3, <2>1, <2>2, CountsAssumption DEF NoSegment
  <2>3. CASE /\ consumers_ready # NoSegment /\ consumers_ready' = consumers_ready + 1
             /\ signalled' = signalled \union {w}
    BY <1>3, <2>1, <2>3, CountsAssumption
  <2>4. QED
    BY <1>1, <2>2, <2>3
<1>6. TypeOK'
  <2>1. last_processed_sequence' \in [Workers -> -1..MaxSequence]
    BY <1>1, <1>4 DEF TypeOK
  <2>2. QED
    BY <1>1, <1>3, <1>5, <2>1 DEF TypeOK
<1>7. Counted'
  BY <1>1, <1>2, <1>5 DEF Counted
<1>8. NamesDistinct' /\ ProducerInStep'
  BY <1>1, <1>2 DEF NamesDistinct, ProducerInStep
<1>9. WorkersInStep'
  <2>1. \A v \in Workers :
           wstage'[v] \in {"created", "attached", "up"} => cursor[id[v]] # NoSegment
    BY <1>1, <1>4 DEF WorkersInStep
  <2>2. \A v \in Up' : last_processed_sequence'[v] = cursor[id[v]]
    BY <1>1, <1>2, <1>4 DEF WorkersInStep, Up
  <2>3. ASSUME NEW v \in Workers, Discovery = "prefix", last_processed_sequence'[v] # -1
        PROVE  cursor[v] >= last_processed_sequence'[v] /\ wstage'[v] # "created"
    <3>1. CASE v = w
      <4>1. id[w] = w
        BY <1>1, <1>2, <2>3 DEF NamesDistinct
      <4>2. QED
        BY <1>2, <1>4, <3>1, <4>1
    <3>2. CASE v # w
      BY <1>1, <1>4, <2>3, <3>2 DEF WorkersInStep
    <3>3. QED
      BY <3>1, <3>2
  <2>4. \A v \in Workers : MaxCrashes = 0 /\ v \notin Up' => last_processed_sequence'[v] = -1
    BY <1>1, <1>2, <1>4 DEF WorkersInStep
  <2>5. QED
    BY <1>1, <2>1, <2>2, <2>3, <2>4 DEF WorkersInStep
<1>10. WindowSound'
  <2>1. \A i : Initialising(i)' => Initialising(i)
    BY <1>1, <1>2, <1>4 DEF Initialising
  <2>2. QED
    BY <1>1, <2>1 DEF WindowSound
<1>11. PresentGated'
  <2>1. \A i : Initialising(i)' => Initialising(i)
    BY <1>1, <1>2, <1>4 DEF Initialising
  <2>2. QED
    BY <1>1, <2>1 DEF PresentGated
<1>12. QED
  BY <1>6, <1>7, <1>8, <1>9, <1>10, <1>11 DEF IInv

LEMMA ConsumeKeepsInvariant ==
    ASSUME IInv, NEW w \in Workers, Consume(w)
    PROVE  IInv'
<1>1. /\ TypeOK /\ Counted /\ NamesDistinct /\ ProducerInStep /\ WorkersInStep
      /\ WindowSound /\ PresentGated
      /\ UNCHANGED <<producer_sequence, consumers_ready, registered, pstage, discovered,
                     sequence, sequence_clear_of_consumers, wstage, id, present, missed, signalled,
                     waited, crashes>>
      /\ wstage[w] = "up" /\ Next_(w) <= producer_sequence
      /\ last_processed_sequence' = [last_processed_sequence EXCEPT ![w] = Next_(w)]
      /\ cursor' = [cursor EXCEPT ![id[w]] = Next_(w)]
  BY DEF IInv, Consume, producerVars, history
<1>2. /\ Alive' = Alive /\ Up' = Up /\ w \in Up /\ w \in Alive
      /\ \A i : Initialising(i)' = Initialising(i)
  BY <1>1 DEF Alive, Up, Initialising
<1>3. /\ id[w] \in Ids /\ cursor[id[w]] \in -1..MaxSequence
      /\ last_processed_sequence[w] = cursor[id[w]]
      /\ Next_(w) = cursor[id[w]] + 1 /\ Next_(w) \in 0..MaxSequence
      /\ Next_(w) \in NoSegment..MaxSequence
  <2>1. id[w] \in Ids /\ cursor[id[w]] # NoSegment
    BY <1>1, <1>2 DEF TypeOK, NamesDistinct, WorkersInStep
  <2>2. cursor[id[w]] \in -1..MaxSequence /\ producer_sequence \in NoSegment..MaxSequence
    BY <1>1, <2>1, CountsAssumption DEF TypeOK, NoSegment
  <2>3. last_processed_sequence[w] = cursor[id[w]] /\ Next_(w) = cursor[id[w]] + 1
    BY <1>1, <1>2 DEF WorkersInStep, Next_
  <2>4. QED
    BY <1>1, <2>1, <2>2, <2>3, CountsAssumption DEF NoSegment
<1>4. /\ \A v \in Workers :
            v # w => /\ last_processed_sequence'[v] = last_processed_sequence[v]
                     /\ id[v] # id[w]
      /\ last_processed_sequence'[w] = Next_(w)
      /\ \A i \in Ids : i # id[w] => cursor'[i] = cursor[i]
      /\ cursor'[id[w]] = Next_(w)
  BY <1>1, <1>2, <1>3 DEF TypeOK, NamesDistinct
<1>5. \A i \in Ids : /\ cursor[i] # NoSegment => cursor'[i] # NoSegment
                     /\ cursor'[i] >= cursor[i]
                     /\ cursor[i] \in Int /\ cursor'[i] \in Int
  <2>1. SUFFICES ASSUME NEW i \in Ids
                 PROVE  /\ cursor[i] # NoSegment => cursor'[i] # NoSegment
                        /\ cursor'[i] >= cursor[i]
                        /\ cursor[i] \in Int /\ cursor'[i] \in Int
    OBVIOUS
  <2>2. cursor[i] \in NoSegment..MaxSequence /\ cursor[i] \in Int
    BY <1>1, CountsAssumption DEF TypeOK, NoSegment
  <2>3. CASE i = id[w]
    BY <1>3, <1>4, <2>2, <2>3, CountsAssumption DEF NoSegment
  <2>4. CASE i # id[w]
    BY <1>4, <2>2, <2>4
  <2>5. QED
    BY <2>3, <2>4
<1>6. TypeOK'
  <2>1. cursor' \in [Ids -> NoSegment..MaxSequence]
    BY <1>1, <1>3 DEF TypeOK
  <2>2. last_processed_sequence' \in [Workers -> -1..MaxSequence]
    <3>1. Next_(w) \in -1..MaxSequence
      BY <1>3, CountsAssumption
    <3>2. QED
      BY <1>1, <3>1 DEF TypeOK
  <2>3. discovered' \subseteq {i \in Ids : cursor'[i] # NoSegment}
    BY <1>1, <1>5 DEF TypeOK
  <2>4. QED
    BY <1>1, <2>1, <2>2, <2>3 DEF TypeOK
<1>7. Counted' /\ NamesDistinct' /\ ProducerInStep'
  BY <1>1, <1>2 DEF Counted, NamesDistinct, ProducerInStep
<1>8. WorkersInStep'
  <2>1. \A v \in Workers :
           wstage[v] \in {"created", "attached", "up"} => cursor'[id[v]] # NoSegment
    <3>1. SUFFICES ASSUME NEW v \in Workers, wstage[v] \in {"created", "attached", "up"}
                   PROVE  cursor'[id[v]] # NoSegment
      OBVIOUS
    <3>2. id[v] \in Ids /\ cursor[id[v]] # NoSegment
      BY <1>1, <3>1 DEF WorkersInStep, NamesDistinct, Alive, TypeOK
    <3>3. QED
      BY <1>5, <3>2
  <2>2. \A v \in Up : last_processed_sequence'[v] = cursor'[id[v]]
    <3>1. SUFFICES ASSUME NEW v \in Up PROVE last_processed_sequence'[v] = cursor'[id[v]]
      OBVIOUS
    <3>2. v \in Workers /\ id[v] \in Ids /\ last_processed_sequence[v] = cursor[id[v]]
      BY <1>1 DEF Up, WorkersInStep, NamesDistinct, Alive, TypeOK
    <3>3. QED
      BY <1>4, <3>2
  <2>3. ASSUME NEW v \in Workers, Discovery = "prefix", last_processed_sequence'[v] # -1
        PROVE  cursor'[v] >= last_processed_sequence'[v] /\ wstage[v] # "created"
    <3>1. CASE v = w
      <4>1. id[w] = w
        BY <1>1, <1>2, <2>3 DEF NamesDistinct
      <4>2. cursor'[w] = Next_(w) /\ last_processed_sequence'[w] = Next_(w)
        BY <1>4, <4>1
      <4>3. QED
        BY <1>1, <1>3, <3>1, <4>2, CountsAssumption
    <3>2. CASE v # w
      <4>1. /\ v \in Ids /\ cursor[v] >= last_processed_sequence[v] /\ wstage[v] # "created"
            /\ last_processed_sequence'[v] = last_processed_sequence[v]
        BY <1>1, <1>4, <2>3, <3>2, ConstantFacts DEF WorkersInStep
      <4>2. v # id[w]
        <5>1. id[w] = w
          BY <1>1, <1>2, <2>3 DEF NamesDistinct
        <5>2. QED
          BY <3>2, <5>1
      <4>3. QED
        BY <1>4, <4>1, <4>2
    <3>3. QED
      BY <3>1, <3>2
  <2>4. \A v \in Workers : MaxCrashes = 0 /\ v \notin Up => last_processed_sequence'[v] = -1
    BY <1>1, <1>2, <1>4 DEF WorkersInStep
  <2>5. QED
    BY <1>1, <1>2, <2>1, <2>2, <2>3, <2>4 DEF WorkersInStep
<1>9. Size \in Nat /\ sequence \in Int /\ sequence_clear_of_consumers \in Int
  BY <1>1, CountsAssumption DEF TypeOK
<1>10. WindowSound'
  <2>1. SUFFICES ASSUME "init" \notin Races PROVE WindowSound'
    BY DEF WindowSound
  <2>2. ASSUME sequence <= sequence_clear_of_consumers, NEW i \in discovered
        PROVE  sequence_clear_of_consumers <= cursor'[i] + Size
    <3>1. i \in Ids /\ sequence_clear_of_consumers <= cursor[i] + Size
      BY <1>1, <2>1, <2>2 DEF WindowSound, TypeOK
    <3>2. cursor'[i] >= cursor[i] /\ cursor[i] \in Int /\ cursor'[i] \in Int
      BY <1>5, <3>1
    <3>3. QED
      BY <1>9, <3>1, <3>2
  <2>3. QED
    BY <1>1, <1>2, <2>1, <2>2 DEF WindowSound
<1>11. PresentGated'
  <2>1. ASSUME NEW i \in present
        PROVE  /\ cursor'[i] # NoSegment /\ ~Initialising(i)'
               /\ sequence_clear_of_consumers <= cursor[i] + Size =>
                     sequence_clear_of_consumers <= cursor'[i] + Size
    <3>1. i \in Ids /\ cursor[i] # NoSegment /\ ~Initialising(i)
      BY <1>1 DEF PresentGated, TypeOK
    <3>2. QED
      BY <1>2, <1>5, <1>9, <3>1
  <2>2. QED
    BY <1>1, <2>1 DEF PresentGated
<1>12. QED
  BY <1>6, <1>7, <1>8, <1>10, <1>11 DEF IInv

LEMMA CrashKeepsInvariant ==
    ASSUME IInv, NEW w \in Workers, Crash(w)
    PROVE  IInv'
<1>1. /\ TypeOK /\ Counted /\ NamesDistinct /\ ProducerInStep /\ WorkersInStep
      /\ WindowSound /\ PresentGated
      /\ UNCHANGED <<producer_sequence, consumers_ready, registered, cursor, pstage, discovered,
                     sequence, sequence_clear_of_consumers, id, last_processed_sequence,
                     present, missed, signalled, waited>>
      /\ wstage[w] # "down" /\ wstage' = [wstage EXCEPT ![w] = "down"]
      /\ crashes < MaxCrashes /\ crashes' = crashes + 1
  BY DEF IInv, Crash, producerVars, segments
<1>2. /\ Alive' = Alive \ {w} /\ w \in Alive /\ Up' = Up \ {w} /\ wstage'[w] = "down"
      /\ \A v \in Workers : v # w => wstage'[v] = wstage[v]
  <2>1. w \in Alive /\ wstage'[w] = "down" /\ \A v \in Workers : v # w => wstage'[v] = wstage[v]
    BY <1>1 DEF Alive, TypeOK
  <2>2. Alive' = Alive \ {w} /\ Up' = Up \ {w}
    <3>1. TypeOK /\ wstage' = [wstage EXCEPT ![w] = "down"] /\ "down" # "up"
      BY <1>1
    <3>2. QED
      BY <3>1, StageChange
  <2>3. QED
    BY <2>1, <2>2
<1>3. crashes \in Nat /\ MaxCrashes \in Nat /\ MaxCrashes > 0 /\ crashes' \in 0..MaxCrashes
  BY <1>1, CountsAssumption DEF TypeOK
<1>4. \A S \in {Alive, signalled \cap Up} :
         Cardinality(S) \in Nat /\ Cardinality(S \ {w}) \in Nat
            /\ Cardinality(S) <= Cardinality(S \ {w}) + 1
  <2>1. SUFFICES ASSUME NEW S \in SUBSET Workers
                 PROVE  Cardinality(S) \in Nat /\ Cardinality(S \ {w}) \in Nat
                           /\ Cardinality(S) <= Cardinality(S \ {w}) + 1
    BY <1>1 DEF Alive, Up, TypeOK
  <2>2. IsFiniteSet(S) /\ Cardinality(S) \in 0..NumWorkers
    BY WorkerCounts
  <2>3. Cardinality(S \ {w}) \in 0..NumWorkers
    BY WorkerCounts
  <2>4. Cardinality(S \ {w}) = IF w \in S THEN Cardinality(S) - 1 ELSE Cardinality(S)
    BY <2>2, FS_RemoveElement
  <2>5. QED
    BY <2>2, <2>3, <2>4, CountsAssumption
<1>5. TypeOK'
  BY <1>1, <1>3 DEF TypeOK
<1>6. Counted'
  <2>1. registered \in Int /\ consumers_ready \in Int
    BY <1>1, CountsAssumption DEF TypeOK, NoSegment
  <2>2. Discovery # "prefix" => registered <= Cardinality(Alive') + crashes'
    BY <1>1, <1>2, <1>3, <1>4, <2>1 DEF Counted
  <2>3. consumers_ready <= Cardinality(signalled' \cap Up') + crashes'
    <3>1. signalled' \cap Up' = (signalled \cap Up) \ {w}
      BY <1>1, <1>2
    <3>2. consumers_ready <= Cardinality(signalled \cap Up) + crashes
      BY <1>1 DEF Counted
    <3>3. /\ Cardinality(signalled \cap Up) \in Nat
          /\ Cardinality((signalled \cap Up) \ {w}) \in Nat
          /\ Cardinality(signalled \cap Up) <= Cardinality((signalled \cap Up) \ {w}) + 1
      BY <1>4
    <3>4. Cardinality(signalled' \cap Up') = Cardinality((signalled \cap Up) \ {w})
      BY <3>1
    <3> DEFINE a == Cardinality(signalled \cap Up)
               b == Cardinality((signalled \cap Up) \ {w})
               n == Cardinality(signalled' \cap Up')
    <3> HIDE DEF a, b, n
    <3>5. consumers_ready <= a + crashes /\ a \in Nat /\ b \in Nat /\ a <= b + 1 /\ n = b
      BY <3>2, <3>3, <3>4 DEF a, b, n
    <3>6. consumers_ready <= n + crashes'
      BY <1>1, <1>3, <2>1, <3>5
    <3>7. QED
      BY <3>6 DEF n
  <2>4. QED
    BY <1>1, <1>3, <2>2, <2>3 DEF Counted
<1>7. NamesDistinct' /\ ProducerInStep'
  BY <1>1, <1>2 DEF NamesDistinct, ProducerInStep
<1>8. WorkersInStep'
  BY <1>1, <1>2, <1>3 DEF WorkersInStep, Up
<1>9. WindowSound'
  <2>1. \A i : Initialising(i)' => Initialising(i)
    BY <1>1, <1>2 DEF Initialising
  <2>2. QED
    BY <1>1, <2>1 DEF WindowSound
<1>10. PresentGated'
  <2>1. \A i : Initialising(i)' => Initialising(i)
    BY <1>1, <1>2 DEF Initialising
  <2>2. QED
    BY <1>1, <2>1 DEF PresentGated
<1>11. QED
  BY <1>5, <1>6, <1>7, <1>8, <1>9, <1>10 DEF IInv

LEMMA StutterKeepsInvariant == IInv /\ UNCHANGED vars => IInv'
<1>1. SUFFICES ASSUME IInv, UNCHANGED vars PROVE IInv'
  OBVIOUS
<1>2. /\ TypeOK' /\ Counted'
      /\ Up' = Up /\ Alive' = Alive /\ \A i : Initialising(i)' = Initialising(i)
  BY <1>1 DEF IInv, TypeOK, Counted, Up, Alive, Initialising,
              vars, segments, producerVars, workerVars, history
<1>3. NamesDistinct' /\ ProducerInStep' /\ WorkersInStep'
  BY <1>1, <1>2 DEF IInv, NamesDistinct, ProducerInStep, WorkersInStep,
                    vars, segments, producerVars, workerVars, history
<1>4. WindowSound' /\ PresentGated'
  BY <1>1, <1>2 DEF IInv, WindowSound, PresentGated,
                    vars, segments, producerVars, workerVars, history
<1>5. QED
  BY <1>2, <1>3, <1>4 DEF IInv

-----------------------------------------------------------------------------
(* The theorems. *)

LEMMA StepKeepsInvariant == IInv /\ [Next]_vars => IInv'
<1> SUFFICES ASSUME IInv, [Next]_vars PROVE IInv'
  OBVIOUS
<1>1. CASE ProducerStep
  BY <1>1, StartKeepsInvariant, GateKeepsInvariant, PublishKeepsInvariant DEF ProducerStep
<1>2. ASSUME NEW w \in Workers, WorkerStep(w) \/ Crash(w) PROVE IInv'
  BY <1>2, AttachKeepsInvariant, CreateKeepsInvariant, InitCursorKeepsInvariant,
     SignalKeepsInvariant, ConsumeKeepsInvariant, CrashKeepsInvariant DEF WorkerStep
<1>3. CASE UNCHANGED vars
  BY <1>3, StutterKeepsInvariant
<1>4. QED
  BY <1>1, <1>2, <1>3 DEF Next

\* Ids are given out once, cursors exist before they are used, and the window ends at
\* most one ring after a consumer the barrier knows of (build_producer,
\* build_consumer, discover_new_consumers_if_needed).
THEOREM InvariantHolds == Spec => []IInv
  BY InitEstablishes, StepKeepsInvariant, PTL DEF Spec

\* A successful wait means that min_consumers workers are ready, whenever and however
\* often workers crash and signal again, but for one for each crash
\* (wait_for_consumers_with_timeout, new_with_coordination).
THEOREM WaitCountsWorkers == Spec => []WaitedForEnough
<1>1. IInv => WaitedForEnough
  <2>1. SUFFICES ASSUME IInv, waited
                 PROVE  Cardinality(signalled \cap Up) + crashes >= MinConsumers
    BY DEF WaitedForEnough
  <2>2. /\ consumers_ready >= MinConsumers
        /\ consumers_ready <= Cardinality(signalled \cap Up) + crashes
    BY <2>1 DEF IInv, Counted
  <2>3. /\ consumers_ready \in Int /\ MinConsumers \in Int /\ crashes \in Int
        /\ Cardinality(signalled \cap Up) \in Int
    <3>1. signalled \cap Up \in SUBSET Workers
      BY <2>1 DEF IInv, TypeOK
    <3>2. Cardinality(signalled \cap Up) \in 0..NumWorkers
      BY <3>1, WorkerCounts
    <3>3. QED
      BY <2>1, <3>2, CountsAssumption DEF IInv, TypeOK, NoSegment
  <2>4. QED
    BY <2>2, <2>3
<1>2. QED
  BY <1>1, InvariantHolds, PTL

\* A worker that was up before the first event, whose id max_consumers reaches and
\* that no skipped scan has left out is never lapped, over every crash, timeout and
\* race of the initialisation (discovery_scan_plan and min_sequence_fallback).
THEOREM NobodyIsLapped == Spec => []EveryEventSeen
<1>1. IInv => EveryEventSeen
  <2>1. SUFFICES ASSUME IInv, NEW i \in present \ missed, i < MaxConsumers
                 PROVE  sequence - 1 - cursor[i] <= Size
    BY DEF EveryEventSeen
  <2>2. /\ sequence - 1 <= sequence_clear_of_consumers
        /\ sequence_clear_of_consumers <= cursor[i] + Size
    BY <2>1 DEF IInv, PresentGated, ProducerInStep
  <2>3. /\ sequence \in Int /\ cursor[i] \in Int /\ Size \in Int
        /\ sequence_clear_of_consumers \in Int
    BY <2>1, CountsAssumption DEF IInv, TypeOK, NoSegment
  <2>4. QED
    BY <2>2, <2>3
<1>2. QED
  BY <1>1, InvariantHolds, PTL

\* If no cursor is attached before it is initialised, publishing never overwrites an
\* event a consumer the barrier knows of has still to acknowledge, whenever it was
\* found (get_min_consumer_sequence).
THEOREM KnownConsumersGate ==
    ASSUME "init" \notin Races
    PROVE  Spec => OverwritesOnlyAcknowledged
<1>1. IInv /\ [Next]_vars =>
         (sequence' # sequence => \A i \in discovered : sequence - Size <= cursor[i])
  <2>1. SUFFICES ASSUME IInv, [Next]_vars, sequence' # sequence, NEW i \in discovered
                 PROVE  sequence - Size <= cursor[i]
    OBVIOUS
  <2>2. Publish
    BY <2>1 DEF Next, ProducerStep, WorkerStep, CreateProducerSequence, InitProducerSequence,
       CreateReadiness, DiscoverInitially, ConsumersReady, ReadinessTimeout, DiscoverAndGate,
       GateOnly, Attach, CreateCursor, InitCursor, SignalReadiness, Consume, Crash,
       vars, producerVars
  <2>3. /\ sequence <= sequence_clear_of_consumers
        /\ sequence_clear_of_consumers <= cursor[i] + Size
    BY <2>1, <2>2 DEF IInv, WindowSound, Publish
  <2>4. i \in Ids /\ cursor[i] \in Int
    BY <2>1, CountsAssumption DEF IInv, TypeOK, NoSegment
  <2>5. sequence \in Int /\ sequence_clear_of_consumers \in Int /\ Size \in Int
    BY <2>1, CountsAssumption DEF IInv, TypeOK
  <2>6. QED
    BY <2>3, <2>4, <2>5
<1>2. QED
  BY <1>1, InvariantHolds, PTL DEF Spec, OverwritesOnlyAcknowledged

\* Nor does the cursor of a consumer the barrier knows of, the producer's own once a
\* worker is up, or the place at which a named consumer resumes ever go back
\* (SharedCursor::new_or_attach, new_with_coordination).
THEOREM CursorsOnlyAdvance ==
    ASSUME "init" \notin Races, Discovery = "prefix" \/ MaxCrashes = 0
    PROVE  Spec => NeverRegress
<1> DEFINE ProducerAdvances == Up # {} => producer_sequence' >= producer_sequence
           KnownAdvance == \A i \in discovered : cursor'[i] >= cursor[i]
           WorkersAdvance == \A w \in Workers :
                                last_processed_sequence'[w] >= last_processed_sequence[w]
<1>1. ASSUME IInv, Next PROVE ProducerAdvances
  <2>1. /\ producer_sequence \in Int /\ sequence \in Nat
        /\ pstage \notin {"create", "init"} => producer_sequence = sequence - 1
        /\ pstage \in {"create", "init"} => Up = {}
    BY <1>1, CountsAssumption DEF IInv, TypeOK, NoSegment, ProducerInStep, Alive, Up
  <2>2. CASE CreateProducerSequence \/ InitProducerSequence
    BY <2>1, <2>2 DEF CreateProducerSequence, InitProducerSequence
  <2>3. CASE Publish
    BY <2>1, <2>3 DEF Publish
  <2>4. CASE ~CreateProducerSequence /\ ~InitProducerSequence /\ ~Publish
    <3>1. producer_sequence' = producer_sequence
      BY <1>1, <2>4 DEF Next, ProducerStep, WorkerStep, CreateReadiness, DiscoverInitially,
         ConsumersReady, ReadinessTimeout, DiscoverAndGate, GateOnly, Attach, CreateCursor,
         InitCursor, SignalReadiness, Consume, Crash, segments
    <3>2. QED
      BY <2>1, <3>1
  <2>5. QED
    BY <2>2, <2>3, <2>4
<1>2. ASSUME IInv, Next PROVE KnownAdvance
  <2>1. SUFFICES ASSUME NEW i \in discovered PROVE cursor'[i] >= cursor[i]
    OBVIOUS
  <2>2. /\ i \in Ids /\ cursor[i] \in Int /\ cursor[i] # NoSegment /\ ~Initialising(i)
        /\ cursor \in [Ids -> NoSegment..MaxSequence]
    BY <1>2, CountsAssumption DEF IInv, TypeOK, NoSegment, WindowSound
  <2>3. ASSUME NEW w \in Workers, CreateCursor(w) PROVE cursor'[i] = cursor[i]
    BY <2>2, <2>3 DEF CreateCursor
  <2>4. ASSUME NEW w \in Workers, InitCursor(w) PROVE cursor'[i] = cursor[i]
    BY <2>2, <2>4 DEF InitCursor, Initialising
  <2>5. ASSUME NEW w \in Workers, Consume(w) PROVE cursor'[i] >= cursor[i]
    <3>1. w \in Up /\ cursor' = [cursor EXCEPT ![id[w]] = Next_(w)]
      BY <2>5 DEF Consume, Up
    <3>2. Next_(w) = cursor[id[w]] + 1
      BY <1>2, <3>1 DEF IInv, WorkersInStep, Next_
    <3>3. CASE i = id[w]
      BY <2>2, <3>1, <3>2, <3>3
    <3>4. CASE i # id[w]
      BY <2>2, <3>1, <3>4
    <3>5. QED
      BY <3>3, <3>4
  <2>6. CASE cursor' = cursor
    BY <2>2, <2>6
  <2>7. \/ \E w \in Workers : CreateCursor(w) \/ InitCursor(w) \/ Consume(w)
        \/ cursor' = cursor
    BY <1>2 DEF Next, ProducerStep, WorkerStep, CreateProducerSequence, InitProducerSequence,
       CreateReadiness, DiscoverInitially, ConsumersReady, ReadinessTimeout, DiscoverAndGate,
       GateOnly, Publish, Attach, SignalReadiness, Crash, segments
  <2>8. QED
    BY <2>2, <2>3, <2>4, <2>5, <2>6, <2>7
<1>3. ASSUME IInv, Next PROVE WorkersAdvance
  <2>1. SUFFICES ASSUME NEW v \in Workers
                 PROVE  last_processed_sequence'[v] >= last_processed_sequence[v]
    OBVIOUS
  <2>2. /\ last_processed_sequence \in [Workers -> -1..MaxSequence]
        /\ last_processed_sequence[v] \in Int /\ last_processed_sequence[v] >= -1
    BY <1>3, CountsAssumption DEF IInv, TypeOK
  <2>3. ASSUME NEW w \in Workers, SignalReadiness(w)
        PROVE  last_processed_sequence'[v] >= last_processed_sequence[v]
    <3>1. /\ wstage[w] = "attached" /\ last_processed_sequence' =
                                          [last_processed_sequence EXCEPT ![w] = cursor[id[w]]]
      BY <2>3 DEF SignalReadiness
    <3>2. w \in Alive /\ w \notin Up /\ id[w] \in Ids /\ cursor[id[w]] # NoSegment
      BY <1>3, <3>1 DEF Alive, Up, IInv, TypeOK, NamesDistinct, WorkersInStep
    <3>3. cursor[id[w]] \in Int /\ cursor[id[w]] >= -1
      BY <1>3, <3>2, CountsAssumption DEF IInv, TypeOK, NoSegment
    <3>4. cursor[id[w]] >= last_processed_sequence[w]
      <4>1. CASE last_processed_sequence[w] = -1
        BY <3>3, <4>1
      <4>2. CASE last_processed_sequence[w] # -1
        <5>1. Discovery = "prefix" /\ id[w] = w
          BY <1>3, <3>2, <4>2 DEF IInv, WorkersInStep, NamesDistinct
        <5>2. QED
          BY <1>3, <4>2, <5>1 DEF IInv, WorkersInStep
      <4>3. QED
        BY <4>1, <4>2
    <3>5. CASE v = w
      BY <2>2, <3>1, <3>4, <3>5
    <3>6. CASE v # w
      BY <2>2, <3>1, <3>6
    <3>7. QED
      BY <3>5, <3>6
  <2>4. ASSUME NEW w \in Workers, Consume(w)
        PROVE  last_processed_sequence'[v] >= last_processed_sequence[v]
    <3>1. last_processed_sequence' =
             [last_processed_sequence EXCEPT ![w] = last_processed_sequence[w] + 1]
      BY <2>4 DEF Consume, Next_
    <3>2. CASE v = w
      BY <2>2, <3>1, <3>2
    <3>3. CASE v # w
      BY <2>2, <3>1, <3>3
    <3>4. QED
      BY <3>2, <3>3
  <2>5. \/ \E w \in Workers : SignalReadiness(w) \/ Consume(w)
        \/ last_processed_sequence' = last_processed_sequence
    BY <1>3 DEF Next, ProducerStep, WorkerStep, CreateProducerSequence, InitProducerSequence,
       CreateReadiness, DiscoverInitially, ConsumersReady, ReadinessTimeout, DiscoverAndGate,
       GateOnly, Publish, Attach, CreateCursor, InitCursor, Crash, workerVars
  <2>6. QED
    BY <2>2, <2>3, <2>4, <2>5
<1>4. IInv /\ [Next]_vars => [ProducerAdvances /\ KnownAdvance /\ WorkersAdvance]_vars
  BY <1>1, <1>2, <1>3
<1>5. QED
  BY <1>4, InvariantHolds, PTL DEF Spec, NeverRegress

================================================================================
