-------------------------- MODULE MmapTransport_proofs --------------------------
(***************************************************************************)
(* Proofs about MmapTransport, for every finite set of consumers, ring     *)
(* size, number of consumers waited for and bound on events and faults.    *)
(***************************************************************************)
EXTENDS MmapTransport, FiniteSetTheorems, WellFoundedInduction, TLAPS

LEMMA InitEstablishes == Init => IInv
<1> SUFFICES ASSUME Init PROVE IInv
  OBVIOUS
<1>1. TypeOK
  <2>1. is_owner \in [Consumers -> BOOLEAN]
    BY DEF Init
  <2>2. /\ slots \in [0..(Size - 1) -> -1..MaxSequence]
        /\ published \in -1..MaxSequence /\ window \in Int
        /\ sequence \in 0..(MaxSequence + 1)
        /\ batch \in 0..MaxBatch /\ written \in 0..batch
        /\ cursor \in [Consumers -> -1..MaxSequence]
        /\ \A f \in {last, upper, pos} : f \in [Consumers -> -1..MaxSequence]
        /\ crashes + fs_errors <= MaxFaults
        /\ confirmed \in -1..MaxSequence
    BY SizeAssumption, BoundsAssumption DEF Init
  <2>3. /\ seen \in [Consumers -> SUBSET (0..MaxSequence)]
        /\ \A S \in {counted, signalled, early} : S \subseteq Consumers
    BY DEF Init
  <2>4. QED
    BY <2>1, <2>2, <2>3 DEF Init, TypeOK
<1>2. WithinBounds /\ FilesInOrder /\ MakersUncounted
  BY DEF Init, WithinBounds, FilesInOrder, MakersUncounted
<1>3. ReadinessExact
  BY FS_EmptySet DEF Init, ReadinessExact
<1>4. ConsumersConsistent /\ StartsEmpty /\ ProducerConsistent
  BY DEF Init, ConsumersConsistent, StartsEmpty, ProducerConsistent
<1>5. CountedGate /\ NothingLost
  BY DEF Init, CountedGate, NothingLost
<1>6. QED
  BY <1>1, <1>2, <1>3, <1>4, <1>5 DEF IInv

-----------------------------------------------------------------------------
(* Types. *)

\* Whatever the barrier finds, it finds consumers, and only a listing that fails is
\* counted as a fault.
LEMMA ScanKeepsTypes ==
    ASSUME TypeOK, NEW rear, MinConsumerSequence(rear)
    PROVE  /\ known' \subseteq Consumers /\ fs_errors' \in Nat
           /\ crashes + fs_errors' <= MaxFaults
<1>1. CASE known' = Discovered /\ UNCHANGED fs_errors
  BY <1>1 DEF Discovered, TypeOK
<1>2. CASE /\ crashes + fs_errors < MaxFaults /\ fs_errors' = fs_errors + 1
           /\ \E found \in SUBSET (Discovered \ known) : known' = known \cup found
  BY <1>2, BoundsAssumption DEF Discovered, TypeOK
<1>3. QED
  BY <1>1, <1>2 DEF MinConsumerSequence

\* What TypeOK says of the variables consumers write.
ConsumerTypes ==
    /\ file \in [Consumers -> {"absent", "empty", "layout", "valid"}]
    /\ cursor \in [Consumers -> -1..MaxSequence]
    /\ cpc \in [Consumers -> {"down", "look", "create", "init", "load", "signal",
                              "idle", "busy"}]
    /\ is_owner \in [Consumers -> BOOLEAN]
    /\ \A f \in {last, upper, pos} : f \in [Consumers -> -1..MaxSequence]
    /\ \A S \in {signalled, early} : S \subseteq Consumers
    /\ seen \in [Consumers -> SUBSET (0..MaxSequence)]

\* What it says of the others, with the bound on a publication.
ProducerTypes ==
    /\ files \subseteq {"readiness", "ring", "producer_cursor"}
    /\ slots \in [0..(Size - 1) -> -1..MaxSequence]
    /\ published \in -1..MaxSequence /\ readiness \in Nat
    /\ ppc \in {"ready", "ring", "layout", "value", "await", "idle", "write", "gave_up"}
    /\ sequence \in 0..(MaxSequence + 1) /\ window \in Int
    /\ known \subseteq Consumers
    /\ batch \in 0..MaxBatch /\ written \in 0..batch
    /\ crashes \in Nat /\ fs_errors \in Nat /\ crashes + fs_errors <= MaxFaults
    /\ counted \subseteq Consumers
    /\ confirmed \in -1..MaxSequence
    /\ WithinBounds

LEMMA TypesSplit == TypeOK /\ WithinBounds <=> ProducerTypes /\ ConsumerTypes
<1>1. ASSUME TypeOK, WithinBounds PROVE ProducerTypes /\ ConsumerTypes
  <2>1. ProducerTypes
    BY <1>1 DEF TypeOK, ProducerTypes
  <2>2. ConsumerTypes
    BY <1>1 DEF TypeOK, ConsumerTypes
  <2>3. QED
    BY <2>1, <2>2
<1>2. ASSUME ProducerTypes, ConsumerTypes PROVE TypeOK /\ WithinBounds
  BY <1>2 DEF TypeOK, ProducerTypes, ConsumerTypes
<1>3. QED
  BY <1>1, <1>2

LEMMA ProducerKeepsTypes ==
    ASSUME IInv,
           \/ Create \/ EnoughReady \/ WaitTimesOut \/ Publication
           \/ \E m \in 1..MaxBatch : ClaimFails(m)
           \/ \E s \in 0..MaxSequence : IsConsumed(s)
    PROVE  TypeOK' /\ WithinBounds'
<1>a. ConsumerTypes'
  <2>1. UNCHANGED consumerVars
    BY DEF Create, CreateReadiness, CreateRing, LayOutProducerCursor, StoreInitialSequence,
           CreateStep, EnoughReady, WaitTimesOut, Publication, Claim, WriteEvent, Publish,
           ClaimFails, IsConsumed
  <2>2. ConsumerTypes
    BY TypesSplit DEF IInv
  <2>3. QED
    BY <2>1, <2>2 DEF ConsumerTypes, consumerVars
<1> SUFFICES ProducerTypes'
  BY <1>a, TypesSplit, PTL
<1> USE SizeAssumption, BoundsAssumption DEF ProducerTypes, WithinBounds
<1>0. ProducerTypes /\ TypeOK /\ signalled \subseteq Consumers
  BY TypesSplit DEF IInv, TypeOK
<1>1. CASE Create
  <2>1. CASE CreateReadiness
    BY <1>0, <2>1 DEF CreateReadiness, CreateStep, faultVars
  <2>2. CASE CreateRing
    BY <1>0, <2>2 DEF CreateRing, CreateStep, faultVars
  <2>3. CASE LayOutProducerCursor
    BY <1>0, <2>3 DEF LayOutProducerCursor, CreateStep, faultVars
  <2>4. CASE StoreInitialSequence
    BY <1>0, <2>4 DEF StoreInitialSequence, CreateStep, faultVars
  <2>5. QED
    BY <1>1, <2>1, <2>2, <2>3, <2>4 DEF Create
<1>2. CASE EnoughReady \/ WaitTimesOut
  BY <1>0, <1>2 DEF EnoughReady, WaitTimesOut, startVars, faultVars
<1>3. ASSUME NEW m \in 1..MaxBatch, Claim(m)
      PROVE  ProducerTypes'
  <2>1. /\ window' \in Int /\ known' \subseteq Consumers /\ fs_errors' \in Nat
        /\ crashes + fs_errors' <= MaxFaults
    <3>1. CASE ClaimInWindow(m)
      BY <1>0, <3>1 DEF ClaimInWindow
    <3>2. CASE ClaimAfterScan(m)
      <4>1. PICK rear \in -1..MaxSequence :
                /\ MinConsumerSequence(rear)
                /\ window' = sequence - 1 + FreeSlots(sequence - 1, rear)
        BY <3>2 DEF ClaimAfterScan
      <4>2. window' \in Int
        BY <1>0, <4>1 DEF FreeSlots
      <4>3. QED
        BY <1>0, <4>1, <4>2, ScanKeepsTypes
    <3>3. QED
      BY <1>3, <3>1, <3>2 DEF Claim
  <2>2. QED
    <3>1. /\ ppc' = "write" /\ batch' = m /\ written' = 0
          /\ sequence - 1 + m <= MaxSequence
          /\ UNCHANGED <<slots, published, files, readiness, counted, sequence, confirmed,
                         crashes>>
      BY <1>3 DEF Claim, startVars
    <3>2. m \in 0..MaxBatch /\ m >= 1 /\ 0 \in 0..m
      OBVIOUS
    <3>3. QED
      BY <1>0, <2>1, <3>1, <3>2
<1>4. ASSUME NEW m \in 1..MaxBatch, ClaimFails(m)
      PROVE  ProducerTypes'
  <2>1. /\ known' \subseteq Consumers /\ fs_errors' \in Nat
        /\ crashes + fs_errors' <= MaxFaults
    BY <1>0, <1>4, ScanKeepsTypes DEF ClaimFails
  <2>2. QED
    BY <1>0, <1>4, <2>1 DEF ClaimFails, startVars
<1>5. CASE WriteEvent
  <2>1. sequence + written \in -1..MaxSequence
    BY <1>0, <1>5 DEF WriteEvent
  <2>2. slots' \in [0..(Size - 1) -> -1..MaxSequence]
    BY <1>0, <1>5, <2>1 DEF WriteEvent
  <2>3. QED
    BY <1>0, <1>5, <2>2 DEF WriteEvent, startVars, faultVars
<1>6. CASE Publish
  BY <1>0, <1>6 DEF Publish, startVars, faultVars
<1>7. ASSUME NEW s \in 0..MaxSequence, IsConsumed(s)
      PROVE  ProducerTypes'
  <2>1. /\ known' \subseteq Consumers /\ fs_errors' \in Nat
        /\ crashes + fs_errors' <= MaxFaults
    BY <1>0, <1>7, ScanKeepsTypes DEF IsConsumed
  <2>2. QED
    <3>1. /\ confirmed' \in {s, confirmed}
          /\ UNCHANGED <<slots, published, files, readiness, counted, ppc, sequence, window,
                         batch, written, crashes>>
      BY <1>7 DEF IsConsumed, startVars
    <3>2. confirmed' \in -1..MaxSequence
      BY <1>0, <3>1
    <3>3. QED
      BY <1>0, <2>1, <3>1, <3>2
<1>8. QED
  BY <1>1, <1>2, <1>3, <1>4, <1>5, <1>6, <1>7 DEF Publication

LEMMA ConsumerKeepsTypes ==
    ASSUME IInv, NEW c \in Consumers, Attach(c) \/ Consume(c) \/ Crash(c)
    PROVE  TypeOK' /\ WithinBounds'
<1> USE BoundsAssumption DEF startVars, producerVars, faultVars, Step
<1>a. /\ UNCHANGED <<slots, published, files, counted, producerVars, fs_errors>>
      /\ readiness' \in {readiness, readiness + 1}
      /\ crashes' = crashes \/ (crashes + fs_errors < MaxFaults /\ crashes' = crashes + 1)
  <2>1. CASE Attach(c)
    BY <2>1 DEF Attach, AttachRing, CreateCursor, LayOutCursor, StoreInitialValue,
                ReattachCursor, LoadCursor, SignalReadiness
  <2>2. CASE Consume(c)
    BY <2>2 DEF Consume, TryConsumeNext, ProcessAvailable, Begin, ReadEvent, PublishConsumed
  <2>3. CASE Crash(c)
    BY <2>3 DEF Crash
  <2>4. QED
    BY <2>1, <2>2, <2>3
<1>b. ProducerTypes'
  <2>1. ProducerTypes
    BY TypesSplit DEF IInv
  <2>2. QED
    BY <1>a, <2>1 DEF ProducerTypes, WithinBounds
<1> SUFFICES ConsumerTypes'
  BY <1>b, TypesSplit, PTL
<1> USE DEF ConsumerTypes
<1>0. ConsumerTypes /\ published \in -1..MaxSequence
  BY TypesSplit DEF IInv, TypeOK
<1>1. CASE AttachRing(c)
  BY <1>0, <1>1 DEF AttachRing
<1>2. CASE CreateCursor(c)
  BY <1>0, <1>2 DEF CreateCursor
<1>3. CASE LayOutCursor(c)
  BY <1>0, <1>3 DEF LayOutCursor
<1>4. CASE StoreInitialValue(c)
  BY <1>0, <1>4 DEF StoreInitialValue
<1>5. CASE ReattachCursor(c)
  BY <1>0, <1>5 DEF ReattachCursor
<1>6. CASE LoadCursor(c)
  BY <1>0, <1>6 DEF LoadCursor
<1>7. CASE SignalReadiness(c)
  BY <1>0, <1>7 DEF SignalReadiness
<1>8. ASSUME NEW up \in -1..MaxSequence, Begin(c, up)
      PROVE  ConsumerTypes'
  BY <1>0, <1>8 DEF Begin
<1>9. CASE TryConsumeNext(c)
  <2>1. last[c] + 1 \in -1..MaxSequence
    BY <1>0, <1>9 DEF TryConsumeNext, Begin
  <2>2. QED
    BY <1>8, <1>9, <2>1 DEF TryConsumeNext
<1>10. CASE ProcessAvailable(c)
  BY <1>0, <1>8, <1>10 DEF ProcessAvailable
<1>11. CASE ReadEvent(c)
  <2>1. pos[c] + 1 \in 0..MaxSequence
    BY <1>0, <1>11 DEF ReadEvent
  <2>2. pos' \in [Consumers -> -1..MaxSequence]
    BY <1>0, <1>11, <2>1 DEF ReadEvent
  <2>3. seen' \in [Consumers -> SUBSET (0..MaxSequence)]
    BY <1>0, <1>11, <2>1 DEF ReadEvent
  <2>4. QED
    BY <1>0, <1>11, <2>2, <2>3 DEF ReadEvent
<1>12. CASE PublishConsumed(c)
  BY <1>0, <1>12 DEF PublishConsumed
<1>13. CASE Crash(c)
  BY <1>0, <1>13 DEF Crash
<1>14. QED
  BY <1>1, <1>2, <1>3, <1>4, <1>5, <1>6, <1>7, <1>9, <1>10, <1>11, <1>12, <1>13
  DEF Attach, Consume

-----------------------------------------------------------------------------
(* Readiness. *)

\* What the producer does leaves the consumers' start-up alone.
LEMMA ProducerKeepsReadiness ==
    ASSUME IInv,
           \/ Create \/ EnoughReady \/ WaitTimesOut \/ Publication
           \/ \E m \in 1..MaxBatch : ClaimFails(m)
           \/ \E s \in 0..MaxSequence : IsConsumed(s)
    PROVE  FilesInOrder' /\ MakersUncounted' /\ ReadinessExact'
<1>1. FilesInOrder /\ MakersUncounted /\ ReadinessExact
  BY DEF IInv
<1>2. UNCHANGED <<file, cpc, is_owner, signalled, readiness>>
  BY DEF Create, CreateReadiness, CreateRing, LayOutProducerCursor, StoreInitialSequence,
         CreateStep, EnoughReady, WaitTimesOut, Publication, Claim, WriteEvent, Publish,
         ClaimFails, IsConsumed, consumerVars, startVars
<1>3. MakersUncounted'
  BY <1>1, <1>2 DEF MakersUncounted
<1>4. CASE Create
  <2>1. files \subseteq files' /\ counted' = counted /\ ppc' \notin {"ready", "idle", "write"}
    BY <1>4 DEF Create, CreateReadiness, CreateRing, LayOutProducerCursor,
                StoreInitialSequence, CreateStep
  <2>2. "readiness" \in files'
    BY <1>1, <1>4 DEF FilesInOrder, Create, CreateReadiness, CreateRing,
                      LayOutProducerCursor, StoreInitialSequence, CreateStep
  <2>3. FilesInOrder'
    BY <1>1, <1>2, <2>1, <2>2 DEF FilesInOrder
  <2>4. ReadinessExact'
    BY <1>1, <1>2, <2>1 DEF ReadinessExact
  <2>5. QED
    BY <1>3, <2>3, <2>4
<1>5. CASE ~Create
  <2>1. /\ files' = files /\ ppc # "ready" /\ ppc' # "ready"
        /\ \/ EnoughReady
           \/ counted' = counted /\ (ppc' \in {"idle", "write"} => ppc \in {"idle", "write"})
    BY <1>5 DEF EnoughReady, WaitTimesOut, Publication, Claim, WriteEvent, Publish,
                ClaimFails, IsConsumed, startVars
  <2>2. FilesInOrder'
    BY <1>1, <1>2, <2>1 DEF FilesInOrder
  <2>3. ppc' \in {"idle", "write"} => Cardinality(counted') >= MinConsumers
    BY <1>1, <2>1 DEF EnoughReady, ReadinessExact
  <2>4. ReadinessExact'
    BY <1>1, <1>2, <2>3 DEF ReadinessExact
  <2>5. QED
    BY <1>3, <2>2, <2>4
<1>6. QED
  BY <1>4, <1>5

\* A step of a consumer that signals nothing and does not leave its start-up worse
\* than it was.
LEMMA UncountedStep ==
    ASSUME IInv, NEW c \in Consumers,
           UNCHANGED <<ppc, files, readiness, counted, signalled>>,
           \A d \in Consumers : d # c => /\ file'[d] = file[d] /\ cpc'[d] = cpc[d]
                                        /\ is_owner'[d] = is_owner[d],
           cpc'[c] # "down" => "ring" \in files,
           c \in signalled => file'[c] = "valid",
           cpc'[c] \in {"create", "init", "signal"} => is_owner'[c],
           is_owner'[c] /\ cpc'[c] \in {"create", "init", "load", "signal"}
               => c \notin signalled,
           cpc'[c] = "create" => file'[c] = "empty",
           cpc'[c] = "init" => file'[c] = "layout",
           is_owner'[c] /\ cpc'[c] \in {"load", "signal"} => file'[c] = "valid",
           is_owner'[c] /\ cpc'[c] \in {"idle", "busy"} => c \in signalled
    PROVE  FilesInOrder' /\ MakersUncounted' /\ ReadinessExact'
<1>1. FilesInOrder /\ MakersUncounted /\ ReadinessExact /\ signalled \subseteq Consumers
  BY DEF IInv, TypeOK
<1>2. FilesInOrder'
  BY <1>1 DEF FilesInOrder
<1>3. MakersUncounted'
  BY <1>1 DEF MakersUncounted
<1>4. ReadinessExact'
  <2>1. \A d \in signalled' : file'[d] = "valid"
    BY <1>1 DEF ReadinessExact
  <2>2. \A d \in Consumers : is_owner'[d] /\ cpc'[d] \in {"idle", "busy"} => d \in signalled'
    BY <1>1 DEF ReadinessExact
  <2>3. QED
    BY <1>1, <2>1, <2>2 DEF ReadinessExact
<1>5. QED
  BY <1>2, <1>3, <1>4

LEMMA ConsumerKeepsReadiness ==
    ASSUME IInv, NEW c \in Consumers, Attach(c) \/ Consume(c) \/ Crash(c)
    PROVE  FilesInOrder' /\ MakersUncounted' /\ ReadinessExact'
<1>1. /\ FilesInOrder /\ MakersUncounted /\ ReadinessExact
      /\ file \in [Consumers -> {"absent", "empty", "layout", "valid"}]
      /\ cpc \in [Consumers -> {"down", "look", "create", "init", "load", "signal",
                                "idle", "busy"}]
      /\ signalled \subseteq Consumers
  BY DEF IInv, TypeOK
<1>2. DOMAIN is_owner = Consumers
  BY DEF IInv, TypeOK
<1> USE DEF Step, startVars, producerVars, faultVars
<1>3. CASE AttachRing(c)
  <2>1. /\ cpc'[c] = "look" /\ "ring" \in files /\ cpc' = [cpc EXCEPT ![c] = "look"]
        /\ UNCHANGED <<file, is_owner, ppc, files, readiness, counted, signalled>>
    BY <1>1, <1>3 DEF AttachRing
  <2>2. QED
    BY <1>1, <2>1, UncountedStep DEF ReadinessExact
<1>4. CASE CreateCursor(c)
  <2>1. /\ cpc[c] = "look" /\ file[c] = "absent" /\ cpc' = [cpc EXCEPT ![c] = "create"]
        /\ file' = [file EXCEPT ![c] = "empty"]
        /\ is_owner' = [is_owner EXCEPT ![c] = TRUE]
        /\ UNCHANGED <<ppc, files, readiness, counted, signalled>>
    BY <1>4 DEF CreateCursor
  <2>2. c \notin signalled /\ "ring" \in files
    BY <1>1, <2>1 DEF ReadinessExact, FilesInOrder
  <2>3. is_owner'[c]
    BY <1>2, <2>1
  <2>4. QED
    BY <1>1, <1>2, <2>1, <2>2, <2>3, UncountedStep
<1>5. CASE LayOutCursor(c)
  <2>1. /\ cpc[c] = "create" /\ cpc' = [cpc EXCEPT ![c] = "init"]
        /\ file' = [file EXCEPT ![c] = "layout"]
        /\ UNCHANGED <<is_owner, ppc, files, readiness, counted, signalled>>
    BY <1>5 DEF LayOutCursor
  <2>2. is_owner[c] /\ c \notin signalled /\ "ring" \in files
    BY <1>1, <2>1 DEF MakersUncounted, FilesInOrder
  <2>3. QED
    BY <1>1, <2>1, <2>2, UncountedStep
<1>6. CASE StoreInitialValue(c)
  <2>1. /\ cpc[c] = "init" /\ cpc' = [cpc EXCEPT ![c] = "load"]
        /\ file' = [file EXCEPT ![c] = "valid"]
        /\ UNCHANGED <<is_owner, ppc, files, readiness, counted, signalled>>
    BY <1>6 DEF StoreInitialValue
  <2>2. is_owner[c] /\ c \notin signalled /\ "ring" \in files
    BY <1>1, <2>1 DEF MakersUncounted, FilesInOrder
  <2>3. QED
    BY <1>1, <2>1, <2>2, UncountedStep
<1>7. CASE ReattachCursor(c)
  <2>1. /\ cpc[c] = "look" /\ cpc' = [cpc EXCEPT ![c] = cpc'[c]]
        /\ cpc'[c] \in {"down", "load"}
        /\ is_owner' = [is_owner EXCEPT ![c] = FALSE]
        /\ UNCHANGED <<file, ppc, files, readiness, counted, signalled>>
    BY <1>1, <1>7 DEF ReattachCursor
  <2>2. "ring" \in files
    BY <1>1, <2>1 DEF FilesInOrder
  <2>3. ~is_owner'[c]
    BY <1>2, <2>1
  <2>4. QED
    BY <1>1, <1>2, <2>1, <2>2, <2>3, UncountedStep DEF ReadinessExact
<1>8. CASE LoadCursor(c)
  <2>1. /\ cpc[c] = "load" /\ cpc' = [cpc EXCEPT ![c] = cpc'[c]]
        /\ (cpc'[c] = "signal" /\ is_owner[c]) \/ (cpc'[c] = "idle" /\ ~is_owner[c])
        /\ UNCHANGED <<file, is_owner, ppc, files, readiness, counted, signalled>>
    BY <1>1, <1>8 DEF LoadCursor
  <2>2. /\ "ring" \in files
        /\ is_owner[c] => c \notin signalled /\ file[c] = "valid"
    BY <1>1, <2>1 DEF MakersUncounted, FilesInOrder
  <2>3. QED
    BY <1>1, <2>1, <2>2, UncountedStep DEF ReadinessExact
<1>9. CASE SignalReadiness(c)
  <2>1. /\ cpc[c] = "signal" /\ cpc' = [cpc EXCEPT ![c] = "idle"]
        /\ UNCHANGED <<file, is_owner, ppc, files, counted>>
    BY <1>9 DEF SignalReadiness
  <2>2. /\ is_owner[c] /\ c \notin signalled /\ file[c] = "valid"
        /\ "readiness" \in files
    BY <1>1, <2>1 DEF MakersUncounted, FilesInOrder
  <2>3. readiness' = readiness + 1 /\ signalled' = signalled \cup {c}
    BY <1>9, <2>2 DEF SignalReadiness
  <2>4. IsFiniteSet(signalled)
    BY <1>1, ConsumersAssumption, FS_Subset
  <2>5. Cardinality(signalled') = Cardinality(signalled) + 1
    BY <2>2, <2>3, <2>4, FS_AddElement
  <2>6. ReadinessExact'
    BY <1>1, <2>1, <2>2, <2>3, <2>5 DEF ReadinessExact
  <2>7. FilesInOrder'
    BY <1>1, <2>1 DEF FilesInOrder
  <2>8. MakersUncounted'
    BY <1>1, <2>1, <2>3 DEF MakersUncounted
  <2>9. QED
    BY <2>6, <2>7, <2>8
<1>10. CASE Consume(c)
  <2>1. /\ cpc[c] \in {"idle", "busy"} /\ cpc' = [cpc EXCEPT ![c] = cpc'[c]]
        /\ cpc'[c] \in {"idle", "busy"}
        /\ UNCHANGED <<file, is_owner, ppc, files, readiness, counted, signalled>>
    BY <1>1, <1>10 DEF Consume, TryConsumeNext, ProcessAvailable, Begin, ReadEvent,
                       PublishConsumed
  <2>2. "ring" \in files
    BY <1>1, <2>1 DEF FilesInOrder
  <2>3. QED
    BY <1>1, <2>1, <2>2, UncountedStep DEF ReadinessExact
<1>11. CASE Crash(c)
  <2>1. /\ cpc' = [cpc EXCEPT ![c] = "down"] /\ is_owner' = [is_owner EXCEPT ![c] = FALSE]
        /\ UNCHANGED <<file, ppc, files, readiness, counted, signalled>>
    BY <1>11 DEF Crash
  <2>2. ~is_owner'[c]
    BY <1>2, <2>1
  <2>3. QED
    BY <1>1, <1>2, <2>1, <2>2, UncountedStep DEF ReadinessExact
<1>12. QED
  BY <1>3, <1>4, <1>5, <1>6, <1>7, <1>8, <1>9, <1>10, <1>11 DEF Attach

-----------------------------------------------------------------------------
(* Slots and scans. *)

\* get(): two sequences less than one ring apart never share a slot.
LEMMA IndexDistinct ==
    ASSUME NEW a \in Nat, NEW b \in Nat, a < b, b - a < Size
    PROVE  Index(a) # Index(b)
<1>1. SUFFICES ASSUME Index(a) = Index(b) PROVE FALSE
  OBVIOUS
<1> DEFINE p == a \div Size
           q == b \div Size
<1>2. p \in Int /\ q \in Int
  BY SizeAssumption
<1>3. a = Size * p + (a % Size) /\ b = Size * q + (b % Size)
  BY SizeAssumption
<1>4. b - a = Size * (q - p)
  BY <1>1, <1>2, <1>3, SizeAssumption DEF Index
<1>5. /\ q - p <= 0 => Size * (q - p) <= 0
      /\ q - p >= 1 => Size * (q - p) >= Size
  BY <1>2, SizeAssumption
<1>6. QED
  BY <1>2, <1>4, <1>5, SizeAssumption

\* min_consumer_sequence: there is a lowest cursor.
LEMMA LowestIsLeast ==
    ASSUME NEW S, S # {}, S \subseteq -1..MaxSequence
    PROVE  Lowest(S) \in S /\ \A s \in S : Lowest(S) <= s
<1> DEFINE Domain == -1..MaxSequence
           UpTo(s) == -1..s
           R == StrictSubsetOrdering(Domain)
           T == {UpTo(s) : s \in S}
<1>1. T \subseteq SUBSET Domain /\ T # {}
  <2>1. ASSUME NEW s \in S PROVE UpTo(s) \subseteq Domain
    BY BoundsAssumption
  <2>2. QED
    BY <2>1
<1>2. PICK X \in T : \A Y \in T : ~ (<<Y, X>> \in R)
  <2>1. IsFiniteSet(Domain)
    BY BoundsAssumption, FS_Interval
  <2>2. T \subseteq FiniteSubsetsOf(Domain)
    BY <1>1, <2>1, FS_FiniteSubsetsOfFinite
  <2>3. IsWellFoundedOn(R, FiniteSubsetsOf(Domain))
    BY FS_StrictSubsetOrderingWellFounded
  <2> HIDE DEF R, T, Domain
  <2>4. QED
    BY <1>1, <2>2, <2>3, WFMin
<1>3. PICK m \in S : X = UpTo(m)
  OBVIOUS
<1>4. \A s \in S : m <= s
  <2>1. SUFFICES ASSUME NEW s \in S, s < m PROVE FALSE
    BY BoundsAssumption
  <2>2. UpTo(s) \subseteq UpTo(m) /\ UpTo(s) # UpTo(m)
    BY <2>1, BoundsAssumption
  <2>3. UpTo(s) \in SUBSET Domain /\ UpTo(m) \in SUBSET Domain
    BY <1>1
  <2>4. <<UpTo(s), UpTo(m)>> \in R
    BY <2>2, <2>3 DEF StrictSubsetOrdering
  <2>5. QED
    BY <1>2, <1>3, <2>4
<1>5. QED
  BY <1>4 DEF Lowest

\* best_effort_min_consumer_sequence is behind every counted consumer: their cursor
\* files are found, unless the listing fails.
LEMMA ScanBelowCounted ==
    ASSUME IInv, NEW rear \in -1..MaxSequence, MinConsumerSequence(rear), fs_errors' = 0
    PROVE  fs_errors = 0 /\ \A c \in counted : rear <= cursor[c]
<1>1. fs_errors \in Nat /\ cursor \in [Consumers -> -1..MaxSequence] /\ known \subseteq Consumers
  BY DEF IInv, TypeOK
<1>2. fs_errors = 0 /\ rear = IF Discovered = {} THEN published
                              ELSE Lowest({cursor[c] : c \in Discovered})
  BY <1>1 DEF MinConsumerSequence
<1>3. counted \subseteq Discovered /\ Discovered \subseteq Consumers
  BY <1>1 DEF IInv, TypeOK, CountedGate, ReadinessExact, Discovered
<1>4. ASSUME NEW c \in counted PROVE rear <= cursor[c]
  <2> DEFINE S == {cursor[d] : d \in Discovered}
  <2>1. S \subseteq -1..MaxSequence /\ cursor[c] \in S
    BY <1>1, <1>3
  <2>2. rear = Lowest(S)
    BY <1>2, <1>3
  <2> HIDE DEF S
  <2>3. QED
    BY <2>1, <2>2, LowestIsLeast
<1>5. QED
  BY <1>2, <1>4

-----------------------------------------------------------------------------
(* Nothing is lost. *)

\* The conjuncts of IInv about events.
Safety ==
    /\ ConsumersConsistent /\ StartsEmpty /\ ProducerConsistent /\ CountedGate /\ NothingLost

\* While the producer creates its files, nobody is counted, and whoever comes is early.
LEMMA CreateKeepsSafety ==
    ASSUME IInv, Create
    PROVE  Safety'
<1>1. /\ TypeOK /\ ConsumersConsistent /\ StartsEmpty /\ CountedGate
      /\ ppc \in {"ready", "ring", "layout", "value"}
      /\ ppc' \in {"ring", "layout", "value", "await"}
      /\ UNCHANGED <<slots, counted, sequence, window, confirmed, consumerVars, fs_errors>>
      /\ published' \in {published, -1}
      /\ published' # published => ppc = "value"
      /\ ppc' = "await" => published' = -1
      /\ "producer_cursor" \in files' => ppc' \in {"value", "await"}
  BY DEF IInv, Create, CreateReadiness, CreateRing, LayOutProducerCursor,
         StoreInitialSequence, CreateStep, faultVars, StartsEmpty
<1> USE DEF consumerVars
<1>2. counted = {} /\ sequence = 0 /\ window = Size - 1 /\ confirmed = -1
  BY <1>1 DEF StartsEmpty
<1>3. \A c \in Consumers \ early : cpc[c] = "down" /\ file[c] = "absent"
  BY <1>1 DEF StartsEmpty
<1>4. ConsumersConsistent'
  BY <1>1, <1>3 DEF ConsumersConsistent
<1>5. StartsEmpty'
  BY <1>1, <1>2, <1>3 DEF StartsEmpty
<1>6. ProducerConsistent'
  BY <1>1, <1>2 DEF ProducerConsistent
<1>7. CountedGate' /\ NothingLost'
  BY <1>1, <1>2 DEF CountedGate, NothingLost
<1>8. QED
  BY <1>4, <1>5, <1>6, <1>7 DEF Safety

\* The wait ends with an empty ring: the consumers counted are past nothing.
LEMMA WaitKeepsSafety ==
    ASSUME IInv, EnoughReady \/ WaitTimesOut
    PROVE  Safety'
<1>1. /\ TypeOK /\ ConsumersConsistent /\ StartsEmpty /\ ProducerConsistent /\ ReadinessExact
      /\ ppc = "await"
      /\ \/ ppc' = "idle" /\ counted' = signalled
         \/ ppc' = "gave_up" /\ counted' = counted
      /\ UNCHANGED <<files, slots, published, sequence, window, confirmed, consumerVars,
                     fs_errors>>
  BY DEF IInv, EnoughReady, WaitTimesOut, startVars, faultVars
<1> USE DEF consumerVars
<1>2. /\ counted = {} /\ sequence = 0 /\ window = Size - 1 /\ confirmed = -1
      /\ published = -1
      /\ \A c \in Consumers \ early : cpc[c] # "busy" /\ (file[c] = "valid" => cursor[c] = -1)
  BY <1>1 DEF StartsEmpty, ProducerConsistent
<1>3. counted' \subseteq signalled /\ signalled \subseteq Consumers
  BY <1>1, <1>2 DEF TypeOK
<1>4. ConsumersConsistent'
  BY <1>1 DEF ConsumersConsistent
<1>5. StartsEmpty'
  BY <1>1, <1>2 DEF StartsEmpty
<1>6. ProducerConsistent'
  BY <1>1, <1>2 DEF ProducerConsistent
<1>7. \A c \in counted' : c \in Consumers /\ cursor[c] \in -1..MaxSequence /\ file[c] = "valid"
  BY <1>1, <1>3 DEF TypeOK, ReadinessExact
<1>8. CountedGate'
  <2>1. ASSUME NEW c \in counted'
        PROVE  /\ window <= cursor[c] + Size
               /\ c \notin early => cpc[c] # "busy"
    BY <1>2, <1>7, SizeAssumption
  <2>2. QED
    BY <1>1, <1>3, <2>1 DEF CountedGate
<1>9. NothingLost'
  <2>1. ASSUME NEW c \in counted'
        PROVE  /\ \A s \in 0..published : FALSE
               /\ c \notin early => \A s \in 0..cursor[c] : FALSE
               /\ confirmed <= cursor[c]
    BY <1>2, <1>7
  <2>2. QED
    BY <1>1, <2>1 DEF NothingLost
<1>10. QED
  BY <1>4, <1>5, <1>6, <1>8, <1>9 DEF Safety

\* A claim: the window, new or old, ends one ring after every counted consumer.
LEMMA ClaimKeepsSafety ==
    ASSUME IInv, NEW n \in 1..MaxBatch, Claim(n)
    PROVE  Safety'
<1>1. /\ TypeOK /\ Safety
      /\ ppc = "idle" /\ ppc' = "write" /\ batch' = n /\ written' = 0
      /\ UNCHANGED <<files, slots, published, counted, sequence, confirmed, consumerVars>>
  BY DEF IInv, Safety, Claim, startVars
<1> USE DEF consumerVars, Safety
<1>2. ConsumersConsistent' /\ StartsEmpty'
  BY <1>1 DEF ConsumersConsistent, StartsEmpty
<1>3. sequence - 1 + n <= window'
  <2>1. CASE ClaimInWindow(n)
    BY <2>1 DEF ClaimInWindow
  <2>2. CASE ClaimAfterScan(n)
    <3>1. PICK rear \in -1..MaxSequence :
              /\ FreeSlots(sequence - 1, rear) >= n
              /\ window' = sequence - 1 + FreeSlots(sequence - 1, rear)
      BY <2>2 DEF ClaimAfterScan
    <3>2. FreeSlots(sequence - 1, rear) \in Int /\ sequence \in Int
      BY <1>1, SizeAssumption, BoundsAssumption DEF FreeSlots, TypeOK
    <3>3. QED
      BY <3>1, <3>2
  <2>3. QED
    BY <2>1, <2>2 DEF Claim
<1>4. ProducerConsistent'
  <2>1. \A s \in sequence..(sequence + 0 - 1) : FALSE
    BY <1>1 DEF TypeOK
  <2>2. QED
    BY <1>1, <1>3, <2>1 DEF ProducerConsistent
<1>5. fs_errors' = 0 => fs_errors = 0 /\ \A c \in counted : window' <= cursor[c] + Size
  <2>1. CASE ClaimInWindow(n)
    BY <1>1, <2>1 DEF ClaimInWindow, CountedGate
  <2>2. CASE ClaimAfterScan(n)
    <3>1. PICK rear \in -1..MaxSequence :
              /\ MinConsumerSequence(rear)
              /\ window' = sequence - 1 + FreeSlots(sequence - 1, rear)
      BY <2>2 DEF ClaimAfterScan
    <3>2. window' = rear + Size
      BY <1>1, <3>1, SizeAssumption, BoundsAssumption DEF FreeSlots, TypeOK
    <3>3. counted \subseteq Consumers /\ cursor \in [Consumers -> -1..MaxSequence]
      BY <1>1 DEF TypeOK
    <3>4. fs_errors' = 0 => fs_errors = 0 /\ \A c \in counted : rear <= cursor[c]
      BY <3>1, ScanBelowCounted
    <3>5. ASSUME NEW c \in counted, rear <= cursor[c] PROVE window' <= cursor[c] + Size
      BY <3>2, <3>3, <3>5, SizeAssumption, BoundsAssumption
    <3>6. QED
      BY <3>4, <3>5
  <2>3. QED
    BY <2>1, <2>2 DEF Claim
<1>6. CountedGate'
  BY <1>1, <1>5 DEF CountedGate
<1>7. NothingLost'
  BY <1>1, <1>5 DEF NothingLost
<1>8. QED
  BY <1>2, <1>4, <1>6, <1>7

\* A claim that fails changes what is known only.
LEMMA ClaimFailsKeepsSafety ==
    ASSUME IInv, NEW n \in 1..MaxBatch, ClaimFails(n)
    PROVE  Safety'
<1>1. /\ Safety
      /\ UNCHANGED <<files, slots, published, counted, ppc, sequence, window, batch, written,
                     confirmed, consumerVars>>
  BY DEF IInv, Safety, ClaimFails, startVars
<1>2. fs_errors' = 0 => fs_errors = 0
  BY ScanBelowCounted DEF ClaimFails
<1>3. QED
  BY <1>1, <1>2 DEF Safety, ConsumersConsistent, StartsEmpty, ProducerConsistent, CountedGate,
                    NothingLost, consumerVars

\* is_consumed confirms what the lowest cursor is past.
LEMMA IsConsumedKeepsSafety ==
    ASSUME IInv, NEW s \in 0..MaxSequence, IsConsumed(s)
    PROVE  Safety'
<1>1. /\ TypeOK /\ Safety
      /\ ppc = "idle"
      /\ UNCHANGED <<files, slots, published, counted, ppc, sequence, window, batch, written,
                     consumerVars>>
      /\ confirmed' \in {s, confirmed}
  BY DEF IInv, Safety, IsConsumed, startVars
<1> USE DEF consumerVars, Safety
<1>2. fs_errors' = 0 => fs_errors = 0 /\ \A c \in counted : s <= cursor[c]
  <2>1. PICK rear \in s..MaxSequence : MinConsumerSequence(rear)
    BY DEF IsConsumed
  <2>2. rear \in -1..MaxSequence /\ s <= rear
    OBVIOUS
  <2>3. counted \subseteq Consumers /\ cursor \in [Consumers -> -1..MaxSequence]
    BY <1>1 DEF TypeOK
  <2>4. ASSUME NEW c \in counted, rear <= cursor[c] PROVE s <= cursor[c]
    BY <2>2, <2>3, <2>4, BoundsAssumption
  <2>5. QED
    BY <2>1, <2>2, <2>4, ScanBelowCounted
<1>3. ConsumersConsistent' /\ StartsEmpty' /\ ProducerConsistent'
  BY <1>1 DEF ConsumersConsistent, StartsEmpty, ProducerConsistent
<1>4. CountedGate'
  BY <1>1, <1>2 DEF CountedGate
<1>5. NothingLost'
  BY <1>1, <1>2 DEF NothingLost
<1>6. QED
  BY <1>3, <1>4, <1>5

\* The slot written is that of no event a counted consumer has not acknowledged, and
\* of no other event of the batch.
LEMMA WriteKeepsSafety ==
    ASSUME IInv, WriteEvent
    PROVE  Safety'
<1> DEFINE w == sequence + written
<1>1. /\ TypeOK /\ Safety /\ WithinBounds
      /\ ppc = "write" /\ written < batch /\ written' = written + 1
      /\ slots' = [slots EXCEPT ![Index(w)] = w]
      /\ UNCHANGED <<files, published, counted, ppc, sequence, window, batch, confirmed,
                     consumerVars, fs_errors>>
  BY DEF IInv, Safety, WriteEvent, startVars, faultVars
<1> USE DEF consumerVars, Safety
<1>2. /\ w \in Nat /\ sequence \in Nat /\ written \in Nat /\ batch \in Nat /\ batch <= Size
      /\ window \in Int /\ w <= window /\ published = sequence - 1
      /\ DOMAIN slots = 0..(Size - 1)
  BY <1>1, BoundsAssumption, SizeAssumption DEF TypeOK, ProducerConsistent
<1>3. Index(w) \in DOMAIN slots
  BY <1>2, SizeAssumption DEF Index
<1>4. slots'[Index(w)] = w /\ \A i : i # Index(w) => slots'[i] = slots[i]
  BY <1>1, <1>3
<1>5. ConsumersConsistent' /\ StartsEmpty' /\ CountedGate'
  BY <1>1 DEF ConsumersConsistent, StartsEmpty, CountedGate
<1>6. ProducerConsistent'
  <2>1. ASSUME NEW s \in sequence..(sequence + written' - 1)
        PROVE  slots'[Index(s)] = s
    <3>1. CASE s = w
      BY <1>4, <3>1
    <3>2. CASE s # w
      <4>1. s \in sequence..(sequence + written - 1)
        BY <1>1, <1>2, <3>2
      <4>2. s \in Nat /\ s < w /\ w - s < Size
        BY <1>1, <1>2, <4>1, SizeAssumption, BoundsAssumption
      <4>3. Index(s) # Index(w)
        BY <1>2, <4>2, IndexDistinct
      <4>4. QED
        BY <1>1, <1>4, <4>1, <4>3 DEF ProducerConsistent
    <3>3. QED
      BY <3>1, <3>2
  <2>2. QED
    BY <1>1, <2>1 DEF ProducerConsistent
<1>7. NothingLost'
  <2>1. ASSUME fs_errors = 0, NEW c \in counted, NEW s \in 0..published, cursor[c] < s
        PROVE  slots'[Index(s)] = s
    <3>1. cursor[c] \in Int /\ window <= cursor[c] + Size
      BY <1>1, <2>1 DEF TypeOK, CountedGate
    <3>2. s \in Nat /\ s < w /\ w - s < Size
      BY <1>2, <2>1, <3>1, SizeAssumption
    <3>3. Index(s) # Index(w)
      BY <1>2, <3>2, IndexDistinct
    <3>4. slots[Index(s)] = s
      BY <1>1, <2>1 DEF NothingLost
    <3>5. QED
      BY <1>4, <3>3, <3>4
  <2>2. QED
    BY <1>1, <2>1 DEF NothingLost
<1>8. QED
  BY <1>5, <1>6, <1>7

\* The events published are those just written.
LEMMA PublishKeepsSafety ==
    ASSUME IInv, Publish
    PROVE  Safety'
<1>1. /\ TypeOK /\ Safety
      /\ ppc = "write" /\ written = batch /\ ppc' = "idle"
      /\ published' = sequence + batch - 1 /\ sequence' = sequence + batch
      /\ UNCHANGED <<files, slots, counted, window, confirmed, consumerVars, fs_errors>>
  BY DEF IInv, Safety, Publish, startVars, faultVars
<1> USE DEF consumerVars, Safety
<1>2. sequence \in Nat /\ batch \in Nat /\ published = sequence - 1
  BY <1>1, BoundsAssumption DEF TypeOK, ProducerConsistent
<1>3. ConsumersConsistent'
  <2>1. upper \in [Consumers -> -1..MaxSequence] /\ published <= published'
    BY <1>1, <1>2 DEF TypeOK
  <2>2. ASSUME NEW c \in Consumers, upper[c] <= published PROVE upper[c] <= published'
    BY <1>1, <1>2, <2>1, <2>2, BoundsAssumption
  <2>3. QED
    BY <1>1, <2>2 DEF ConsumersConsistent
<1>4. StartsEmpty' /\ CountedGate'
  BY <1>1 DEF StartsEmpty, CountedGate
<1>5. ProducerConsistent'
  BY <1>1, <1>2 DEF ProducerConsistent
<1>6. NothingLost'
  <2>1. ASSUME fs_errors = 0, NEW c \in counted, NEW s \in 0..published', cursor[c] < s
        PROVE  slots[Index(s)] = s
    <3>1. s \in 0..published \/ s \in sequence..(sequence + written - 1)
      BY <1>1, <1>2
    <3>2. QED
      BY <1>1, <2>1, <3>1 DEF NothingLost, ProducerConsistent
  <2>2. QED
    BY <1>1, <2>1 DEF NothingLost
<1>7. QED
  BY <1>3, <1>4, <1>5, <1>6

\* What a consumer does leaves the producer's side alone: its own positions are what
\* has to be shown.
LEMMA ConsumerStep ==
    ASSUME IInv, NEW c \in Consumers,
           UNCHANGED <<slots, published, files, counted, producerVars, fs_errors>>,
           signalled \subseteq signalled', early \subseteq early',
           \A d \in Consumers : d # c =>
               /\ file'[d] = file[d] /\ cpc'[d] = cpc[d] /\ cursor'[d] = cursor[d]
               /\ last'[d] = last[d] /\ upper'[d] = upper[d] /\ pos'[d] = pos[d]
               /\ seen'[d] = seen[d] /\ (d \in early' => d \in early),
           /\ cpc'[c] \in {"signal", "idle", "busy"} => last'[c] = cursor'[c]
           /\ cpc'[c] = "busy" =>
                 last'[c] < upper'[c] /\ last'[c] <= pos'[c] /\ pos'[c] <= upper'[c]
           /\ cpc'[c] = "busy" /\ c \notin early' => upper'[c] <= published,
           c \notin early' =>
               /\ cpc'[c] # "down" \/ file'[c] # "absent" =>
                     ppc \notin {"ready", "ring", "layout", "value"}
               /\ ppc \notin {"idle", "write"} =>
                     cpc'[c] # "busy" /\ (file'[c] = "valid" => cursor'[c] = -1),
           c \in counted =>
               /\ cursor'[c] \in Int /\ cursor[c] <= cursor'[c]
               /\ c \notin early' /\ fs_errors = 0 =>
                     /\ cpc'[c] = "busy" => \A s \in 0..pos'[c] : s \in seen'[c]
                     /\ \A s \in 0..cursor'[c] : s \in seen'[c]
    PROVE  Safety'
<1>1. TypeOK /\ Safety
  BY DEF IInv, Safety
<1> USE DEF producerVars, Safety
<1>2. ConsumersConsistent'
  <2>1. ASSUME NEW d \in Consumers, d # c
        PROVE  /\ cpc'[d] \in {"signal", "idle", "busy"} => last'[d] = cursor'[d]
               /\ cpc'[d] = "busy" =>
                     last'[d] < upper'[d] /\ last'[d] <= pos'[d] /\ pos'[d] <= upper'[d]
               /\ cpc'[d] = "busy" /\ d \notin early' => upper'[d] <= published
    BY <1>1, <2>1 DEF ConsumersConsistent
  <2>2. QED
    BY <2>1 DEF ConsumersConsistent
<1>3. StartsEmpty'
  <2>1. ASSUME NEW d \in Consumers \ early', d # c
        PROVE  /\ cpc'[d] # "down" \/ file'[d] # "absent" =>
                     ppc \notin {"ready", "ring", "layout", "value"}
               /\ ppc \notin {"idle", "write"} =>
                     cpc'[d] # "busy" /\ (file'[d] = "valid" => cursor'[d] = -1)
    BY <1>1, <2>1 DEF StartsEmpty
  <2>2. QED
    BY <1>1, <2>1 DEF StartsEmpty
<1>4. ProducerConsistent'
  BY <1>1 DEF ProducerConsistent
<1>5. ASSUME NEW d \in counted
      PROVE  /\ d \in Consumers /\ cursor[d] \in Int /\ cursor'[d] \in Int
             /\ cursor[d] <= cursor'[d]
  BY <1>1 DEF TypeOK
<1>6. CountedGate'
  <2>1. ASSUME fs_errors = 0, NEW d \in counted
        PROVE  /\ window <= cursor'[d] + Size
               /\ d \notin early' /\ cpc'[d] = "busy" => \A s \in 0..pos'[d] : s \in seen'[d]
    <3>1. window <= cursor'[d] + Size
      <4>1. window \in Int /\ window <= cursor[d] + Size
        BY <1>1, <2>1 DEF TypeOK, CountedGate
      <4>2. QED
        BY <1>5, <4>1, SizeAssumption
    <3>2. CASE d = c
      BY <2>1, <3>1, <3>2
    <3>3. CASE d # c
      BY <1>1, <1>5, <2>1, <3>1, <3>3 DEF CountedGate
    <3>4. QED
      BY <3>2, <3>3
  <2>2. QED
    BY <1>1, <2>1 DEF CountedGate
<1>7. NothingLost'
  <2>1. ASSUME fs_errors = 0, NEW d \in counted
        PROVE  /\ \A s \in 0..published : cursor'[d] < s => slots[Index(s)] = s
               /\ d \notin early' => \A s \in 0..cursor'[d] : s \in seen'[d]
               /\ confirmed <= cursor'[d]
    <3>1. ASSUME NEW s \in 0..published, cursor'[d] < s PROVE slots[Index(s)] = s
      <4>1. cursor[d] < s
        BY <1>1, <1>5, <3>1 DEF TypeOK
      <4>2. QED
        BY <1>1, <2>1, <4>1 DEF NothingLost
    <3>2. confirmed <= cursor'[d]
      <4>1. confirmed \in Int /\ confirmed <= cursor[d]
        BY <1>1, <2>1 DEF TypeOK, NothingLost
      <4>2. QED
        BY <1>5, <4>1
    <3>3. CASE d = c
      BY <2>1, <3>1, <3>2, <3>3
    <3>4. CASE d # c
      BY <1>1, <1>5, <2>1, <3>1, <3>2, <3>4 DEF NothingLost
    <3>5. QED
      BY <3>3, <3>4
  <2>2. QED
    BY <1>1, <2>1 DEF NothingLost
<1>8. QED
  BY <1>2, <1>3, <1>4, <1>6, <1>7

\* Attaching moves no cursor of a counted consumer: only the maker of a file stores
\* its initial value, before it signals.
LEMMA AttachKeepsSafety ==
    ASSUME IInv, NEW c \in Consumers, Attach(c)
    PROVE  Safety'
<1>1. /\ TypeOK /\ FilesInOrder /\ MakersUncounted
      /\ ConsumersConsistent /\ StartsEmpty /\ CountedGate /\ NothingLost
  BY DEF IInv
<1>2. /\ c \in counted => c \in signalled /\ cursor[c] \in Int
      /\ DOMAIN cursor = Consumers /\ DOMAIN last = Consumers /\ DOMAIN file = Consumers
      /\ DOMAIN cpc = Consumers
  BY <1>1 DEF TypeOK, CountedGate
<1>3. c \notin early => /\ cpc[c] # "down" \/ file[c] # "absent" =>
                              ppc \notin {"ready", "ring", "layout", "value"}
                        /\ ppc \notin {"idle", "write"} =>
                              (file[c] = "valid" => cursor[c] = -1)
  BY <1>1 DEF StartsEmpty
<1>4. c \in counted /\ c \notin early /\ fs_errors = 0 => \A s \in 0..cursor[c] : s \in seen[c]
  BY <1>1 DEF NothingLost
<1> USE DEF Step, startVars, producerVars, faultVars
<1>5. CASE AttachRing(c)
  <2>1. /\ cpc' = [cpc EXCEPT ![c] = "look"] /\ "producer_cursor" \in files
        /\ early' = IF ppc = "value" THEN early \cup {c} ELSE early
        /\ UNCHANGED <<slots, published, files, counted, producerVars, fs_errors, file,
                       cursor, last, upper, pos, signalled, seen>>
    BY <1>5 DEF AttachRing
  <2>2. ppc \notin {"ready", "ring", "layout"}
    BY <1>1, <2>1 DEF StartsEmpty
  <2>3. cpc'[c] = "look" /\ \A d \in Consumers : d # c => cpc'[d] = cpc[d]
    BY <1>2, <2>1
  <2>4. /\ early \subseteq early' /\ c \notin early' => c \notin early /\ ppc # "value"
        /\ \A d \in Consumers : d # c => (d \in early' => d \in early)
    BY <2>1
  <2>5. QED
    BY <1>2, <1>3, <1>4, <2>1, <2>2, <2>3, <2>4, ConsumerStep
<1>6. CASE CreateCursor(c)
  <2>1. /\ cpc[c] = "look"
        /\ cpc' = [cpc EXCEPT ![c] = "create"] /\ file' = [file EXCEPT ![c] = "empty"]
        /\ UNCHANGED <<slots, published, files, counted, producerVars, fs_errors,
                       cursor, last, upper, pos, signalled, early, seen>>
    BY <1>6 DEF CreateCursor
  <2>2. QED
    BY <1>2, <1>3, <1>4, <2>1, ConsumerStep
<1>7. CASE LayOutCursor(c)
  <2>1. /\ cpc[c] = "create"
        /\ cpc' = [cpc EXCEPT ![c] = "init"] /\ file' = [file EXCEPT ![c] = "layout"]
        /\ UNCHANGED <<slots, published, files, counted, producerVars, fs_errors,
                       cursor, last, upper, pos, signalled, early, seen>>
    BY <1>7 DEF LayOutCursor
  <2>2. QED
    BY <1>2, <1>3, <1>4, <2>1, ConsumerStep
<1>8. CASE StoreInitialValue(c)
  <2>1. /\ cpc[c] = "init"
        /\ cpc' = [cpc EXCEPT ![c] = "load"] /\ file' = [file EXCEPT ![c] = "valid"]
        /\ cursor' = [cursor EXCEPT ![c] = -1]
        /\ UNCHANGED <<slots, published, files, counted, producerVars, fs_errors,
                       last, upper, pos, signalled, early, seen>>
    BY <1>8 DEF StoreInitialValue
  <2>2. c \notin signalled
    BY <1>1, <2>1 DEF MakersUncounted
  <2>3. QED
    BY <1>2, <1>3, <2>1, <2>2, ConsumerStep
<1>9. CASE ReattachCursor(c)
  <2>1. /\ cpc[c] = "look"
        /\ cpc' = [cpc EXCEPT ![c] = cpc'[c]] /\ cpc'[c] \in {"down", "load"}
        /\ UNCHANGED <<slots, published, files, counted, producerVars, fs_errors, file,
                       cursor, last, upper, pos, signalled, early, seen>>
    BY <1>2, <1>9 DEF ReattachCursor
  <2>2. QED
    BY <1>2, <1>3, <1>4, <2>1, ConsumerStep
<1>10. CASE LoadCursor(c)
  <2>1. /\ cpc[c] = "load" /\ last' = [last EXCEPT ![c] = cursor[c]]
        /\ cpc' = [cpc EXCEPT ![c] = cpc'[c]] /\ cpc'[c] \in {"signal", "idle"}
        /\ UNCHANGED <<slots, published, files, counted, producerVars, fs_errors, file,
                       cursor, upper, pos, signalled, early, seen>>
    BY <1>2, <1>10 DEF LoadCursor
  <2>2. QED
    BY <1>2, <1>3, <1>4, <2>1, ConsumerStep
<1>11. CASE SignalReadiness(c)
  <2>1. /\ cpc[c] = "signal" /\ cpc' = [cpc EXCEPT ![c] = "idle"]
        /\ signalled \subseteq signalled'
        /\ UNCHANGED <<slots, published, files, counted, producerVars, fs_errors, file,
                       cursor, last, upper, pos, early, seen>>
    BY <1>11 DEF SignalReadiness
  <2>2. last[c] = cursor[c]
    BY <1>1, <2>1 DEF ConsumersConsistent
  <2>3. QED
    BY <1>2, <1>3, <1>4, <2>1, <2>2, ConsumerStep
<1>12. QED
  BY <1>5, <1>6, <1>7, <1>8, <1>9, <1>10, <1>11 DEF Attach

\* A consumer takes what was published when it looked, finds it in the slots, and
\* acknowledges what it has been given.
LEMMA ConsumeKeepsSafety ==
    ASSUME IInv, NEW c \in Consumers, Consume(c)
    PROVE  Safety'
<1>1. /\ TypeOK
      /\ ConsumersConsistent /\ StartsEmpty /\ ProducerConsistent /\ CountedGate /\ NothingLost
  BY DEF IInv
<1>2. /\ cursor[c] \in -1..MaxSequence /\ last[c] \in -1..MaxSequence
      /\ upper[c] \in -1..MaxSequence /\ pos[c] \in -1..MaxSequence
      /\ published \in -1..MaxSequence
      /\ DOMAIN cursor = Consumers /\ DOMAIN last = Consumers /\ DOMAIN upper = Consumers
      /\ DOMAIN pos = Consumers /\ DOMAIN cpc = Consumers /\ DOMAIN seen = Consumers
  BY <1>1 DEF TypeOK
<1>3. c \notin early =>
          /\ cpc[c] # "down" => ppc \notin {"ready", "ring", "layout", "value"}
          /\ ppc \notin {"idle", "write"} =>
                cpc[c] # "busy" /\ (file[c] = "valid" => cursor[c] = -1)
  BY <1>1 DEF StartsEmpty
<1>4. c \notin early /\ ppc \notin {"idle", "write"} /\ cpc[c] # "down" => published = -1
  BY <1>1, <1>3 DEF TypeOK, StartsEmpty, ProducerConsistent
<1>5. /\ c \in counted /\ c \notin early /\ fs_errors = 0 =>
             \A s \in 0..cursor[c] : s \in seen[c]
      /\ c \in counted /\ fs_errors = 0 =>
             \A s \in 0..published : cursor[c] < s => slots[Index(s)] = s
      /\ c \in counted /\ c \notin early /\ fs_errors = 0 /\ cpc[c] = "busy" =>
             \A s \in 0..pos[c] : s \in seen[c]
  BY <1>1 DEF NothingLost, CountedGate
<1> USE DEF Step, startVars, producerVars, faultVars
<1>6. ASSUME NEW up \in -1..MaxSequence, last[c] < up, up <= published, Begin(c, up)
      PROVE  Safety'
  <2>1. /\ cpc[c] = "idle" /\ cpc' = [cpc EXCEPT ![c] = "busy"] /\ last[c] < published
        /\ upper' = [upper EXCEPT ![c] = up] /\ pos' = [pos EXCEPT ![c] = last[c]]
        /\ UNCHANGED <<slots, published, files, counted, producerVars, fs_errors, file,
                       cursor, last, signalled, early, seen>>
    BY <1>6 DEF Begin
  <2>2. last[c] = cursor[c]
    BY <1>1, <2>1 DEF ConsumersConsistent
  <2>3. c \notin early => ppc \in {"idle", "write"}
    BY <1>2, <1>4, <2>1
  <2>4. cpc'[c] = "busy" /\ upper'[c] = up /\ pos'[c] = cursor[c] /\ last[c] <= last[c]
    BY <1>2, <2>1, <2>2, BoundsAssumption
  <2>5. QED
    BY <1>2, <1>3, <1>5, <1>6, <2>1, <2>2, <2>3, <2>4, ConsumerStep
<1>7. CASE TryConsumeNext(c)
  <2>1. last[c] + 1 \in -1..MaxSequence /\ last[c] < last[c] + 1 /\ last[c] + 1 <= published
    BY <1>2, <1>7, BoundsAssumption DEF TryConsumeNext, Begin
  <2>2. QED
    BY <1>6, <1>7, <2>1 DEF TryConsumeNext
<1>8. CASE ProcessAvailable(c)
  <2>1. last[c] < published /\ published <= published
    BY <1>2, <1>8, BoundsAssumption DEF ProcessAvailable, Begin
  <2>2. QED
    BY <1>2, <1>6, <1>8, <2>1 DEF ProcessAvailable
<1>9. CASE ReadEvent(c)
  <2> DEFINE s == pos[c] + 1
  <2>1. /\ cpc[c] = "busy" /\ pos[c] < upper[c] /\ pos' = [pos EXCEPT ![c] = s]
        /\ seen' = IF slots[Index(s)] = s THEN [seen EXCEPT ![c] = @ \cup {s}] ELSE seen
        /\ UNCHANGED <<slots, published, files, counted, producerVars, fs_errors, file,
                       cursor, cpc, last, upper, signalled, early>>
    BY <1>9 DEF ReadEvent
  <2>2. /\ last[c] = cursor[c] /\ last[c] < upper[c] /\ last[c] <= pos[c]
        /\ c \notin early => upper[c] <= published
    BY <1>1, <2>1 DEF ConsumersConsistent
  <2>3. s \in Nat /\ last[c] <= s /\ s <= upper[c] /\ cursor[c] < s
    BY <1>2, <2>1, <2>2, BoundsAssumption
  <2>4. seen[c] \subseteq seen'[c] /\ \A d \in Consumers : d # c => seen'[d] = seen[d]
    BY <1>2, <2>1
  <2>5. c \in counted /\ c \notin early /\ fs_errors = 0 => \A r \in 0..s : r \in seen'[c]
    <3>1. SUFFICES ASSUME c \in counted, c \notin early, fs_errors = 0, NEW r \in 0..s
                   PROVE  r \in seen'[c]
      OBVIOUS
    <3>2. CASE r = s
      <4>1. s \in 0..published
        BY <1>2, <2>2, <2>3, <3>1
      <4>2. slots[Index(s)] = s
        BY <1>5, <2>3, <3>1, <4>1
      <4>3. QED
        BY <1>2, <2>1, <3>2, <4>2
    <3>3. CASE r # s
      <4>1. r \in 0..pos[c]
        BY <1>2, <3>1, <3>3
      <4>2. QED
        BY <1>5, <2>1, <2>4, <3>1, <4>1
    <3>4. QED
      BY <3>2, <3>3
  <2>6. c \in counted => cursor[c] \in Int /\ cursor[c] <= cursor[c]
    BY <1>2, BoundsAssumption
  <2>7. pos'[c] = s /\ \A d \in Consumers : d # c => pos'[d] = pos[d]
    BY <1>2, <2>1
  <2>8. c \in counted /\ c \notin early /\ fs_errors = 0 =>
            \A r \in 0..cursor[c] : r \in seen'[c]
    BY <1>5, <2>4
  <2>9. QED
    BY <1>2, <1>3, <2>1, <2>2, <2>3, <2>4, <2>5, <2>6, <2>7, <2>8, ConsumerStep
<1>10. CASE PublishConsumed(c)
  <2>1. /\ cpc[c] = "busy" /\ cpc' = [cpc EXCEPT ![c] = "idle"] /\ pos[c] = upper[c]
        /\ cursor' = [cursor EXCEPT ![c] = upper[c]] /\ last' = [last EXCEPT ![c] = upper[c]]
        /\ upper' = [upper EXCEPT ![c] = -1] /\ pos' = [pos EXCEPT ![c] = -1]
        /\ UNCHANGED <<slots, published, files, counted, producerVars, fs_errors, file,
                       signalled, early, seen>>
    BY <1>10 DEF PublishConsumed
  <2>2. last[c] = cursor[c] /\ last[c] < upper[c]
    BY <1>1, <2>1 DEF ConsumersConsistent
  <2>3. /\ cpc'[c] = "idle" /\ last'[c] = upper[c] /\ cursor'[c] = upper[c]
        /\ cursor[c] <= cursor'[c] /\ cursor'[c] \in Int
    BY <1>2, <2>1, <2>2, BoundsAssumption
  <2>4. /\ c \notin early => ppc \in {"idle", "write"}
        /\ c \in counted /\ c \notin early /\ fs_errors = 0 =>
              \A s \in 0..upper[c] : s \in seen[c]
    BY <1>3, <1>5, <2>1
  <2>5. QED
    BY <1>2, <1>3, <2>1, <2>3, <2>4, ConsumerStep
<1>11. QED
  BY <1>7, <1>8, <1>9, <1>10 DEF Consume

\* A crash leaves the files.
LEMMA CrashKeepsSafety ==
    ASSUME IInv, NEW c \in Consumers, Crash(c)
    PROVE  Safety'
<1>1. TypeOK /\ StartsEmpty /\ NothingLost
  BY DEF IInv
<1>2. /\ cpc[c] # "down" /\ cpc' = [cpc EXCEPT ![c] = "down"]
      /\ last' = [last EXCEPT ![c] = -1] /\ upper' = [upper EXCEPT ![c] = -1]
      /\ pos' = [pos EXCEPT ![c] = -1]
      /\ UNCHANGED <<slots, published, files, counted, producerVars, fs_errors, file, cursor,
                     signalled, early, seen>>
  BY DEF Crash, startVars, producerVars
<1>3. cursor[c] \in Int /\ cursor[c] <= cursor[c] /\ cpc'[c] = "down"
  BY <1>1, <1>2, BoundsAssumption DEF TypeOK
<1>4. /\ c \in counted /\ c \notin early /\ fs_errors = 0 =>
            \A s \in 0..cursor[c] : s \in seen[c]
      /\ c \notin early =>
            /\ ppc \notin {"ready", "ring", "layout", "value"}
            /\ ppc \notin {"idle", "write"} => (file[c] = "valid" => cursor[c] = -1)
  BY <1>1, <1>2 DEF StartsEmpty, NothingLost
<1>5. QED
  BY <1>2, <1>3, <1>4, ConsumerStep

-----------------------------------------------------------------------------
(* The theorems. *)

\* The order in which files appear, the state of a cursor file's maker and the window
\* of the producer keep readiness exact and unread events in place
\* (MmapProducer::create and next_sequences, MmapConsumer::attach), in every state.
THEOREM InvariantHolds == Spec => []IInv
<1>1. IInv /\ [Next]_vars => IInv'
  <2> SUFFICES ASSUME IInv, [Next]_vars PROVE IInv'
    OBVIOUS
  <2>1. ASSUME NEW c \in Consumers, Attach(c) \/ Consume(c) \/ Crash(c)
        PROVE  IInv'
    <3>1. Safety'
      BY <2>1, AttachKeepsSafety, ConsumeKeepsSafety, CrashKeepsSafety
    <3>2. QED
      BY <2>1, <3>1, ConsumerKeepsTypes, ConsumerKeepsReadiness DEF IInv, Safety
  <2>2. ASSUME \/ Create \/ EnoughReady \/ WaitTimesOut \/ Publication
               \/ \E m \in 1..MaxBatch : ClaimFails(m)
               \/ \E s \in 0..MaxSequence : IsConsumed(s)
        PROVE  IInv'
    <3>1. Safety'
      BY <2>2, CreateKeepsSafety, WaitKeepsSafety, ClaimKeepsSafety, ClaimFailsKeepsSafety,
         IsConsumedKeepsSafety, WriteKeepsSafety, PublishKeepsSafety DEF Publication
    <3>2. QED
      BY <2>2, <3>1, ProducerKeepsTypes, ProducerKeepsReadiness DEF IInv, Safety
  <2>3. CASE UNCHANGED vars
    BY <2>3 DEF IInv, TypeOK, WithinBounds, FilesInOrder, MakersUncounted, ReadinessExact,
                ConsumersConsistent, StartsEmpty, ProducerConsistent, CountedGate, NothingLost,
                vars, startVars, producerVars, consumerVars, faultVars
  <2>4. QED
    BY <2>1, <2>2, <2>3 DEF Next
<1>2. QED
  BY InitEstablishes, <1>1, PTL DEF Spec

\* Every consumer is counted once, when its cursor holds its initial value, and the
\* producer starts only when enough were (signal_readiness, wait_for_consumers_ready).
THEOREM ReadinessCounts == Spec => []ReadinessExact
<1>1. IInv => ReadinessExact
  BY DEF IInv
<1>2. QED
  BY <1>1, InvariantHolds, PTL

\* A consumer the producer waited for misses nothing, through its crashes, as long as
\* directories can be listed (next_sequences, best_effort_min_consumer_sequence).
THEOREM CountedConsumersLoseNothing == Spec => []NothingLost
<1>1. IInv => NothingLost
  BY DEF IInv
<1>2. QED
  BY <1>1, InvariantHolds, PTL
=================================================================================
