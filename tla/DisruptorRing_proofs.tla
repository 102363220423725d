------------------------- MODULE DisruptorRing_proofs -------------------------
(***************************************************************************)
(* Proofs about DisruptorRing, for every number of consumers, ring size,   *)
(* batch size and bound.  IInv is inductive; the safety properties follow  *)
(* from it, and so does the refinement of BroadcastLog.                    *)
(***************************************************************************)
EXTENDS DisruptorRing, TLAPS

-----------------------------------------------------------------------------
(* Slots. *)

\* get(): a sequence names a slot of the ring.
LEMMA IndexInRange ==
    ASSUME NEW s \in Nat
    PROVE  Index(s) \in 0..(Size - 1)
  BY SizeAssumption DEF Index

\* get(): two sequences less than one ring apart never share a slot.
LEMMA IndexDistinct ==
    ASSUME NEW a \in Nat, NEW b \in Nat, a < b, b - a < Size
    PROVE  Index(a) # Index(b)
<1>1. SUFFICES ASSUME Index(a) = Index(b) PROVE FALSE
  OBVIOUS
<1> DEFINE qa == a \div Size
           qb == b \div Size
<1>2. qa \in Int /\ qb \in Int
  BY SizeAssumption
<1>3. a = Size * qa + (a % Size) /\ b = Size * qb + (b % Size)
  BY SizeAssumption
<1>4. b - a = Size * (qb - qa)
  BY <1>1, <1>2, <1>3, SizeAssumption DEF Index
<1>5. qb - qa <= 0 => Size * (qb - qa) <= 0
  BY <1>2, SizeAssumption
<1>6. qb - qa >= 1 => Size * (qb - qa) >= Size
  BY <1>2, SizeAssumption
<1>7. QED
  BY <1>2, <1>4, <1>5, <1>6, SizeAssumption

-----------------------------------------------------------------------------
(* The inductive invariant. *)

\* Empty ring, cursors at -1, and a window of one whole ring.
LEMMA InitEstablishesIInv == Init => IInv
  BY SizeAssumption, BoundsAssumption
  DEF Init, IInv, TypeOK, ScanConservative, WindowSound, BatchInWindow,
      ConsumerConsistent, UnreadEventsIntact, ConfirmedIsConsumed, LastReserved,
      Calls, Sequences

\* What a producer about to write knows: its slot belongs to no unread event,
\* and to none of the events of the batch it has already written.
LEMMA WriteIsFree ==
    ASSUME IInv, ppc = "write", written < n
    PROVE  /\ sequence + written \in Nat
           /\ sequence + written <= MaxSequence
           /\ \A c \in Consumers : \A s \in (consumer_sequence[c] + 1)..producer_sequence :
                 Index(s) # Index(sequence + written)
           /\ \A s \in sequence..((sequence + written) - 1) :
                 Index(s) # Index(sequence + written)
<1> DEFINE w == sequence + written
<1> USE SizeAssumption, BoundsAssumption
    DEF IInv, TypeOK, BatchInWindow, WindowSound, LastReserved, Sequences
<1>1. w \in Nat /\ w <= MaxSequence /\ w <= sequence_clear_of_consumers
  OBVIOUS
<1>2. ASSUME NEW c \in Consumers, NEW s \in (consumer_sequence[c] + 1)..producer_sequence
      PROVE  Index(s) # Index(w)
  <2>1. s \in Nat /\ s < w /\ w - s < Size
    BY <1>1, SMTT(40)
  <2>2. QED
    BY <1>1, <2>1, IndexDistinct
<1>3. ASSUME NEW s \in sequence..(w - 1)
      PROVE  Index(s) # Index(w)
  <2>1. PICK c \in Consumers : TRUE
    BY ConsumersAssumption
  <2>2. consumer_sequence[c] <= sequence - 1
    BY DEF ConsumerConsistent
  <2>3. s \in Nat /\ s < w /\ w - s < Size
    BY <1>1, <2>2
  <2>4. QED
    BY <1>1, <2>3, IndexDistinct
<1>4. QED
  BY <1>1, <1>2, <1>3

\* A scan keeps the minimum of what it has loaded, and cursors only grow.
LEMMA LoadCursorPreservesIInv ==
    ASSUME IInv, NEW c \in Consumers, LoadCursor(c)
    PROVE  IInv'
<1> USE DEF LoadCursor, shared, consumerVars
<1>1. /\ rear' \in Sequences
      /\ rear' <= consumer_sequence[c]
      /\ unread # Consumers => rear' <= rear
  BY SMTT(40) DEF IInv, TypeOK, MinLoaded, Sequences
<1>2. TypeOK'
  BY <1>1 DEF IInv, TypeOK
<1>3. ScanConservative'
  <2>1. ASSUME NEW d \in Consumers \ (unread \ {c})
        PROVE  rear' <= consumer_sequence[d]
    <3>1. CASE d = c
      BY <1>1, <3>1
    <3>2. CASE d # c
      <4>1. d \in Consumers \ unread /\ unread # Consumers
        BY <3>2
      <4>2. rear <= consumer_sequence[d]
        BY <4>1 DEF IInv, ScanConservative
      <4>3. rear \in Int /\ rear' \in Int /\ consumer_sequence[d] \in Int
        BY <1>1 DEF IInv, TypeOK, Sequences
      <4>4. QED
        BY <1>1, <4>1, <4>2, <4>3
    <3>3. QED
      BY <3>1, <3>2
  <2>2. QED
    BY <2>1 DEF IInv, ScanConservative, LastReserved
<1>4. WindowSound' /\ BatchInWindow' /\ UnreadEventsIntact' /\ ConfirmedIsConsumed'
  BY DEF IInv, WindowSound, BatchInWindow, UnreadEventsIntact, ConfirmedIsConsumed,
         LastReserved
<1>5. (producer_sequence = sequence - 1)' /\ (\A d \in Consumers : ConsumerConsistent(d))'
  BY DEF IInv, ConsumerConsistent
<1>6. QED
  BY <1>2, <1>3, <1>4, <1>5 DEF IInv

\* Writing a slot destroys nothing anyone still needs.
LEMMA WriteSlotPreservesIInv ==
    ASSUME IInv, WriteSlot
    PROVE  IInv'
<1> DEFINE w == sequence + written
<1>0. ppc = "write" /\ written < n
  BY DEF WriteSlot
<1>1. /\ w \in Nat /\ w <= MaxSequence /\ Index(w) \in 0..(Size - 1)
      /\ \A c \in Consumers : \A s \in (consumer_sequence[c] + 1)..producer_sequence :
            Index(s) # Index(w)
      /\ \A s \in sequence..(w - 1) : Index(s) # Index(w)
  <2>1. w \in Nat /\ w <= MaxSequence
    BY <1>0, WriteIsFree
  <2>2. Index(w) \in 0..(Size - 1)
    BY <2>1, IndexInRange
  <2>3. \A c \in Consumers : \A s \in (consumer_sequence[c] + 1)..producer_sequence :
            Index(s) # Index(w)
    BY <1>0, WriteIsFree
  <2>4. \A s \in sequence..(w - 1) : Index(s) # Index(w)
    BY <1>0, WriteIsFree
  <2>5. QED
    BY <2>1, <2>2, <2>3, <2>4
<1> USE SizeAssumption, BoundsAssumption DEF WriteSlot, consumerVars
<1>2. /\ slots' = [slots EXCEPT ![Index(w)] = w]
      /\ slots \in [0..(Size - 1) -> Sequences]
      /\ slots'[Index(w)] = w
      /\ \A i \in 0..(Size - 1) : i # Index(w) => slots'[i] = slots[i]
  BY <1>1 DEF IInv, TypeOK
<1>3. TypeOK'
  BY <1>1, <1>2, SMTT(40) DEF IInv, TypeOK, BatchInWindow, Sequences
<1>4. UnreadEventsIntact'
  <2>1. ASSUME NEW c \in Consumers, NEW s \in (consumer_sequence[c] + 1)..producer_sequence
        PROVE  slots'[Index(s)] = s
    <3>1. s \in Nat
      BY DEF IInv, TypeOK, Sequences
    <3>2. Index(s) \in 0..(Size - 1) /\ Index(s) # Index(w)
      BY <1>1, <3>1, IndexInRange
    <3>3. QED
      BY <1>2, <3>2 DEF IInv, UnreadEventsIntact
  <2>2. QED
    BY <2>1 DEF UnreadEventsIntact
<1>5. BatchInWindow'
  <2>1. ASSUME NEW s \in sequence..w
        PROVE  slots'[Index(s)] = s
    <3>1. CASE s = w
      BY <1>2, <3>1
    <3>2. CASE s # w
      <4>1. s \in sequence..(w - 1) /\ s \in Nat
        BY <1>1, <3>2 DEF IInv, TypeOK
      <4>2. Index(s) \in 0..(Size - 1) /\ Index(s) # Index(w)
        BY <1>1, <4>1, IndexInRange
      <4>3. slots[Index(s)] = s
        BY <1>0, <4>1 DEF IInv, BatchInWindow
      <4>4. QED
        BY <1>2, <4>2, <4>3
    <3>3. QED
      BY <3>1, <3>2
  <2>2. sequence + (written + 1) - 1 = w
    BY DEF IInv, TypeOK
  <2>3. QED
    BY <2>1, <2>2 DEF IInv, TypeOK, BatchInWindow, LastReserved
<1>6. ScanConservative' /\ WindowSound' /\ ConfirmedIsConsumed'
  BY DEF IInv, ScanConservative, WindowSound, ConfirmedIsConsumed, BatchInWindow
<1>7. (producer_sequence = sequence - 1)' /\ (\A c \in Consumers : ConsumerConsistent(c))'
  BY DEF IInv, ConsumerConsistent
<1>8. QED
  BY <1>3, <1>4, <1>5, <1>6, <1>7 DEF IInv

\* The event in the slot of a snapshotted sequence is the event of that sequence.
LEMMA SnapshotReadsItsEvent ==
    ASSUME IInv, NEW c \in Consumers,
           NEW s \in (consumer_sequence[c] + 1)..producer_sequence
    PROVE  slots[Index(s)] = s
  BY DEF IInv, UnreadEventsIntact

\* A step that only moves consumer-local variables leaves the rest of IInv alone.
LEMMA ProducerPartStable ==
    ASSUME IInv, UNCHANGED <<shared, producerVars>>
    PROVE  /\ (producer_sequence = sequence - 1)'
           /\ ScanConservative' /\ WindowSound' /\ BatchInWindow'
           /\ UnreadEventsIntact' /\ ConfirmedIsConsumed'
  BY DEF IInv, ScanConservative, WindowSound, BatchInWindow, UnreadEventsIntact,
         ConfirmedIsConsumed, LastReserved, shared, producerVars

\* An acknowledgement of an event that has been published, past the last one,
\* gives the producer room and takes nothing away from it.
LEMMA AcknowledgeKeepsProducerPart ==
    ASSUME IInv, NEW c \in Consumers, NEW s \in Sequences,
           consumer_sequence[c] <= s,
           consumer_sequence' = [consumer_sequence EXCEPT ![c] = s],
           UNCHANGED <<slots, producer_sequence, producerVars>>
    PROVE  /\ (producer_sequence = sequence - 1)'
           /\ ScanConservative' /\ WindowSound' /\ BatchInWindow'
           /\ UnreadEventsIntact' /\ ConfirmedIsConsumed'
<1> USE DEF IInv, TypeOK, Sequences, producerVars
<1>1. /\ \A d \in Consumers : consumer_sequence[d] <= consumer_sequence'[d]
      /\ \A d \in Consumers : consumer_sequence[d] \in Int /\ consumer_sequence'[d] \in Int
  BY BoundsAssumption, SMTT(40)
<1>2. ScanConservative'
  BY <1>1, SMTT(40) DEF ScanConservative, LastReserved
<1>7. ConfirmedIsConsumed'
  BY <1>1 DEF ConfirmedIsConsumed
<1>3. WindowSound'
  <2>1. ASSUME NEW d \in Consumers
        PROVE  sequence_clear_of_consumers <= consumer_sequence'[d] + Size
    <3>1. sequence_clear_of_consumers <= consumer_sequence[d] + Size
      BY DEF WindowSound
    <3>2. sequence_clear_of_consumers \in Int /\ Size \in Int
      BY BoundsAssumption, SizeAssumption
    <3> HIDE DEF IInv, TypeOK
    <3>3. QED
      BY <1>1, <3>1, <3>2
  <2>2. QED
    BY <2>1 DEF WindowSound
<1>4. UnreadEventsIntact'
  <2>1. ASSUME NEW d \in Consumers, NEW t \in (consumer_sequence'[d] + 1)..producer_sequence
        PROVE  slots[Index(t)] = t
    <3>1. t \in (consumer_sequence[d] + 1)..producer_sequence
      BY <1>1
    <3>2. QED
      BY <3>1 DEF UnreadEventsIntact
  <2>2. QED
    BY <2>1 DEF UnreadEventsIntact
<1>5. (producer_sequence = sequence - 1)' /\ BatchInWindow'
  BY DEF BatchInWindow, LastReserved
<1>6. QED
  BY <1>2, <1>3, <1>4, <1>5, <1>7

\* Starting a call, claiming slots and returning leave shared memory alone.
LEMMA CallStepsPreserveIInv ==
    ASSUME IInv,
           \/ \E how \in Calls \ {"none", "is_consumed"}, k \in 1..MaxBatch :
                 ClaimFromWindow(how, k) \/ StartScan(how, k)
           \/ \E s \in 0..producer_sequence : StartIsConsumed(s)
           \/ ClaimAfterScan \/ GiveUp \/ Rescan \/ AnswerIsConsumed
    PROVE  IInv'
<1> USE SizeAssumption, BoundsAssumption
    DEF IInv, TypeOK, ScanConservative, WindowSound, BatchInWindow,
        ConsumerConsistent, UnreadEventsIntact, ConfirmedIsConsumed, LastReserved,
        Calls, Sequences, shared, consumerVars
<1>1. ASSUME NEW how \in Calls \ {"none", "is_consumed"}, NEW k \in 1..MaxBatch,
             ClaimFromWindow(how, k)
      PROVE  IInv'
  BY <1>1 DEF ClaimFromWindow
<1>2. ASSUME NEW how \in Calls \ {"none", "is_consumed"}, NEW k \in 1..MaxBatch,
             StartScan(how, k)
      PROVE  IInv'
  BY <1>2 DEF StartScan
<1>3. ASSUME NEW s \in 0..producer_sequence, StartIsConsumed(s)
      PROVE  IInv'
  BY <1>3 DEF StartIsConsumed
<1>4. CASE ClaimAfterScan
  BY <1>4, SMTT(60) DEF ClaimAfterScan, Scanned, Free, FreeSlots
<1>5. CASE GiveUp
  BY <1>5 DEF GiveUp, Scanned, ReturnToCaller
<1>6. CASE Rescan
  BY <1>6 DEF Rescan, Scanned
<1>7. CASE AnswerIsConsumed
  BY <1>7 DEF AnswerIsConsumed, Scanned, ReturnToCaller
<1>8. QED
  BY <1>1, <1>2, <1>3, <1>4, <1>5, <1>6, <1>7

\* The store publishes exactly the slots that have been written.
LEMMA StorePreservesIInv ==
    ASSUME IInv, StoreProducerSequence
    PROVE  IInv'
<1> USE SizeAssumption, BoundsAssumption
    DEF StoreProducerSequence, ReturnToCaller, LastReserved, consumerVars
<1>1. n \in 1..MaxBatch /\ written = n /\ sequence + n <= MaxSequence + 1
  BY DEF IInv, TypeOK, BatchInWindow
<1>2. TypeOK' /\ (producer_sequence = sequence - 1)'
  BY <1>1 DEF IInv, TypeOK, Calls, Sequences
<1>3. UnreadEventsIntact'
  BY <1>1 DEF IInv, TypeOK, Sequences, BatchInWindow, UnreadEventsIntact
<1>4. \A c \in Consumers : ConsumerConsistent(c)'
  BY <1>1 DEF IInv, TypeOK, Sequences, ConsumerConsistent
<1>5. ScanConservative' /\ WindowSound' /\ BatchInWindow' /\ ConfirmedIsConsumed'
  BY DEF IInv, ScanConservative, WindowSound, BatchInWindow, ConfirmedIsConsumed
<1>6. QED
  BY <1>2, <1>3, <1>4, <1>5 DEF IInv

-----------------------------------------------------------------------------
(* Steps of a consumer: the conjuncts they can disturb are TypeOK and           *)
(* ConsumerConsistent.                                                         *)

LEMMA SnapshotBatchPreservesIInv ==
    ASSUME IInv, NEW c \in Consumers, SnapshotBatch(c)
    PROVE  IInv'
<1> USE BoundsAssumption DEF Available, NextSequence, IInv, TypeOK, Sequences
<1>1. PICK s \in (last_processed_sequence[c] + 1)..producer_sequence :
            upper' = [upper EXCEPT ![c] = s]
  <2>1. PICK s \in {last_processed_sequence[c] + 1, producer_sequence} :
              upper' = [upper EXCEPT ![c] = s]
    BY DEF SnapshotBatch
  <2>2. s \in (last_processed_sequence[c] + 1)..producer_sequence
    BY DEF SnapshotBatch
  <2>3. QED
    BY <2>1, <2>2
<1>2. /\ cpc[c] = "idle" /\ cpc' = [cpc EXCEPT ![c] = "process"]
      /\ pos' = [pos EXCEPT ![c] = last_processed_sequence[c] + 1]
      /\ UNCHANGED <<shared, producerVars, last_processed_sequence, event, delivered,
                     crashes>>
  BY DEF SnapshotBatch
<1>3. TypeOK'
  BY <1>1, <1>2, SMTT(40) DEF shared, producerVars
<1>4. \A d \in Consumers : ConsumerConsistent(d)'
  BY <1>1, <1>2 DEF ConsumerConsistent, shared, producerVars
<1>5. QED
  BY <1>2, <1>3, <1>4, ProducerPartStable

LEMMA ProcessEventPreservesIInv ==
    ASSUME IInv, NEW c \in Consumers, ProcessEvent(c)
    PROVE  IInv'
<1> USE BoundsAssumption DEF IInv, TypeOK, Sequences
<1>1. slots[Index(pos[c])] = pos[c]
  <2>1. pos[c] \in (consumer_sequence[c] + 1)..producer_sequence
    BY DEF ConsumerConsistent, ProcessEvent
  <2>2. QED
    BY <2>1, SnapshotReadsItsEvent
<1>2. /\ cpc[c] = "process"
      /\ pos[c] \in 0..MaxSequence /\ pos[c] <= upper[c] /\ upper[c] \in Sequences
      /\ delivered' = [delivered EXCEPT ![c] = pos[c]]
      /\ UNCHANGED <<shared, producerVars, last_processed_sequence, upper, event, crashes>>
  BY <1>1 DEF ConsumerConsistent, ProcessEvent
<1>3. CASE pos[c] < upper[c]
  <2>1. pos' = [pos EXCEPT ![c] = pos[c] + 1] /\ cpc' = cpc
    BY <1>3 DEF ProcessEvent
  <2>2. TypeOK'
    BY <1>2, <1>3, <2>1 DEF shared, producerVars
  <2>3. \A d \in Consumers : ConsumerConsistent(d)'
    BY <1>2, <1>3, <2>1, SMTT(40) DEF ConsumerConsistent, shared, producerVars
  <2>4. QED
    BY <1>2, <2>2, <2>3, ProducerPartStable
<1>4. CASE ~(pos[c] < upper[c])
  <2>1. cpc' = [cpc EXCEPT ![c] = "commit"] /\ pos' = pos /\ pos[c] = upper[c]
    BY <1>2, <1>4 DEF ProcessEvent
  <2>2. TypeOK'
    BY <1>2, <2>1 DEF shared, producerVars
  <2>3. \A d \in Consumers : ConsumerConsistent(d)'
    BY <1>2, <2>1 DEF ConsumerConsistent, shared, producerVars
  <2>4. QED
    BY <1>2, <2>2, <2>3, ProducerPartStable
<1>5. QED
  BY <1>3, <1>4

LEMMA PublishConsumedPreservesIInv ==
    ASSUME IInv, NEW c \in Consumers, PublishConsumedSequence(c)
    PROVE  IInv'
<1> USE BoundsAssumption DEF PublishConsumedSequence, IInv, TypeOK, Sequences
<1>1. consumer_sequence[c] <= upper[c] /\ upper[c] <= producer_sequence
  BY DEF ConsumerConsistent
<1>2. TypeOK'
  BY <1>1 DEF producerVars
<1>3. \A d \in Consumers : ConsumerConsistent(d)'
  BY <1>1 DEF ConsumerConsistent, producerVars
<1>4. QED
  BY <1>1, <1>2, <1>3, AcknowledgeKeepsProducerPart

LEMMA StartCopyPreservesIInv ==
    ASSUME IInv, NEW c \in Consumers, StartCopy(c)
    PROVE  IInv'
<1> USE BoundsAssumption DEF StartCopy, Available, NextSequence, IInv, TypeOK, Sequences
<1>1. TypeOK'
  BY SMTT(40) DEF ConsumerConsistent, shared, producerVars
<1>2. \A d \in Consumers : ConsumerConsistent(d)'
  BY DEF ConsumerConsistent, shared, producerVars
<1>3. QED
  BY <1>1, <1>2, ProducerPartStable

LEMMA CopyEventPreservesIInv ==
    ASSUME IInv, NEW c \in Consumers, CopyEvent(c)
    PROVE  IInv'
<1> USE BoundsAssumption DEF CopyEvent, IInv, TypeOK, Sequences
<1>1. slots[Index(pos[c])] = pos[c]
  <2>1. pos[c] \in (consumer_sequence[c] + 1)..producer_sequence
    BY DEF ConsumerConsistent
  <2>2. QED
    BY <2>1, SnapshotReadsItsEvent
<1>2. TypeOK'
  BY <1>1 DEF shared, producerVars
<1>3. \A d \in Consumers : ConsumerConsistent(d)'
  BY <1>1 DEF ConsumerConsistent, shared, producerVars
<1>4. QED
  BY <1>2, <1>3, ProducerPartStable

LEMMA StoreCopiedPreservesIInv ==
    ASSUME IInv, NEW c \in Consumers, StoreCopied(c)
    PROVE  IInv'
<1> USE BoundsAssumption DEF StoreCopied, IInv, TypeOK, Sequences
<1>1. consumer_sequence[c] <= pos[c] /\ pos[c] <= producer_sequence
  BY DEF ConsumerConsistent
<1>2. TypeOK'
  BY <1>1, SMTT(40) DEF producerVars
<1>3. \A d \in Consumers : ConsumerConsistent(d)'
  BY <1>1 DEF ConsumerConsistent, producerVars
<1>4. QED
  BY <1>1, <1>2, <1>3, AcknowledgeKeepsProducerPart

LEMMA ReturnEventPreservesIInv ==
    ASSUME IInv, NEW c \in Consumers, ReturnEvent(c)
    PROVE  IInv'
<1> USE BoundsAssumption DEF ReturnEvent, IInv, TypeOK, Sequences
<1>1. TypeOK'
  BY DEF shared, producerVars
<1>2. \A d \in Consumers : ConsumerConsistent(d)'
  BY DEF ConsumerConsistent, shared, producerVars
<1>3. QED
  BY <1>1, <1>2, ProducerPartStable

LEMMA CrashPreservesIInv ==
    ASSUME IInv, NEW c \in Consumers, Crash(c)
    PROVE  IInv'
<1> USE BoundsAssumption DEF Crash, IInv, TypeOK, Sequences
<1>1. TypeOK'
  BY DEF shared, producerVars
<1>2. \A d \in Consumers : ConsumerConsistent(d)'
  BY DEF ConsumerConsistent, shared, producerVars
<1>3. QED
  BY <1>1, <1>2, ProducerPartStable

LEMMA RestartPreservesIInv ==
    ASSUME IInv, NEW c \in Consumers, Restart(c)
    PROVE  IInv'
<1> USE BoundsAssumption DEF Restart, IInv, TypeOK, Sequences
<1>1. TypeOK'
  BY DEF shared, producerVars
<1>2. \A d \in Consumers : ConsumerConsistent(d)'
  BY DEF ConsumerConsistent, shared, producerVars
<1>3. QED
  BY <1>1, <1>2, ProducerPartStable

-----------------------------------------------------------------------------
(* The theorems. *)

LEMMA ConsumerStepsPreserveIInv ==
    ASSUME IInv, NEW c \in Consumers, ConsumerStep(c) \/ Crash(c) \/ Restart(c)
    PROVE  IInv'
  BY SnapshotBatchPreservesIInv, ProcessEventPreservesIInv, PublishConsumedPreservesIInv,
     StartCopyPreservesIInv, CopyEventPreservesIInv, StoreCopiedPreservesIInv,
     ReturnEventPreservesIInv, CrashPreservesIInv, RestartPreservesIInv
  DEF ConsumerStep

LEMMA ProducerStepsPreserveIInv ==
    ASSUME IInv, ProducerCall \/ ProducerStep
    PROVE  IInv'
<1>1. CASE ProducerCall
  <2>1. /\ "try" \in Calls \ {"none", "is_consumed"}
        /\ "wait" \in Calls \ {"none", "is_consumed"}
        /\ "timed" \in Calls \ {"none", "is_consumed"}
        /\ 1 \in 1..MaxBatch
    BY BoundsAssumption DEF Calls
  <2>2. QED
    BY <1>1, <2>1, CallStepsPreserveIInv DEF ProducerCall
<1>2. CASE ProducerStep
  BY <1>2, CallStepsPreserveIInv, LoadCursorPreservesIInv, WriteSlotPreservesIInv,
     StorePreservesIInv
  DEF ProducerStep
<1>3. QED
  BY <1>1, <1>2

LEMMA StutteringPreservesIInv ==
    ASSUME IInv, UNCHANGED vars
    PROVE  IInv'
<1>1. TypeOK'
  BY DEF IInv, TypeOK, vars, shared, producerVars, consumerVars
<1>2. \A c \in Consumers : ConsumerConsistent(c)'
  BY DEF IInv, ConsumerConsistent, vars, shared, consumerVars
<1>3. QED
  BY <1>1, <1>2, ProducerPartStable DEF IInv, vars

\* IInv holds throughout: for every set of consumers, ring, batch and bound.
THEOREM InvariantHolds == Spec => []IInv
<1>1. IInv /\ [Next]_vars => IInv'
  BY ProducerStepsPreserveIInv, ConsumerStepsPreserveIInv, StutteringPreservesIInv
  DEF Next
<1>2. QED
  BY InitEstablishesIInv, <1>1, PTL DEF Spec

\* Every variable keeps its range; in particular no sequence passes the bound.
THEOREM TypeCorrect == Spec => []TypeOK
<1>1. IInv => TypeOK
  BY DEF IInv
<1>2. QED
  BY <1>1, InvariantHolds, PTL

\* No event is overwritten before every consumer has acknowledged it.
THEOREM NoLostEvents == Spec => []UnreadEventsIntact
<1>1. IInv => UnreadEventsIntact
  BY DEF IInv
<1>2. QED
  BY <1>1, InvariantHolds, PTL

\* The slots of the claimed batch and those a consumer reads are disjoint.
THEOREM ExclusiveSlots == Spec => []NoDataRace
<1>1. IInv => NoDataRace
  <2> SUFFICES ASSUME IInv, ppc = "write", NEW c \in Consumers,
                      NEW s \in Held(c), NEW w \in sequence..LastReserved(n)
               PROVE  Index(s) # Index(w)
    BY DEF NoDataRace
  <2>1. s \in pos[c]..upper[c] /\ cpc[c] \in {"process", "commit", "copy"}
    BY DEF Held
  <2>2. consumer_sequence[c] \in Int /\ consumer_sequence[c] >= -1 /\ sequence \in Nat
    BY DEF IInv, TypeOK, Sequences
  <2>3. s \in Nat /\ consumer_sequence[c] < s /\ s < sequence
    BY <2>1, <2>2 DEF IInv, TypeOK, Sequences, ConsumerConsistent
  <2>4. LastReserved(n) <= consumer_sequence[c] + Size
    <3>1. sequence_clear_of_consumers <= consumer_sequence[c] + Size
      BY DEF IInv, WindowSound
    <3>2. LastReserved(n) <= sequence_clear_of_consumers
      BY DEF IInv, BatchInWindow
    <3>3. sequence_clear_of_consumers \in Int /\ LastReserved(n) \in Int
      BY SizeAssumption, BoundsAssumption DEF IInv, TypeOK, LastReserved
    <3>4. QED
      BY <2>2, <3>1, <3>2, <3>3, SizeAssumption
  <2>5. w \in Nat /\ sequence <= w /\ w <= LastReserved(n)
    BY <2>2
  <2>6. LastReserved(n) \in Int
    BY <2>2 DEF LastReserved, IInv, TypeOK
  <2>7. s < w /\ w - s < Size
    BY <2>2, <2>3, <2>4, <2>5, <2>6, SizeAssumption
  <2>8. QED
    BY <2>3, <2>5, <2>7, IndexDistinct
<1>2. QED
  BY <1>1, InvariantHolds, PTL

\* Acknowledgements never pass deliveries, but for the one event in hand.
THEOREM AtLeastOnceButOne == Spec => []AckAtMostOneAhead
<1>1. IInv => AckAtMostOneAhead
  <2> SUFFICES ASSUME IInv, NEW c \in Consumers
               PROVE  consumer_sequence[c] <=
                        delivered[c] + (IF cpc[c] \in {"return", "down"} THEN 1 ELSE 0)
    BY DEF AckAtMostOneAhead
  <2> USE DEF IInv, TypeOK, Sequences, ConsumerConsistent
  <2>1. CASE cpc[c] \in {"return", "down"}
    BY <2>1
  <2>2. CASE cpc[c] \in {"idle", "process", "commit", "copy", "store"}
    BY <2>2
  <2>3. QED
    BY <2>1, <2>2
<1>2. QED
  BY <1>1, InvariantHolds, PTL

\* What is_consumed has confirmed stays consumed.
THEOREM ConfirmationSound == Spec => []ConfirmedIsConsumed
<1>1. IInv => ConfirmedIsConsumed
  BY DEF IInv
<1>2. QED
  BY <1>1, InvariantHolds, PTL

-----------------------------------------------------------------------------
(* The ring implements the log. *)

\* Storing the producer's cursor appends the batch; nothing else appends.
LEMMA StoreAppends ==
    ASSUME IInv, StoreProducerSequence
    PROVE  Log!Append
<1> USE SizeAssumption, BoundsAssumption
    DEF IInv, TypeOK, Sequences, BatchInWindow, StoreProducerSequence, LastReserved
<1>1. n \in 1..MaxBatch /\ producer_sequence' = producer_sequence + n
  OBVIOUS
<1>2. \A c \in Consumers : producer_sequence' <= consumer_sequence[c] + Size
  BY DEF WindowSound
<1>3. n <= Size
  <2>1. PICK c \in Consumers : TRUE
    BY ConsumersAssumption
  <2>2. consumer_sequence[c] <= producer_sequence
    BY DEF ConsumerConsistent
  <2>3. QED
    BY <1>1, <1>2, <2>2
<1>4. UNCHANGED <<consumer_sequence, delivered>>
  BY DEF consumerVars
<1>5. QED
  BY <1>1, <1>2, <1>3, <1>4 DEF Log!Append

\* What the application is handed is the next event, read from its own slot.
LEMMA DeliveringStep ==
    ASSUME IInv, NEW c \in Consumers, ProcessEvent(c) \/ ReturnEvent(c)
    PROVE  Log!Deliver(c)
<1> USE DEF IInv, TypeOK, Sequences, ConsumerConsistent, shared
<1>1. CASE ProcessEvent(c)
  <2>1. pos[c] \in (consumer_sequence[c] + 1)..producer_sequence
    BY <1>1 DEF ProcessEvent
  <2>2. slots[Index(pos[c])] = pos[c]
    BY <2>1, SnapshotReadsItsEvent
  <2>3. pos[c] = delivered[c] + 1 /\ delivered[c] < producer_sequence
    BY <1>1, <2>1, SMTT(40) DEF ProcessEvent
  <2>4. QED
    BY <1>1, <2>2, <2>3 DEF ProcessEvent, Log!Deliver
<1>2. CASE ReturnEvent(c)
  <2>1. event[c] = delivered[c] + 1 /\ delivered[c] < producer_sequence
    BY <1>2 DEF ReturnEvent
  <2>2. QED
    BY <1>2, <2>1 DEF ReturnEvent, Log!Deliver
<1>3. QED
  BY <1>1, <1>2

\* A consumer's step delivers the next event, acknowledges, resumes, or is
\* invisible.
LEMMA ConsumerStepRefines ==
    ASSUME IInv, NEW c \in Consumers, ConsumerStep(c) \/ Crash(c) \/ Restart(c)
    PROVE  \/ Log!Deliver(c) \/ Log!Acknowledge(c) \/ Log!Resume(c)
           \/ UNCHANGED Log!logVars
<1> USE DEF IInv, TypeOK, Sequences, ConsumerConsistent, shared, Log!logVars
<1>1. CASE SnapshotBatch(c) \/ StartCopy(c) \/ CopyEvent(c) \/ Crash(c)
  BY <1>1 DEF SnapshotBatch, StartCopy, CopyEvent, Crash
<1>2. CASE ProcessEvent(c) \/ ReturnEvent(c)
  BY <1>2, DeliveringStep
<1>3. CASE PublishConsumedSequence(c)
  <2>1. /\ upper[c] \in (consumer_sequence[c] + 1)..producer_sequence
        /\ upper[c] <= delivered[c] + 1
    BY <1>3 DEF PublishConsumedSequence
  <2>2. QED
    BY <1>3, <2>1 DEF PublishConsumedSequence, Log!Acknowledge
<1>4. CASE StoreCopied(c)
  <2>1. /\ pos[c] \in (consumer_sequence[c] + 1)..producer_sequence
        /\ pos[c] <= delivered[c] + 1
    BY <1>4 DEF StoreCopied
  <2>2. QED
    BY <1>4, <2>1 DEF StoreCopied, Log!Acknowledge
<1>5. CASE Restart(c)
  BY <1>5 DEF Restart, Log!Resume
<1>6. QED
  BY <1>1, <1>2, <1>3, <1>4, <1>5 DEF ConsumerStep

\* No other step of the producer is visible.
LEMMA QuietProducerStep ==
    ASSUME ProducerCall \/ ProducerStep, ~StoreProducerSequence
    PROVE  UNCHANGED Log!logVars
  BY DEF ProducerCall, ProducerStep, ClaimFromWindow, StartScan, StartIsConsumed,
         LoadCursor, ClaimAfterScan, GiveUp, Rescan, AnswerIsConsumed, WriteSlot,
         shared, consumerVars, Log!logVars

\* Each incarnation of a consumer is handed consecutive events.
THEOREM InOrderDelivery == Spec => DeliveredInOrder
<1>1. IInv /\ [Next]_vars => [InOrderStep]_vars
  <2> SUFFICES ASSUME IInv, [Next]_vars, NEW c \in Consumers,
                      delivered'[c] # delivered[c]
               PROVE  \/ delivered'[c] = delivered[c] + 1
                      \/ cpc[c] = "down" /\ delivered'[c] = consumer_sequence[c]
    BY DEF InOrderStep
  <2> USE DEF IInv, TypeOK, Sequences
  <2>1. PICK d \in Consumers : ConsumerStep(d) \/ Crash(d) \/ Restart(d)
    BY QuietProducerStep DEF Next, StoreProducerSequence, Log!logVars, vars,
                             consumerVars
  <2>2. CASE ProcessEvent(d) \/ ReturnEvent(d)
    BY <2>2, DeliveringStep DEF Log!Deliver
  <2>3. CASE Restart(d)
    BY <2>3 DEF Restart
  <2>4. CASE ~ProcessEvent(d) /\ ~ReturnEvent(d) /\ ~Restart(d)
    BY <2>1, <2>4 DEF ConsumerStep, SnapshotBatch, PublishConsumedSequence, StartCopy,
         CopyEvent, StoreCopied, Crash
  <2>5. QED
    BY <2>2, <2>3, <2>4
<1>2. QED
  BY <1>1, InvariantHolds, PTL DEF Spec, DeliveredInOrder

\* The ring, with its cached window, unsynchronised scans, wrap-around, batches,
\* leases and crashes, is a bounded log every consumer reads in full and in order.
THEOREM RingImplementsLog == Spec => ImplementsLog
<1>1. Init => Log!Init
  BY DEF Init, Log!Init
<1>2. IInv /\ [Next]_vars => [Log!Next]_(Log!logVars)
  <2> SUFFICES ASSUME IInv, [Next]_vars
               PROVE  Log!Next \/ UNCHANGED Log!logVars
    OBVIOUS
  <2>1. CASE StoreProducerSequence
    BY <2>1, StoreAppends DEF Log!Next
  <2>2. CASE (ProducerCall \/ ProducerStep) /\ ~StoreProducerSequence
    BY <2>2, QuietProducerStep
  <2>3. ASSUME NEW c \in Consumers, ConsumerStep(c) \/ Crash(c) \/ Restart(c)
        PROVE  Log!Next \/ UNCHANGED Log!logVars
    BY <2>3, ConsumerStepRefines DEF Log!Next
  <2>4. CASE UNCHANGED vars
    BY <2>4 DEF vars, shared, consumerVars, Log!logVars
  <2>5. QED
    BY <2>1, <2>2, <2>3, <2>4 DEF Next
<1>3. QED
  BY <1>1, <1>2, InvariantHolds, PTL DEF Spec, ImplementsLog, Log!Spec

===============================================================================
