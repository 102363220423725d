---------------------------- MODULE Counters_proofs ----------------------------
(***************************************************************************)
(* Proofs about Counters, for every set of writers, capacity, set of       *)
(* labels and bound on the values.  IInv is inductive, and the safety      *)
(* properties follow from it.                                              *)
(***************************************************************************)
EXTENDS Counters, FiniteSetTheorems, TLAPS

-----------------------------------------------------------------------------
(* The accounting of slot_count. *)

\* The refused calls can be counted.
LEMMA RefusedFinite == IsFiniteSet(Refused) /\ Cardinality(Refused) \in Nat
<1>1. Refused \in SUBSET Writers
  BY DEF Refused
<1>2. IsFiniteSet(Refused)
  BY <1>1, WritersAssumption, FS_Subset
<1>3. QED
  BY <1>2, FS_CardinalityType

\* What TableConsistent says of slot_count, in numbers.
LEMMA Accounting ==
    ASSUME TypeOK, TableConsistent
    PROVE  /\ Claimed \in 0..Capacity
           /\ Claimed <= slot_count
           /\ Refused = {} => Claimed = slot_count
           /\ slot_count < Capacity => Claimed = slot_count /\ Refused = {}
           /\ slot_count >= Capacity => Claimed = Capacity
<1> DEFINE k == Cardinality(Refused)
<1>1. k \in Nat /\ (k = 0 <=> Refused = {})
  BY RefusedFinite, FS_EmptySet
<1>2. /\ slot_count \in Nat /\ Claimed = slot_count - k
      /\ Claimed \in 0..Capacity
      /\ Refused # {} => Claimed = Capacity
  BY DEF TypeOK, TableConsistent, Claimed
<1> HIDE DEF k
<1>3. QED
  BY <1>1, <1>2, CapacityAssumption

\* A step that claims no slot, refuses no call and takes back no increment leaves
\* the accounting alone.
LEMMA TableUnchanged ==
    ASSUME TableConsistent, NoSharing, slot_count' = slot_count,
           \A w \in Writers : /\ Taken(w)' = Taken(w)
                              /\ (call[w].step = "rollback")' <=> call[w].step = "rollback"
                              /\ Registering(w)' => call'[w].idx \notin handles'[w]
    PROVE  TableConsistent' /\ NoSharing'
<1>1. Refused' = Refused
  BY DEF Refused
<1>2. AllTaken' = AllTaken
  BY DEF AllTaken
<1>3. Claimed' = Claimed
  BY <1>1 DEF Claimed
<1>4. TableConsistent'
  BY <1>1, <1>2, <1>3 DEF TableConsistent
<1>5. NoSharing'
  BY DEF NoSharing
<1>6. QED
  BY <1>4, <1>5

\* The next slot is free, and it is the next one.
LEMMA RegisterClaimKeepsTable ==
    ASSUME TypeOK, TableConsistent, NoSharing, NEW w \in Writers, NEW l \in Labels,
           RegisterClaim(w, l)
    PROVE  TableConsistent' /\ NoSharing'
<1> DEFINE k == Cardinality(Refused)
<1>0. /\ \A v \in Writers : v # w => call'[v] = call[v]
      /\ handles' = handles /\ slot_count' = slot_count + 1 /\ slot_count \in Nat
      /\ call[w].step = "none"
  BY DEF RegisterClaim, TypeOK, NoCall, InCall
<1>1. k \in Nat
  BY RefusedFinite
<1>2. CASE slot_count >= Capacity
  <2>1. call'[w].step = "rollback"
    BY <1>2, CapacityAssumption DEF RegisterClaim, NoCall, InCall, TypeOK
  <2>2. Refused' = Refused \cup {w} /\ w \notin Refused
    BY <1>0, <2>1 DEF Refused
  <2>3. Cardinality(Refused)' = k + 1
    BY <2>2, RefusedFinite, FS_AddElement
  <2>4. Claimed' = Claimed /\ Claimed = Capacity
    BY <1>0, <1>1, <1>2, <2>3, Accounting DEF Claimed
  <2>5. \A v \in Writers : Taken(v)' = Taken(v) /\ (Registering(v)' => Registering(v))
    BY <1>0, <2>1 DEF Taken, Registering
  <2>6. AllTaken' = AllTaken
    BY <2>5 DEF AllTaken
  <2>7. TableConsistent'
    BY <2>4, <2>6 DEF TableConsistent
  <2>8. NoSharing'
    <3>1. ASSUME NEW v \in Writers, Registering(v)'
          PROVE  call'[v].idx \notin handles'[v]
      BY <1>0, <2>1, <3>1 DEF NoSharing, Registering
    <3>2. QED
      BY <2>5, <3>1 DEF NoSharing
  <2>9. QED
    BY <2>7, <2>8
<1>3. CASE slot_count < Capacity
  <2>1. /\ call'[w].step = "fill" /\ call'[w].idx = slot_count
    BY <1>3, <1>0, CapacityAssumption DEF RegisterClaim, NoCall, InCall, TypeOK
  <2>2. Refused' = Refused
    BY <1>0, <2>1 DEF Refused
  <2>3. Claimed = slot_count /\ Refused = {}
    BY <1>3, Accounting
  <2>4. Claimed' = slot_count + 1
    BY <1>0, <1>1, <2>2, <2>3, FS_EmptySet DEF Claimed
  <2>5. /\ \A v \in Writers : v # w => Taken(v)' = Taken(v)
        /\ Taken(w)' = Taken(w) \cup {slot_count}
        /\ \A v \in Writers : v # w /\ Registering(v)' => Registering(v)
    BY <1>0, <2>1 DEF Taken, Registering
  <2>6. AllTaken' = AllTaken \cup {slot_count}
    BY <2>5 DEF AllTaken
  <2>7. slot_count \notin AllTaken
    BY <1>0, <2>3 DEF TableConsistent
  <2>8. TableConsistent'
    <3>1. AllTaken' = 0..slot_count
      BY <1>0, <2>3, <2>6 DEF TableConsistent
    <3>2. QED
      BY <1>0, <1>3, <2>2, <2>3, <2>4, <3>1, CapacityAssumption DEF TableConsistent
  <2>9. NoSharing'
    <3>1. \A v \in Writers : slot_count \notin Taken(v)
      BY <2>7 DEF AllTaken
    <3>2. ASSUME NEW u \in Writers, NEW v \in Writers, u # v
          PROVE  Taken(u)' \cap Taken(v)' = {}
      BY <2>5, <3>1, <3>2 DEF NoSharing
    <3>3. ASSUME NEW v \in Writers, Registering(v)'
          PROVE  call'[v].idx \notin handles'[v]
      <4>1. CASE v = w
        BY <1>0, <2>1, <3>1, <4>1 DEF Taken
      <4>2. CASE v # w
        BY <1>0, <2>5, <3>3, <4>2 DEF NoSharing
      <4>3. QED
        BY <4>1, <4>2
    <3>4. QED
      BY <3>2, <3>3 DEF NoSharing
  <2>10. QED
    BY <2>8, <2>9
<1>4. QED
  BY <1>0, <1>2, <1>3, CapacityAssumption

\* The increment of a refused call goes with the call.
LEMMA RegisterRollbackKeepsTable ==
    ASSUME TypeOK, TableConsistent, NoSharing, NEW w \in Writers, RegisterRollback(w)
    PROVE  TableConsistent' /\ NoSharing' /\ slot_count' \in Nat
<1> DEFINE k == Cardinality(Refused)
<1>1. /\ \A v \in Writers : v # w => call'[v] = call[v]
      /\ handles' = handles /\ slot_count' = slot_count - 1 /\ slot_count \in Nat
      /\ call[w].step = "rollback" /\ call'[w].step = "none"
  BY DEF RegisterRollback, TypeOK, NoCall, InCall
<1>2. Refused' = Refused \ {w} /\ w \in Refused
  BY <1>1 DEF Refused
<1>3. Cardinality(Refused)' = k - 1 /\ k \in Nat
  BY <1>2, RefusedFinite, FS_RemoveElement
<1>4. Claimed' = Claimed /\ Claimed = Capacity
  BY <1>1, <1>2, <1>3 DEF Claimed, TableConsistent
<1>5. k >= 1
  BY <1>2, <1>3, RefusedFinite, FS_EmptySet
<1>6. slot_count' \in Nat
  BY <1>1, <1>3, <1>4, <1>5, CapacityAssumption DEF Claimed
<1>7. \A v \in Writers : Taken(v)' = Taken(v) /\ (Registering(v)' => Registering(v))
  BY <1>1 DEF Taken, Registering
<1>8. AllTaken' = AllTaken
  BY <1>7 DEF AllTaken
<1>9. TableConsistent'
  BY <1>4, <1>8 DEF TableConsistent
<1>10. NoSharing'
  <2>1. ASSUME NEW v \in Writers, Registering(v)'
        PROVE  call'[v].idx \notin handles'[v]
    BY <1>1, <2>1 DEF NoSharing, Registering
  <2>2. QED
    BY <1>7, <2>1 DEF NoSharing
<1>11. QED
  BY <1>6, <1>9, <1>10

\* record_max returns, or goes on with the value it has seen.
LEMMA RecordMaxOutcome ==
    ASSUME NEW w \in Writers, NEW i, NEW v, NEW seen, MaxSeen(w, i, v, seen)
    PROVE  \/ v > seen /\ call' = [call EXCEPT ![w] = InCall("cas", i, NoLabel, seen, v)]
           \/ ~(v > seen) /\ call' = [call EXCEPT ![w] = NoCall]
<1>1. CASE v > seen
  BY <1>1 DEF MaxSeen
<1>2. CASE ~(v > seen)
  BY <1>2 DEF MaxSeen
<1>3. QED
  BY <1>1, <1>2

\* No other step touches the accounting.
LEMMA OthersKeepTable ==
    ASSUME TypeOK, TableConsistent, NoSharing,
           \/ \E w \in Writers : RegisterFill(w) \/ RegisterPublish(w) \/ Update(w)
           \/ Aggregator \/ Stop \/ DropHandle \/ UNCHANGED vars
    PROVE  TableConsistent' /\ NoSharing'
<1>1. ASSUME NEW w \in Writers, RegisterFill(w)
      PROVE  TableConsistent' /\ NoSharing'
  <2>1. /\ slot_count' = slot_count /\ handles' = handles
        /\ \A v \in Writers : /\ call'[v].idx = call[v].idx
                              /\ v # w => call'[v] = call[v]
        /\ call[w].step = "fill" /\ call'[w].step = "publish"
    BY <1>1 DEF RegisterFill, TypeOK
  <2>2. \A v \in Writers : /\ Taken(v)' = Taken(v)
                           /\ (call[v].step = "rollback")' <=> call[v].step = "rollback"
                           /\ Registering(v)' => call'[v].idx \notin handles'[v]
    BY <2>1 DEF Taken, Registering, NoSharing
  <2>3. QED
    BY <2>1, <2>2, TableUnchanged
<1>2. ASSUME NEW w \in Writers, RegisterPublish(w)
      PROVE  TableConsistent' /\ NoSharing'
  <2>1. /\ slot_count' = slot_count
        /\ \A v \in Writers : v # w => call'[v] = call[v] /\ handles'[v] = handles[v]
        /\ call[w].step = "publish" /\ call'[w].step = "none"
        /\ handles'[w] = handles[w] \cup {call[w].idx}
    BY <1>2 DEF RegisterPublish, TypeOK, NoCall, InCall
  <2>2. \A v \in Writers : /\ Taken(v)' = Taken(v)
                           /\ (call[v].step = "rollback")' <=> call[v].step = "rollback"
                           /\ Registering(v)' => call'[v].idx \notin handles'[v]
    BY <2>1 DEF Taken, Registering, NoSharing
  <2>3. QED
    BY <2>1, <2>2, TableUnchanged
<1>3. ASSUME NEW w \in Writers, Update(w)
      PROVE  TableConsistent' /\ NoSharing'
  <2>1. /\ slot_count' = slot_count /\ handles' = handles
        /\ call[w].step \in {"none", "cas"}
        /\ \/ call' = call
           \/ call' = [call EXCEPT ![w] = NoCall]
           \/ \E i, seen, v : call' = [call EXCEPT ![w] = InCall("cas", i, NoLabel, seen, v)]
    <3>1. ASSUME NEW i \in Slots, NEW n \in 1..MaxValue, Add(w, i, n)
          PROVE  call' = call /\ call[w].step = "none" /\ slot_count' = slot_count /\ handles' = handles
      BY <3>1 DEF Add, NoCall, InCall, writerVars
    <3>2. ASSUME NEW i \in Slots, NEW n \in 1..MaxValue, RecordMaxLoad(w, i, n)
          PROVE  /\ call[w].step = "none" /\ slot_count' = slot_count /\ handles' = handles
                 /\ \/ call' = [call EXCEPT ![w] = NoCall]
                    \/ call' = [call EXCEPT ![w] = InCall("cas", i, NoLabel, slots[i].value, n)]
      <4>1. MaxSeen(w, i, n, slots[i].value) /\ call[w] = NoCall
        BY <3>2 DEF RecordMaxLoad
      <4>2. QED
        BY <3>2, <4>1, RecordMaxOutcome DEF RecordMaxLoad, NoCall, InCall
    <3>3. QED
      BY <1>3, <3>1, <3>2, RecordMaxOutcome DEF Update, CasSucceeds, CasFails
  <2>0. /\ \A v \in Writers : v # w => call'[v] = call[v]
        /\ call'[w].step \in {"none", "cas"}
    BY <2>1 DEF NoCall, InCall, TypeOK
  <2>2. \A v \in Writers : /\ Taken(v)' = Taken(v)
                           /\ (call[v].step = "rollback")' <=> call[v].step = "rollback"
                           /\ Registering(v)' => call'[v].idx \notin handles'[v]
    BY <2>0, <2>1 DEF Taken, Registering, NoSharing
  <2>3. QED
    BY <2>1, <2>2, TableUnchanged
<1>4. ASSUME Aggregator \/ Stop \/ DropHandle \/ UNCHANGED vars
      PROVE  TableConsistent' /\ NoSharing'
  <2>1. slot_count' = slot_count /\ handles' = handles /\ call' = call
    BY <1>4 DEF Aggregator, CheckStop, SnapshotCount, SnapshotFlags, SnapshotRead,
                SnapshotEnd, IntervalEnds, Stop, DropHandle, vars, writerVars
  <2>2. \A v \in Writers : Registering(v) => call[v].idx \notin handles[v]
    BY DEF NoSharing
  <2>3. QED
    BY <2>1, <2>2, TableUnchanged DEF Taken, Registering
<1>5. QED
  BY <1>1, <1>2, <1>3, <1>4

LEMMA StepKeepsTable ==
    ASSUME TypeOK, TableConsistent, NoSharing, [Next]_vars
    PROVE  TableConsistent' /\ NoSharing'
<1>1. CASE \E w \in Writers : \/ \E l \in Labels : RegisterClaim(w, l)
                              \/ RegisterRollback(w)
  BY <1>1, RegisterClaimKeepsTable, RegisterRollbackKeepsTable
<1>2. CASE \/ \E w \in Writers : RegisterFill(w) \/ RegisterPublish(w) \/ Update(w)
           \/ Aggregator \/ Stop \/ DropHandle \/ UNCHANGED vars
  BY <1>2, OthersKeepTable
<1>3. QED
  BY <1>1, <1>2 DEF Next, Register

-----------------------------------------------------------------------------
(* Types. *)

LEMMA WriterKeepsType ==
    ASSUME TypeOK, TableConsistent, NoSharing, NEW w \in Writers, Register(w) \/ Update(w)
    PROVE  TypeOK'
<1> USE CapacityAssumption, ValueAssumption
<1>1. ASSUME NEW l \in Labels, RegisterClaim(w, l)
      PROVE  TypeOK'
  BY <1>1 DEF RegisterClaim, TypeOK, NoCall, InCall, Slots, aggregatorVars, stopVars
<1>2. ASSUME RegisterRollback(w)
      PROVE  TypeOK'
  <2>1. slot_count' \in Nat
    BY <1>2, RegisterRollbackKeepsTable
  <2>2. QED
    BY <1>2, <2>1 DEF RegisterRollback, TypeOK, NoCall, InCall, Slots, aggregatorVars, stopVars
<1> DEFINE Slot == [label : Labels \cup {NoLabel}, in_use : BOOLEAN, value : Nat]
           i == call[w].idx
<1>3. ASSUME RegisterFill(w)
      PROVE  TypeOK'
  <2>1. i \in Slots /\ slots[i] \in Slot /\ call[w].label \in Labels \cup {NoLabel}
    BY DEF TypeOK
  <2>2. [slots[i] EXCEPT !.label = call[w].label] \in Slot
    BY <2>1
  <2>3. slots' \in [Slots -> Slot]
    BY <1>3, <2>2 DEF RegisterFill, TypeOK
  <2>4. QED
    BY <1>3, <2>3 DEF RegisterFill, TypeOK, aggregatorVars, stopVars
<1>4. ASSUME RegisterPublish(w)
      PROVE  TypeOK'
  <2>1. i \in Slots /\ slots[i] \in Slot
    BY DEF TypeOK
  <2>2. [slots[i] EXCEPT !.in_use = TRUE] \in Slot
    BY <2>1
  <2>3. slots' \in [Slots -> Slot]
    BY <1>4, <2>2 DEF RegisterPublish, TypeOK
  <2>4. NoCall \in [step : {"none", "rollback", "fill", "publish", "cas"},
                    idx : Slots, label : Labels \cup {NoLabel},
                    current : Nat, value : Nat]
    BY DEF NoCall, InCall, Slots
  <2>5. QED
    BY <1>4, <2>1, <2>3, <2>4 DEF RegisterPublish, TypeOK, aggregatorVars, stopVars
<1>5. ASSUME NEW j \in Slots, NEW n \in 1..MaxValue, Add(w, j, n)
      PROVE  TypeOK'
  <2>1. slots[j] \in Slot /\ slots[j].value + n \in Nat
    BY DEF TypeOK
  <2>2. [slots[j] EXCEPT !.value = slots[j].value + n] \in Slot
    BY <2>1
  <2>3. slots' \in [Slots -> Slot]
    BY <1>5, <2>2 DEF Add, TypeOK
  <2>4. QED
    BY <1>5, <2>3 DEF Add, TypeOK, writerVars, aggregatorVars, stopVars
<1>6. ASSUME NEW j \in Slots, NEW n \in 1..MaxValue, RecordMaxLoad(w, j, n)
      PROVE  TypeOK'
  BY <1>6 DEF RecordMaxLoad, MaxSeen, TypeOK, NoCall, InCall, Slots, aggregatorVars, stopVars
<1>7. ASSUME CasSucceeds(w)
      PROVE  TypeOK'
  <2>1. i \in Slots /\ slots[i] \in Slot /\ call[w].value \in Nat
    BY DEF TypeOK
  <2>2. [slots[i] EXCEPT !.value = call[w].value] \in Slot
    BY <2>1
  <2>3. slots' \in [Slots -> Slot]
    BY <1>7, <2>2 DEF CasSucceeds, TypeOK
  <2>4. call' = [call EXCEPT ![w] = NoCall]
    BY <1>7, <2>1, RecordMaxOutcome DEF CasSucceeds
  <2>5. QED
    BY <1>7, <2>3, <2>4 DEF CasSucceeds, TypeOK, NoCall, InCall, Slots, aggregatorVars, stopVars
<1>8. ASSUME CasFails(w)
      PROVE  TypeOK'
  BY <1>8 DEF CasFails, MaxSeen, TypeOK, NoCall, InCall, Slots, aggregatorVars, stopVars
<1>9. QED
  BY <1>1, <1>2, <1>3, <1>4, <1>5, <1>6, <1>7, <1>8 DEF Register, Update

LEMMA AggregatorKeepsType ==
    ASSUME TypeOK, Aggregator \/ Stop \/ DropHandle \/ UNCHANGED vars
    PROVE  TypeOK'
<1> USE CapacityAssumption DEF TypeOK, Slots, writerVars, stopVars, aggregatorVars
<1>1. CASE CheckStop \/ SnapshotCount
  BY <1>1 DEF CheckStop, SnapshotCount
<1>2. CASE SnapshotFlags
  BY <1>2 DEF SnapshotFlags
<1>3. CASE SnapshotRead
  BY <1>3 DEF SnapshotRead
<1>4. CASE SnapshotEnd \/ IntervalEnds
  BY <1>4 DEF SnapshotEnd, IntervalEnds
<1>5. CASE Stop \/ DropHandle
  BY <1>5 DEF Stop, DropHandle, Values
<1>6. CASE UNCHANGED vars
  BY <1>6 DEF vars
<1>7. QED
  BY <1>1, <1>2, <1>3, <1>4, <1>5, <1>6 DEF Aggregator
-----------------------------------------------------------------------------
(* Slots. *)

\* A counter that is in use keeps its label, its value never goes down, and a
\* handle is never taken back.  A registration does not write to a slot in use:
\* the slot is its own.
LEMMA SlotsStable ==
    ASSUME IInv, [Next]_vars
    PROVE  /\ \A j \in Slots : /\ slots'[j].value >= slots[j].value
                               /\ slots[j].in_use => /\ slots'[j].in_use
                                                     /\ slots'[j].label = slots[j].label
           /\ \A w \in Writers : handles[w] \subseteq handles'[w]
<1> DEFINE Stable == \A j \in Slots :
                        /\ slots'[j].value >= slots[j].value
                        /\ slots[j].in_use => /\ slots'[j].in_use
                                              /\ slots'[j].label = slots[j].label
           Kept == \A w \in Writers : handles[w] \subseteq handles'[w]
<1>1. /\ slots \in [Slots -> [label : Labels \cup {NoLabel}, in_use : BOOLEAN, value : Nat]]
      /\ call \in [Writers -> [step : {"none", "rollback", "fill", "publish", "cas"},
                              idx : Slots, label : Labels \cup {NoLabel},
                              current : Nat, value : Nat]]
      /\ handles \in [Writers -> SUBSET Slots]
  BY DEF IInv, TypeOK
<1>2. ASSUME NEW w \in Writers, RegisterFill(w)
      PROVE  Stable /\ Kept
  <2>1. ~slots[call[w].idx].in_use
    <3>1. SUFFICES ASSUME slots[call[w].idx].in_use PROVE FALSE
      OBVIOUS
    <3>2. PICK v \in Writers : call[w].idx \in handles[v]
      BY <1>1, <3>1 DEF IInv, LabelsWritten, HandedOut
    <3>3. call[w].idx \in Taken(v) /\ call[w].idx \in Taken(w) /\ Registering(w)
      BY <1>2, <3>2 DEF Taken, Registering, RegisterFill
    <3>4. QED
      BY <3>2, <3>3 DEF IInv, NoSharing
  <2>2. /\ handles' = handles
        /\ \A j \in Slots : j # call[w].idx => slots'[j] = slots[j]
        /\ slots'[call[w].idx].value = slots[call[w].idx].value
    BY <1>1, <1>2 DEF RegisterFill
  <2>3. QED
    BY <1>1, <2>1, <2>2
<1>3. ASSUME NEW w \in Writers, RegisterPublish(w)
      PROVE  Stable /\ Kept
  <2>1. /\ \A j \in Slots : j # call[w].idx => slots'[j] = slots[j]
        /\ slots'[call[w].idx].value = slots[call[w].idx].value
        /\ slots'[call[w].idx].in_use
        /\ slots'[call[w].idx].label = slots[call[w].idx].label
    BY <1>1, <1>3 DEF RegisterPublish
  <2>2. Kept
    BY <1>1, <1>3 DEF RegisterPublish
  <2>3. QED
    BY <1>1, <2>1, <2>2
<1>4. ASSUME NEW w \in Writers, NEW j \in Slots, NEW n \in 1..MaxValue, Add(w, j, n)
      PROVE  Stable /\ Kept
  <2>1. /\ handles' = handles
        /\ \A k \in Slots : k # j => slots'[k] = slots[k]
        /\ slots'[j].value = slots[j].value + n
        /\ slots'[j].in_use = slots[j].in_use
        /\ slots'[j].label = slots[j].label
    BY <1>1, <1>4 DEF Add, writerVars
  <2>2. QED
    BY <1>1, <2>1
<1>5. ASSUME NEW w \in Writers, CasSucceeds(w)
      PROVE  Stable /\ Kept
  <2>1. /\ handles' = handles
        /\ \A k \in Slots : k # call[w].idx => slots'[k] = slots[k]
        /\ slots'[call[w].idx].value = call[w].value
        /\ slots'[call[w].idx].in_use = slots[call[w].idx].in_use
        /\ slots'[call[w].idx].label = slots[call[w].idx].label
    BY <1>1, <1>5 DEF CasSucceeds
  <2>2. call[w].value > slots[call[w].idx].value
    BY <1>5 DEF CasSucceeds, IInv, ExchangeRaises
  <2>3. QED
    BY <1>1, <2>1, <2>2
<1>6. ASSUME slots' = slots /\ handles' = handles
      PROVE  Stable /\ Kept
  BY <1>1, <1>6
<1>7. ASSUME NEW w \in Writers,
             \/ \E l \in Labels : RegisterClaim(w, l)
             \/ RegisterRollback(w) \/ CasFails(w)
             \/ \E j \in Slots, n \in 1..MaxValue : RecordMaxLoad(w, j, n)
      PROVE  slots' = slots /\ handles' = handles
  BY <1>7 DEF RegisterClaim, RegisterRollback, CasFails, RecordMaxLoad
<1>8. ASSUME Aggregator \/ Stop \/ DropHandle \/ UNCHANGED vars
      PROVE  slots' = slots /\ handles' = handles
  BY <1>8 DEF Aggregator, CheckStop, SnapshotCount, SnapshotFlags, SnapshotRead,
              SnapshotEnd, IntervalEnds, Stop, DropHandle, vars, writerVars
<1>9. Stable /\ Kept
  BY <1>2, <1>3, <1>4, <1>5, <1>6, <1>7, <1>8 DEF Next, Register, Update
<1>10. QED
  BY <1>9

\* Labels are written before the flag, and into the call's own slot.
LEMMA StepKeepsLabels ==
    ASSUME IInv, [Next]_vars
    PROVE  LabelsWritten'
<1> DEFINE Writing == \A w \in Writers :
               /\ Registering(w) => call[w].label \in Labels
               /\ call[w].step = "publish" => slots[call[w].idx].label = call[w].label
           InUseLabelled == \A j \in Slots :
               slots[j].in_use => slots[j].label \in Labels /\ j \in HandedOut
<1>1. /\ slots \in [Slots -> [label : Labels \cup {NoLabel}, in_use : BOOLEAN, value : Nat]]
      /\ call \in [Writers -> [step : {"none", "rollback", "fill", "publish", "cas"},
                              idx : Slots, label : Labels \cup {NoLabel},
                              current : Nat, value : Nat]]
      /\ handles \in [Writers -> SUBSET Slots]
      /\ Writing /\ InUseLabelled
  BY DEF IInv, TypeOK, LabelsWritten
<1>2. \A j \in HandedOut : j \in HandedOut'
  BY SlotsStable DEF HandedOut
<1>3. ASSUME NEW w \in Writers, RegisterFill(w)
      PROVE  Writing' /\ InUseLabelled'
  <2>1. /\ \A j \in Slots : j # call[w].idx => slots'[j] = slots[j]
        /\ slots'[call[w].idx].label = call[w].label
        /\ slots'[call[w].idx].in_use = slots[call[w].idx].in_use
        /\ \A v \in Writers : v # w => call'[v] = call[v]
        /\ call'[w].idx = call[w].idx /\ call'[w].label = call[w].label
        /\ Registering(w)
    BY <1>1, <1>3 DEF RegisterFill, Registering
  <2>2. \A v \in Writers : v # w /\ call[v].step = "publish" => call[v].idx # call[w].idx
    BY <1>1, <2>1 DEF IInv, NoSharing, Taken, Registering
  <2>3. Writing'
    BY <1>1, <2>1, <2>2 DEF Registering
  <2>4. InUseLabelled'
    BY <1>1, <1>2, <2>1 DEF Registering
  <2>5. QED
    BY <2>3, <2>4
<1>4. ASSUME NEW w \in Writers, RegisterPublish(w)
      PROVE  Writing' /\ InUseLabelled'
  <2>1. /\ \A j \in Slots : /\ slots'[j].label = slots[j].label
                            /\ j # call[w].idx => slots'[j] = slots[j]
        /\ \A v \in Writers : v # w => call'[v] = call[v]
        /\ call'[w].step = "none" /\ call[w].step = "publish"
        /\ handles'[w] = handles[w] \cup {call[w].idx}
    BY <1>1, <1>4 DEF RegisterPublish, NoCall, InCall
  <2>2. Writing'
    BY <1>1, <2>1 DEF Registering
  <2>3. call[w].idx \in HandedOut' /\ slots[call[w].idx].label \in Labels
    BY <1>1, <2>1 DEF HandedOut, Registering
  <2>4. InUseLabelled'
    BY <1>1, <1>2, <2>1, <2>3
  <2>5. QED
    BY <2>2, <2>4
<1>5. ASSUME NEW w \in Writers, NEW j \in Slots, NEW n \in 1..MaxValue, Add(w, j, n)
      PROVE  Writing' /\ InUseLabelled'
  <2>1. /\ call' = call /\ handles' = handles
        /\ \A k \in Slots : /\ slots'[k].label = slots[k].label
                            /\ slots'[k].in_use = slots[k].in_use
    BY <1>1, <1>5 DEF Add, writerVars
  <2>2. QED
    BY <1>1, <2>1 DEF Registering, HandedOut
<1>6. ASSUME NEW w \in Writers,
             \/ \E l \in Labels : RegisterClaim(w, l)
             \/ RegisterRollback(w)
             \/ \E j \in Slots, n \in 1..MaxValue : RecordMaxLoad(w, j, n)
             \/ CasSucceeds(w) \/ CasFails(w)
      PROVE  Writing' /\ InUseLabelled'
  <2>1. /\ handles' = handles
        /\ \A k \in Slots : /\ slots'[k].label = slots[k].label
                            /\ slots'[k].in_use = slots[k].in_use
    BY <1>1, <1>6 DEF RegisterClaim, RegisterRollback, RecordMaxLoad, CasSucceeds, CasFails
  <2>2. /\ \A v \in Writers : v # w => call'[v] = call[v]
        /\ call'[w].step # "publish"
        /\ call'[w].step = "fill" => call'[w].label \in Labels
    <3>1. CASE \E l \in Labels : RegisterClaim(w, l)
      BY <1>1, <3>1 DEF RegisterClaim, InCall
    <3>2. CASE RegisterRollback(w)
      BY <1>1, <3>2 DEF RegisterRollback, NoCall, InCall
    <3>3. CASE \E j, n, seen : MaxSeen(w, j, n, seen)
      BY <1>1, <3>3, RecordMaxOutcome DEF NoCall, InCall
    <3>4. QED
      BY <1>6, <3>1, <3>2, <3>3 DEF RecordMaxLoad, CasSucceeds, CasFails
  <2>3. Writing'
    <3>1. \A v \in Writers : v # w /\ Registering(v)' =>
              /\ Registering(v) /\ call'[v] = call[v]
      BY <2>2 DEF Registering
    <3>2. Registering(w)' => call'[w].label \in Labels
      BY <2>2 DEF Registering
    <3>3. ASSUME NEW v \in Writers, call'[v].step = "publish"
          PROVE  slots'[call'[v].idx].label = call'[v].label
      <4>1. v # w /\ call'[v] = call[v] /\ call[v].idx \in Slots
        BY <1>1, <2>2, <3>3
      <4>2. QED
        BY <1>1, <2>1, <3>3, <4>1
    <3>4. QED
      BY <1>1, <3>1, <3>2, <3>3
  <2>4. InUseLabelled'
    BY <1>1, <2>1 DEF HandedOut
  <2>5. QED
    BY <2>3, <2>4
<1>7. ASSUME Aggregator \/ Stop \/ DropHandle \/ UNCHANGED vars
      PROVE  Writing' /\ InUseLabelled'
  <2>1. slots' = slots /\ handles' = handles /\ call' = call
    BY <1>7 DEF Aggregator, CheckStop, SnapshotCount, SnapshotFlags, SnapshotRead,
                SnapshotEnd, IntervalEnds, Stop, DropHandle, vars, writerVars
  <2>2. QED
    BY <1>1, <2>1 DEF Registering, HandedOut
<1>8. Writing' /\ InUseLabelled'
  BY <1>3, <1>4, <1>5, <1>6, <1>7 DEF Next, Register, Update
<1>9. QED
  BY <1>8 DEF LabelsWritten
\* record_max loops while its value is above what it has seen.
LEMMA StepKeepsExchange ==
    ASSUME IInv, [Next]_vars
    PROVE  ExchangeRaises'
<1>1. \A v \in Writers : call[v].step = "cas" => call[v].value > call[v].current
  BY DEF IInv, ExchangeRaises
<1>2. call \in [Writers -> [step : {"none", "rollback", "fill", "publish", "cas"},
                            idx : Slots, label : Labels \cup {NoLabel},
                            current : Nat, value : Nat]]
  BY DEF IInv, TypeOK
<1>3. ASSUME NEW w \in Writers, NEW j, NEW n, NEW seen, MaxSeen(w, j, n, seen)
      PROVE  ExchangeRaises'
  <2>1. CASE n > seen /\ call' = [call EXCEPT ![w] = InCall("cas", j, NoLabel, seen, n)]
    BY <1>1, <1>2, <2>1 DEF ExchangeRaises, InCall
  <2>2. CASE call' = [call EXCEPT ![w] = NoCall]
    BY <1>1, <1>2, <2>2 DEF ExchangeRaises, NoCall, InCall
  <2>3. QED
    BY <1>3, <2>1, <2>2, RecordMaxOutcome
<1>4. ASSUME NEW w \in Writers, Register(w)
      PROVE  ExchangeRaises'
  <2>1. /\ \A v \in Writers : v # w => call'[v] = call[v]
        /\ call'[w].step # "cas"
    BY <1>2, <1>4 DEF Register, RegisterClaim, RegisterRollback, RegisterFill,
                      RegisterPublish, NoCall, InCall
  <2>2. QED
    BY <1>1, <2>1 DEF ExchangeRaises
<1>5. ASSUME NEW w \in Writers, NEW j \in Slots, NEW n \in 1..MaxValue, Add(w, j, n)
      PROVE  ExchangeRaises'
  BY <1>1, <1>5 DEF Add, writerVars, ExchangeRaises
<1>6. ASSUME Aggregator \/ Stop \/ DropHandle \/ UNCHANGED vars
      PROVE  ExchangeRaises'
  <2>1. call' = call
    BY <1>6 DEF Aggregator, CheckStop, SnapshotCount, SnapshotFlags, SnapshotRead,
                SnapshotEnd, IntervalEnds, Stop, DropHandle, vars, writerVars
  <2>2. QED
    BY <1>1, <2>1 DEF ExchangeRaises
<1>7. QED
  BY <1>3, <1>4, <1>5, <1>6 DEF Next, Update, RecordMaxLoad, CasSucceeds, CasFails

-----------------------------------------------------------------------------
(* The aggregator. *)

\* What was reported stays justified, and a slot is read when it is in use.
LEMMA StepKeepsShown ==
    ASSUME IInv, [Next]_vars
    PROVE  ShownIsRegistered'
<1>1. /\ slots \in [Slots -> [label : Labels \cup {NoLabel}, in_use : BOOLEAN, value : Nat]]
      /\ slots' \in [Slots -> [label : Labels \cup {NoLabel}, in_use : BOOLEAN, value : Nat]]
      /\ emitted \in [Labels \cup {NoLabel} -> Nat \cup {-1}]
      /\ ShownIsRegistered
  BY WriterKeepsType, AggregatorKeepsType DEF IInv, TypeOK, Next
<1>2. ASSUME emitted' = emitted
      PROVE  ShownIsRegistered'
  <2>1. ASSUME NEW l \in Labels, emitted'[l] >= 0
        PROVE  \E j \in Slots : slots'[j].in_use /\ slots'[j].label = l /\ emitted'[l] <= slots'[j].value
    <3>1. PICK j \in Slots : slots[j].in_use /\ slots[j].label = l /\ emitted[l] <= slots[j].value
      BY <1>1, <1>2, <2>1 DEF ShownIsRegistered
    <3>2. slots'[j].in_use /\ slots'[j].label = l /\ slots'[j].value >= slots[j].value
      BY <3>1, SlotsStable
    <3>3. emitted'[l] <= slots'[j].value
      BY <1>1, <1>2, <3>1, <3>2
    <3>4. QED
      BY <3>2, <3>3
  <2>2. QED
    BY <1>1, <1>2, <2>1 DEF ShownIsRegistered
<1>3. ASSUME SnapshotRead
      PROVE  ShownIsRegistered'
  <2>1. aidx \in Slots /\ slots[aidx].in_use /\ slots[aidx].label \in Labels
    BY <1>3 DEF SnapshotRead, IInv, TypeOK, FlushCovers, LabelsWritten
  <2>2. /\ slots' = slots
        /\ \A l \in Labels \cup {NoLabel} :
              l # slots[aidx].label => emitted'[l] = emitted[l]
        /\ emitted'[slots[aidx].label] \in {slots[aidx].value, emitted[slots[aidx].label]}
    BY <1>1, <1>3 DEF SnapshotRead
  <2>3. ASSUME NEW l \in Labels, emitted'[l] >= 0
        PROVE  \E j \in Slots : slots'[j].in_use /\ slots'[j].label = l /\ emitted'[l] <= slots'[j].value
    <3>1. CASE emitted'[l] = emitted[l]
      BY <1>1, <2>2, <2>3, <3>1 DEF ShownIsRegistered
    <3>2. CASE l = slots[aidx].label /\ emitted'[l] = slots[aidx].value
      BY <1>1, <2>1, <2>2, <3>2
    <3>3. QED
      BY <2>2, <3>1, <3>2
  <2>4. QED
    BY <1>1, <2>1, <2>2, <2>3, LabelsAssumption DEF ShownIsRegistered
<1>4. ASSUME ~SnapshotRead
      PROVE  emitted' = emitted
  BY <1>4 DEF Next, Register, RegisterClaim, RegisterRollback, RegisterFill, RegisterPublish,
              Update, Add, RecordMaxLoad, CasSucceeds, CasFails, Aggregator, CheckStop,
              SnapshotCount, SnapshotFlags, SnapshotEnd, IntervalEnds, Stop, DropHandle,
              vars, writerVars, aggregatorVars, stopVars
<1>5. QED
  BY <1>2, <1>3, <1>4

\* The flush covers what was counted when stop was set: the count it reads afterwards
\* includes every slot in use, and what it has passed stays reported.
LEMMA StepKeepsFlush ==
    ASSUME IInv, [Next]_vars
    PROVE  FlushCovers'
<1> DEFINE Covered(j) ==
        /\ stop /\ slots[j].in_use /\ at_stop[j] <= slots[j].value
        /\ flushing /\ apc \in {"flags", "read"} => j < acount
        /\ flushing /\ apc \in {"flags", "read"} /\ j < aidx =>
              at_stop[j] <= emitted[slots[j].label]
        /\ apc = "done" => at_stop[j] <= emitted[slots[j].label]
<1> USE CapacityAssumption
<1>1. /\ TypeOK
      /\ apc = "done" => flushing
      /\ flushing => stop
      /\ apc = "read" => slots[aidx].in_use
      /\ \A j \in Slots : at_stop[j] >= 0 => Covered(j)
  BY DEF IInv, FlushCovers
<1>2. TypeOK'
  BY WriterKeepsType, AggregatorKeepsType DEF IInv, Next
<1>3. ASSUME UNCHANGED aggregatorVars, UNCHANGED stopVars
      PROVE  FlushCovers'
  <2>1. ASSUME NEW j \in Slots, at_stop'[j] >= 0
        PROVE  Covered(j)'
    <3>1. /\ UNCHANGED <<apc, acount, aidx, flushing, emitted, stop, at_stop>>
          /\ at_stop[j] >= 0 /\ Covered(j)
      BY <1>1, <1>3, <2>1 DEF aggregatorVars, stopVars
    <3>2. /\ slots'[j].in_use /\ slots'[j].label = slots[j].label
          /\ slots'[j].value >= slots[j].value
      BY <3>1, SlotsStable
    <3>3. at_stop[j] \in Int /\ slots[j].value \in Int /\ slots'[j].value \in Int
      BY <1>1, <1>2 DEF TypeOK
    <3>4. QED
      BY <3>1, <3>2, <3>3
  <2>2. (apc = "read")' => slots'[aidx'].in_use
    BY <1>1, <1>3, SlotsStable DEF TypeOK, aggregatorVars
  <2>3. QED
    BY <1>1, <1>3, <2>1, <2>2 DEF FlushCovers, aggregatorVars, stopVars
<1>4. ASSUME CheckStop \/ IntervalEnds
      PROVE  FlushCovers'
  BY <1>1, <1>4 DEF CheckStop, IntervalEnds, FlushCovers, stopVars
<1>5. ASSUME SnapshotCount
      PROVE  FlushCovers'
  <2>1. ASSUME NEW j \in Slots, slots[j].in_use
        PROVE  j < acount'
    <3>1. j \in AllTaken
      BY <2>1 DEF IInv, LabelsWritten, HandedOut, AllTaken, Taken
    <3>2. j < Claimed /\ Claimed <= slot_count /\ Claimed \in Int
      BY <3>1, Accounting DEF IInv, TableConsistent
    <3>3. QED
      BY <1>1, <1>5, <3>2 DEF SnapshotCount, TypeOK, Slots
  <2>2. QED
    BY <1>1, <1>5, <2>1 DEF SnapshotCount, FlushCovers, stopVars, Slots, TypeOK
<1>6. ASSUME SnapshotFlags
      PROVE  FlushCovers'
  <2>1. ASSUME NEW j \in Slots, at_stop[j] >= 0, flushing, j < aidx'
        PROVE  at_stop[j] <= emitted[slots[j].label]
    BY <1>1, <1>6, <2>1 DEF SnapshotFlags, Slots, TypeOK
  <2>2. QED
    BY <1>1, <1>6, <2>1 DEF SnapshotFlags, FlushCovers, stopVars, TypeOK
<1>7. ASSUME SnapshotRead
      PROVE  FlushCovers'
  <2>1. /\ \A l \in Labels \cup {NoLabel} : emitted'[l] >= emitted[l]
        /\ emitted'[slots[aidx].label] >= slots[aidx].value
    <3>1. /\ emitted \in [Labels \cup {NoLabel} -> Int]
          /\ slots[aidx].label \in Labels \cup {NoLabel} /\ slots[aidx].value \in Int
      BY <1>1, <1>7 DEF SnapshotRead, TypeOK
    <3>2. CASE slots[aidx].value > emitted[slots[aidx].label]
      BY <1>7, <3>1, <3>2 DEF SnapshotRead
    <3>3. CASE ~(slots[aidx].value > emitted[slots[aidx].label])
      BY <1>7, <3>1, <3>3 DEF SnapshotRead
    <3>4. QED
      BY <3>2, <3>3
  <2>2. ASSUME NEW j \in Slots, at_stop[j] >= 0, flushing, j < aidx'
        PROVE  at_stop[j] <= emitted'[slots[j].label]
    <3>1. CASE j = aidx
      <4>1. at_stop[j] <= slots[j].value
        BY <1>1, <2>2
      <4>2. slots[j].value <= emitted'[slots[j].label]
        BY <2>1, <3>1
      <4>3. /\ at_stop[j] \in Int /\ slots[j].value \in Int
            /\ slots[j].label \in Labels \cup {NoLabel}
        BY <1>1 DEF TypeOK
      <4>4. emitted'[slots[j].label] \in Int
        BY <1>2, <4>3 DEF TypeOK
      <4>5. QED
        BY <4>1, <4>2, <4>3, <4>4
    <3>2. CASE j < aidx
      <4>1. at_stop[j] <= emitted[slots[j].label]
        BY <1>1, <1>7, <2>2, <3>2 DEF SnapshotRead
      <4>2. slots[j].label \in Labels \cup {NoLabel}
        BY <1>1 DEF TypeOK
      <4>3. at_stop[j] \in Int /\ emitted[slots[j].label] \in Int
        BY <1>1, <4>2 DEF TypeOK
      <4>4. emitted'[slots[j].label] \in Int
        BY <1>2, <4>2 DEF TypeOK
      <4>5. QED
        BY <2>1, <4>1, <4>2, <4>3, <4>4
    <3>3. QED
      BY <1>1, <1>7, <2>2, <3>1, <3>2 DEF SnapshotRead, TypeOK, Slots
  <2>3. QED
    BY <1>1, <1>7, <2>2 DEF SnapshotRead, FlushCovers, stopVars
<1>8. ASSUME SnapshotEnd
      PROVE  FlushCovers'
  <2>1. ASSUME NEW j \in Slots, at_stop[j] >= 0, flushing
        PROVE  at_stop[j] <= emitted[slots[j].label]
    BY <1>1, <1>8, <2>1 DEF SnapshotEnd, TypeOK, Slots
  <2>2. QED
    BY <1>1, <1>8, <2>1 DEF SnapshotEnd, FlushCovers, stopVars
<1>9. ASSUME Stop \/ DropHandle
      PROVE  FlushCovers'
  <2>1. CASE stop
    BY <1>1, <1>9, <2>1 DEF Stop, DropHandle, FlushCovers, aggregatorVars
  <2>2. CASE ~stop
    BY <1>1, <1>9, <2>2 DEF Stop, DropHandle, FlushCovers, aggregatorVars, Values, TypeOK
  <2>3. QED
    BY <2>1, <2>2
<1>10. ASSUME NEW w \in Writers, Register(w) \/ Update(w)
       PROVE  UNCHANGED aggregatorVars /\ UNCHANGED stopVars
  BY <1>10 DEF Register, RegisterClaim, RegisterRollback, RegisterFill, RegisterPublish,
               Update, Add, RecordMaxLoad, CasSucceeds, CasFails
<1>11. UNCHANGED vars => UNCHANGED aggregatorVars /\ UNCHANGED stopVars
  BY DEF vars
<1>12. QED
  BY <1>3, <1>4, <1>5, <1>6, <1>7, <1>8, <1>9, <1>10, <1>11 DEF Next, Aggregator

-----------------------------------------------------------------------------
(* The invariant and what follows from it. *)

LEMMA InitEstablishesIInv == Init => IInv
<1> SUFFICES ASSUME Init PROVE IInv
  OBVIOUS
<1> USE CapacityAssumption, LabelsAssumption
<1>1. TypeOK
  <2>1. EmptySlot \in [label : Labels \cup {NoLabel}, in_use : BOOLEAN, value : Nat]
    BY DEF EmptySlot
  <2>2. NoCall \in [step : {"none", "rollback", "fill", "publish", "cas"},
                    idx : Slots, label : Labels \cup {NoLabel},
                    current : Nat, value : Nat]
    BY DEF NoCall, InCall, Slots
  <2>3. /\ slots \in [Slots -> [label : Labels \cup {NoLabel}, in_use : BOOLEAN, value : Nat]]
        /\ call \in [Writers -> [step : {"none", "rollback", "fill", "publish", "cas"},
                                idx : Slots, label : Labels \cup {NoLabel},
                                current : Nat, value : Nat]]
    BY <2>1, <2>2 DEF Init
  <2>4. /\ slot_count \in Nat /\ handles \in [Writers -> SUBSET Slots]
        /\ emitted \in [Labels \cup {NoLabel} -> Nat \cup {-1}]
        /\ at_stop \in [Slots -> Nat \cup {-1}]
    BY DEF Init
  <2>5. acount \in 0..Capacity /\ aidx \in 0..Capacity /\ apc = "check"
    BY DEF Init
  <2>6. flushing \in BOOLEAN /\ stop \in BOOLEAN /\ joining \in BOOLEAN
    BY DEF Init
  <2>7. QED
    BY <2>3, <2>4, <2>5, <2>6 DEF TypeOK
<1>2. Refused = {} /\ AllTaken = {}
  BY DEF Init, Refused, AllTaken, Taken, Registering, NoCall, InCall
<1>3. TableConsistent
  BY <1>2, FS_EmptySet DEF Init, TableConsistent, Claimed
<1>4. NoSharing /\ LabelsWritten /\ ExchangeRaises
  BY DEF Init, NoSharing, LabelsWritten, ExchangeRaises, Taken, Registering, NoCall, InCall,
         EmptySlot
<1>5. ShownIsRegistered /\ FlushCovers
  BY DEF Init, ShownIsRegistered, FlushCovers, Slots
<1>6. QED
  BY <1>1, <1>3, <1>4, <1>5 DEF IInv

LEMMA StepKeepsIInv == IInv /\ [Next]_vars => IInv'
<1> SUFFICES ASSUME IInv, [Next]_vars PROVE IInv'
  OBVIOUS
<1>1. TypeOK'
  BY WriterKeepsType, AggregatorKeepsType DEF IInv, Next
<1>2. TableConsistent' /\ NoSharing'
  BY StepKeepsTable DEF IInv
<1>3. QED
  BY <1>1, <1>2, StepKeepsLabels, StepKeepsExchange, StepKeepsShown, StepKeepsFlush DEF IInv

\* IInv is an invariant: slot_count counts the slots given away and the refused calls,
\* labels precede flags, exchanges only raise, and the final flush misses nothing.
THEOREM InvariantHolds == Spec => []IInv
<1>1. QED
  BY InitEstablishesIInv, StepKeepsIInv, PTL DEF Spec

\* However many threads register at once, and whatever the capacity: no slot is given
\* out twice, registration fails only when the table is full, and the increments and
\* decrements of refused calls never hide a free slot (register).
THEOREM RegistrationExclusive == Spec => []SlotsExclusive
<1>1. IInv => SlotsExclusive
  <2> SUFFICES ASSUME IInv PROVE SlotsExclusive
    OBVIOUS
  <2>1. /\ Refused # {} => Claimed = Capacity
        /\ slot_count < Capacity => Claimed = slot_count
        /\ AllTaken = 0..(Claimed - 1)
    BY Accounting DEF IInv, TableConsistent
  <2>2. slot_count \in Nat
    BY DEF IInv, TypeOK
  <2>3. QED
    BY <2>1, <2>2 DEF IInv, SlotsExclusive, Slots
<1>2. QED
  BY <1>1, InvariantHolds, PTL

\* A snapshot reports registered counters only, with values they have reached, and
\* the last one covers every update made before the stop (snapshot, worker_loop).
THEOREM SnapshotsAreFaithful == Spec => []SnapshotsFaithful
<1>1. IInv => SnapshotsFaithful
  <2> SUFFICES ASSUME IInv PROVE SnapshotsFaithful
    OBVIOUS
  <2>1. ASSUME apc = "done", NEW j \in Slots
        PROVE  at_stop[j] <= emitted[slots[j].label]
    <3>1. CASE at_stop[j] >= 0
      BY <2>1, <3>1 DEF IInv, FlushCovers
    <3>2. CASE at_stop[j] = -1
      BY <3>2 DEF IInv, TypeOK
    <3>3. QED
      BY <3>1, <3>2 DEF IInv, TypeOK
  <2>2. QED
    BY <2>1 DEF IInv, SnapshotsFaithful
<1>2. QED
  BY <1>1, InvariantHolds, PTL

\* record_max leaves the counter at its value or above, and counters never go down
\* (record_max, add).
THEOREM HighWaterMarksStay == Spec => HighWater
<1>1. IInv /\ [Next]_vars => [MaximaKept]_vars
  <2> SUFFICES ASSUME IInv, [Next]_vars PROVE MaximaKept
    OBVIOUS
  <2>1. /\ call \in [Writers -> [step : {"none", "rollback", "fill", "publish", "cas"},
                                 idx : Slots, label : Labels \cup {NoLabel},
                                 current : Nat, value : Nat]]
        /\ slots \in [Slots -> [label : Labels \cup {NoLabel}, in_use : BOOLEAN, value : Nat]]
    BY DEF IInv, TypeOK
  <2>2. ASSUME NEW w \in Writers, call[w].step = "cas", call'[w] = NoCall
        PROVE  slots'[call[w].idx].value >= call[w].value
    <3>1. call'[w] # call[w]
      BY <2>2 DEF NoCall, InCall
    <3>2. CASE CasSucceeds(w)
      BY <2>1, <3>2 DEF CasSucceeds
    <3>3. CASE CasFails(w)
      <4>1. ~(call[w].value > slots[call[w].idx].value)
        BY <2>1, <2>2, <3>3, RecordMaxOutcome DEF CasFails, NoCall, InCall
      <4>2. slots' = slots
        BY <3>3 DEF CasFails
      <4>3. QED
        BY <2>1, <4>1, <4>2
    <3>4. ASSUME NEW v \in Writers, v # w, Register(v) \/ Update(v)
          PROVE  call'[w] = call[w]
      BY <2>1, <3>4, RecordMaxOutcome
      DEF Register, RegisterClaim, RegisterRollback, RegisterFill, RegisterPublish,
          Update, Add, RecordMaxLoad, CasSucceeds, CasFails, writerVars
    <3>5. Register(w) => FALSE
      BY <2>1, <2>2 DEF Register, RegisterClaim, RegisterRollback, RegisterFill,
                        RegisterPublish, NoCall, InCall
    <3>6. ASSUME NEW j \in Slots, NEW n \in 1..MaxValue, Add(w, j, n) \/ RecordMaxLoad(w, j, n)
          PROVE  FALSE
      BY <2>2, <3>6 DEF Add, RecordMaxLoad, NoCall, InCall
    <3>7. ASSUME Aggregator \/ Stop \/ DropHandle \/ UNCHANGED vars
          PROVE  call' = call
      BY <3>7 DEF Aggregator, CheckStop, SnapshotCount, SnapshotFlags, SnapshotRead,
                  SnapshotEnd, IntervalEnds, Stop, DropHandle, vars, writerVars
    <3>8. QED
      BY <3>1, <3>2, <3>3, <3>4, <3>5, <3>6, <3>7 DEF Next, Update
  <2>3. QED
    BY <2>2, SlotsStable DEF MaximaKept
<1>2. QED
  BY <1>1, InvariantHolds, PTL DEF Spec, HighWater
================================================================================
