------------------------------- MODULE Counters -------------------------------
(***************************************************************************)
(* The counters file of disruptor-mp's observability module: a header and  *)
(* a table of slots in shared memory in which producers and consumers      *)
(* register counters and update them without locks, and the aggregator     *)
(* thread that reads the table and reports it to the metrics facade until  *)
(* its handle is dropped.                                                  *)
(*                                                                         *)
(* A counter's id, flags and text label are one model value, its label.    *)
(* Each atomic access of the code is a step of its own; the aggregator can *)
(* be anywhere in the table while a counter is being registered.  A writer *)
(* that takes no further step is one whose process died.                   *)
(***************************************************************************)
EXTENDS Integers, FiniteSets

CONSTANTS
    Writers,       \* threads that register and update counters
    Capacity,      \* MAX_COUNTER_SLOTS
    Labels,        \* labels counters are registered under
    MaxValue       \* bound on the value of a counter

ASSUME WritersAssumption == IsFiniteSet(Writers)
ASSUME CapacityAssumption == Capacity \in Nat \ {0}
ASSUME ValueAssumption == MaxValue \in Nat

NoLabel == "none"     \* the label of a slot nobody has filled
ASSUME LabelsAssumption == NoLabel \notin Labels

Slots == 0..(Capacity - 1)

VARIABLES
    slot_count,    \* CountersHeader.slot_count
    slots,         \* slot -> its label, IN_USE flag and value
    call,          \* writer -> the call it is in: its step, slot, label and values
    handles,       \* writer -> slots of the CounterHandles it was given
    apc,           \* aggregator: "check", "count", "flags", "read", "sleep", "done"
    acount,        \* slot_count it read, capped
    aidx,          \* slot it looks at
    flushing,      \* it has left the loop and runs the final flush
    emitted,       \* label -> absolute value reported to the facade, -1 for none
    stop,          \* AggregatorHandle.stop
    joining,       \* the handle is being dropped and waits for the thread
    at_stop        \* history: slot -> its value when stop was set, -1 if not in use

writerVars == <<call, handles>>
aggregatorVars == <<apc, acount, aidx, flushing, emitted>>
stopVars == <<stop, joining, at_stop>>
vars == <<slot_count, slots, writerVars, aggregatorVars, stopVars>>

\* The local variables of register and record_max: step, index or slot, label,
\* the value loaded last and the value record_max was called with.
InCall(step, i, l, current, value) ==
    [step |-> step, idx |-> i, label |-> l, current |-> current, value |-> value]
NoCall == InCall("none", 0, NoLabel, 0, 0)
EmptySlot == [label |-> NoLabel, in_use |-> FALSE, value |-> 0]

Init ==
    /\ slot_count = 0
    /\ slots = [i \in Slots |-> EmptySlot]
    /\ call = [w \in Writers |-> NoCall]
    /\ handles = [w \in Writers |-> {}]
    /\ apc = "check" /\ acount = 0 /\ aidx = 0 /\ flushing = FALSE
    /\ emitted = [l \in Labels \cup {NoLabel} |-> -1]
    /\ stop = FALSE /\ joining = FALSE
    /\ at_stop = [i \in Slots |-> -1]

-----------------------------------------------------------------------------
(***************************************************************************)
(* Registering a counter.                                                  *)
(***************************************************************************)

\* A plausible bug: the limit is compared with the new count.
RegisterClaim_NewCount(w, l) ==
    /\ call[w] = NoCall
    /\ slot_count' = slot_count + 1
    /\ call' = [call EXCEPT ![w] =
                  IF slot_count + 1 >= Capacity
                  THEN InCall("rollback", 0, NoLabel, 0, 0)
                  ELSE InCall("fill", slot_count, l, 0, 0)]
    /\ UNCHANGED <<slots, handles, aggregatorVars, stopVars>>

\* fetch_add on slot_count: the old count is the index, if the table has one.
RegisterClaim(w, l) ==
    /\ call[w] = NoCall
    /\ slot_count' = slot_count + 1
    /\ call' = [call EXCEPT ![w] =
                  IF slot_count >= Capacity
                  THEN InCall("rollback", 0, NoLabel, 0, 0)
                  ELSE InCall("fill", slot_count, l, 0, 0)]
    /\ UNCHANGED <<slots, handles, aggregatorVars, stopVars>>

\* The table is full: take the increment back and return None.
RegisterRollback(w) ==
    /\ call[w].step = "rollback"
    /\ slot_count' = slot_count - 1
    /\ call' = [call EXCEPT ![w] = NoCall]
    /\ UNCHANGED <<slots, handles, aggregatorVars, stopVars>>

\* The id and label are written before the flags say that they are there.
RegisterFill(w) ==
    /\ call[w].step = "fill"
    /\ slots' = [slots EXCEPT ![call[w].idx].label = call[w].label]
    /\ call' = [call EXCEPT ![w].step = "publish"]
    /\ UNCHANGED <<slot_count, handles, aggregatorVars, stopVars>>

RegisterPublish(w) ==
    /\ call[w].step = "publish"
    /\ slots' = [slots EXCEPT ![call[w].idx].in_use = TRUE]
    /\ handles' = [handles EXCEPT ![w] = @ \cup {call[w].idx}]
    /\ call' = [call EXCEPT ![w] = NoCall]
    /\ UNCHANGED <<slot_count, aggregatorVars, stopVars>>

-----------------------------------------------------------------------------
(***************************************************************************)
(* Updates through a handle.  A handle is Copy and Sync: any thread of the *)
(* program may hold a copy of one.                                         *)
(***************************************************************************)

HandedOut == UNION {handles[w] : w \in Writers}

\* inc and add: one fetch_add.
Add(w, i, n) ==
    /\ call[w] = NoCall /\ i \in HandedOut
    /\ slots[i].value + n <= MaxValue
    /\ slots' = [slots EXCEPT ![i].value = @ + n]
    /\ UNCHANGED <<slot_count, writerVars, aggregatorVars, stopVars>>

\* record_max(v) on slot i has seen the value seen: it returns, or tries an
\* exchange while v is above it.
MaxSeen(w, i, v, seen) ==
    call' = [call EXCEPT ![w] =
               IF v > seen
               THEN InCall("cas", i, NoLabel, seen, v)
               ELSE NoCall]

RecordMaxLoad(w, i, v) ==
    /\ call[w] = NoCall /\ i \in HandedOut
    /\ MaxSeen(w, i, v, slots[i].value)
    /\ UNCHANGED <<slot_count, slots, handles, aggregatorVars, stopVars>>

CasSucceeds(w) ==
    LET i == call[w].idx IN
    /\ call[w].step = "cas" /\ slots[i].value = call[w].current
    /\ slots' = [slots EXCEPT ![i].value = call[w].value]
    /\ MaxSeen(w, i, call[w].value, call[w].value)
    /\ UNCHANGED <<slot_count, handles, aggregatorVars, stopVars>>

\* A plausible bug: one attempt only.
CasFails_GivesUp(w) ==
    LET i == call[w].idx IN
    /\ call[w].step = "cas" /\ slots[i].value # call[w].current
    /\ call' = [call EXCEPT ![w] = NoCall]
    /\ UNCHANGED <<slot_count, slots, handles, aggregatorVars, stopVars>>

\* The exchange fails and returns the value it found.  (A spurious failure of
\* compare_exchange_weak finds the same value: no change.)
CasFails(w) ==
    LET i == call[w].idx IN
    /\ call[w].step = "cas" /\ slots[i].value # call[w].current
    /\ MaxSeen(w, i, call[w].value, slots[i].value)
    /\ UNCHANGED <<slot_count, slots, handles, aggregatorVars, stopVars>>

-----------------------------------------------------------------------------
(***************************************************************************)
(* The aggregator: worker_loop with the snapshot it takes, and its handle. *)
(* The thread was given the address of a CountersFile, which exists only   *)
(* over an initialised header, so its attach succeeds.                     *)
(***************************************************************************)

\* A plausible bug: no snapshot after the stop.
CheckStop_NoFlush ==
    /\ apc = "check"
    /\ flushing' = stop
    /\ apc' = IF stop THEN "done" ELSE "count"
    /\ UNCHANGED <<slot_count, slots, writerVars, acount, aidx, emitted, stopVars>>

\* The top of the loop: leave it when told to stop, for one last snapshot.
CheckStop ==
    /\ apc = "check"
    /\ flushing' = stop
    /\ apc' = "count"
    /\ UNCHANGED <<slot_count, slots, writerVars, acount, aidx, emitted, stopVars>>

\* A plausible bug: the count is not capped.
SnapshotCount_Uncapped ==
    /\ apc = "count"
    /\ acount' = slot_count /\ aidx' = 0
    /\ apc' = "flags"
    /\ UNCHANGED <<slot_count, slots, writerVars, flushing, emitted, stopVars>>

\* snapshot: read slot_count, which may be above the capacity.
SnapshotCount ==
    /\ apc = "count"
    /\ acount' = IF slot_count < Capacity THEN slot_count ELSE Capacity
    /\ aidx' = 0
    /\ apc' = "flags"
    /\ UNCHANGED <<slot_count, slots, writerVars, flushing, emitted, stopVars>>

\* Slots that are claimed but not yet populated are passed over.
SnapshotFlags ==
    /\ apc = "flags" /\ aidx < acount
    /\ IF slots[aidx].in_use
       THEN apc' = "read" /\ aidx' = aidx
       ELSE apc' = "flags" /\ aidx' = aidx + 1
    /\ UNCHANGED <<slot_count, slots, writerVars, acount, flushing, emitted, stopVars>>

\* counter!(name).absolute(value): the facade's counters never go down.
SnapshotRead ==
    LET c == slots[aidx] IN
    /\ apc = "read"
    /\ emitted' = [emitted EXCEPT ![c.label] = IF c.value > @ THEN c.value ELSE @]
    /\ aidx' = aidx + 1 /\ apc' = "flags"
    /\ UNCHANGED <<slot_count, slots, writerVars, acount, flushing, stopVars>>

SnapshotEnd ==
    /\ apc = "flags" /\ aidx >= acount
    /\ apc' = IF flushing THEN "done" ELSE "sleep"
    /\ acount' = 0 /\ aidx' = 0
    /\ UNCHANGED <<slot_count, slots, writerVars, flushing, emitted, stopVars>>

IntervalEnds ==
    /\ apc = "sleep"
    /\ apc' = "check"
    /\ UNCHANGED <<slot_count, slots, writerVars, acount, aidx, flushing, emitted, stopVars>>

\* The value of every counter in use.
Values == [i \in Slots |-> IF slots[i].in_use THEN slots[i].value ELSE -1]

\* stop() and the drop of the handle, which joins the thread after it.
Stop ==
    /\ ~stop
    /\ stop' = TRUE
    /\ at_stop' = Values
    /\ UNCHANGED <<slot_count, slots, writerVars, aggregatorVars, joining>>

\* A plausible bug: the join without the stop.
DropHandle_JoinOnly ==
    /\ ~joining
    /\ joining' = TRUE
    /\ UNCHANGED <<slot_count, slots, writerVars, aggregatorVars, stop, at_stop>>

DropHandle ==
    /\ ~joining
    /\ joining' = TRUE /\ stop' = TRUE
    /\ at_stop' = IF stop THEN at_stop ELSE Values
    /\ UNCHANGED <<slot_count, slots, writerVars, aggregatorVars>>

-----------------------------------------------------------------------------
Register(w) ==
    \/ \E l \in Labels : RegisterClaim(w, l)
    \/ RegisterRollback(w) \/ RegisterFill(w) \/ RegisterPublish(w)

Update(w) ==
    \/ \E i \in Slots, n \in 1..MaxValue : Add(w, i, n) \/ RecordMaxLoad(w, i, n)
    \/ CasSucceeds(w) \/ CasFails(w)

Aggregator ==
    \/ CheckStop \/ SnapshotCount \/ SnapshotFlags \/ SnapshotRead \/ SnapshotEnd
    \/ IntervalEnds

Next ==
    \/ \E w \in Writers : Register(w) \/ Update(w)
    \/ Aggregator \/ Stop \/ DropHandle

Spec == Init /\ [][Next]_vars

\* The scheduler runs the aggregator thread.
FairSpec == Spec /\ WF_vars(Aggregator)

-----------------------------------------------------------------------------
(***************************************************************************)
(* Properties.                                                             *)
(***************************************************************************)

TypeOK ==
    /\ slot_count \in Nat
    /\ slots \in [Slots -> [label : Labels \cup {NoLabel}, in_use : BOOLEAN, value : Nat]]
    /\ call \in [Writers -> [step : {"none", "rollback", "fill", "publish", "cas"},
                              idx : Slots, label : Labels \cup {NoLabel},
                              current : Nat, value : Nat]]
    /\ handles \in [Writers -> SUBSET Slots]
    /\ apc \in {"check", "count", "flags", "read", "sleep", "done"}
    /\ acount \in 0..Capacity /\ aidx \in 0..Capacity
    /\ apc = "read" => aidx \in Slots
    /\ flushing \in BOOLEAN
    /\ emitted \in [Labels \cup {NoLabel} -> Nat \cup {-1}]
    /\ stop \in BOOLEAN /\ joining \in BOOLEAN
    /\ at_stop \in [Slots -> Nat \cup {-1}]

Registering(w) == call[w].step \in {"fill", "publish"}
Taken(w) == handles[w] \cup (IF Registering(w) THEN {call[w].idx} ELSE {})
AllTaken == UNION {Taken(w) : w \in Writers}
Refused == {w \in Writers : call[w].step = "rollback"}

NoSharing ==
    /\ \A v, w \in Writers : v # w => Taken(v) \cap Taken(w) = {}
    /\ \A w \in Writers : Registering(w) => call[w].idx \notin handles[w]

\* No slot is given to two register calls, however increments and rollbacks of
\* slot_count interleave: two counters would share a value.  A registration is
\* refused only when every slot is taken, and what is left of refused calls never
\* makes a free slot unreachable (register and its rollback).
SlotsExclusive ==
    /\ NoSharing
    /\ Refused # {} => AllTaken = Slots
    /\ slot_count < Capacity => slot_count \notin AllTaken

\* A snapshot shows only counters that were registered, with a value they have
\* reached, never a slot whose label is still to be written; and when the
\* aggregator has ended, what it reported covers every update made before it was
\* told to stop (snapshot, the final flush of worker_loop).
ShownIsRegistered ==
    /\ emitted[NoLabel] = -1
    /\ \A l \in Labels : emitted[l] >= 0 =>
          \E i \in Slots : slots[i].in_use /\ slots[i].label = l /\ emitted[l] <= slots[i].value
SnapshotsFaithful ==
    /\ ShownIsRegistered
    /\ apc = "done" => \A i \in Slots : at_stop[i] <= emitted[slots[i].label]

\* A record_max that returns leaves the counter at its value or above, whatever
\* updates raced with it, and no update ever makes a counter go down again
\* (record_max's exchange).
MaximaKept ==
    /\ \A i \in Slots : slots'[i].value >= slots[i].value
    /\ \A w \in Writers :
          call[w].step = "cas" /\ call'[w] = NoCall
              => slots'[call[w].idx].value >= call[w].value
HighWater == [][MaximaKept]_vars

\* slot_count is the number of slots given away plus the refused calls that have
\* not taken their increment back, and slots are given away in order.
Claimed == slot_count - Cardinality(Refused)
TableConsistent ==
    /\ Claimed \in 0..Capacity
    /\ AllTaken = 0..(Claimed - 1)
    /\ Refused # {} => Claimed = Capacity

\* A slot in use has its label, and is somebody's.
LabelsWritten ==
    /\ \A i \in Slots : slots[i].in_use => slots[i].label \in Labels /\ i \in HandedOut
    /\ \A w \in Writers : Registering(w) => call[w].label \in Labels
    /\ \A w \in Writers : call[w].step = "publish" =>
          slots[call[w].idx].label = call[w].label

\* An exchange is only ever tried to raise the counter.
ExchangeRaises == \A w \in Writers : call[w].step = "cas" => call[w].value > call[w].current

\* The final flush began after the stop, goes through all the counters there were,
\* and has reported those it has passed.
FlushCovers ==
    /\ apc = "done" => flushing
    /\ flushing => stop
    /\ apc = "read" => slots[aidx].in_use
    /\ \A i \in Slots : at_stop[i] >= 0 =>
          /\ stop /\ slots[i].in_use /\ at_stop[i] <= slots[i].value
          /\ flushing /\ apc \in {"flags", "read"} => i < acount
          /\ flushing /\ apc \in {"flags", "read"} /\ i < aidx =>
                at_stop[i] <= emitted[slots[i].label]
          /\ apc = "done" => at_stop[i] <= emitted[slots[i].label]

\* The inductive invariant (the code it is about: register, record_max and
\* worker_loop).
IInv ==
    /\ TypeOK
    /\ TableConsistent /\ NoSharing
    /\ LabelsWritten
    /\ ExchangeRaises
    /\ ShownIsRegistered /\ FlushCovers

\* Dropping the handle returns: the thread it joins ends.
DropReturns == joining ~> apc = "done"
===============================================================================
