---------------------------- MODULE DstRunner_proofs ----------------------------
(***************************************************************************)
(* Proofs about DstRunner, for every non-empty finite set of consumers,    *)
(* number of messages, and choice of backends, kinds of run, ring depths   *)
(* and corrupted sequences.                                                *)
(***************************************************************************)
EXTENDS DstRunner, FiniteSetTheorems, TLAPS

LEMMA ReportTypes ==
    /\ NoReport \in Reports /\ <<>> \in Seq(Messages)
    /\ \A m \in Seq(Messages) : Report(m) \in Reports
  BY DEF NoReport, Report, Reports

LEMMA CountFacts == MessageCount \in Nat /\ MessageCount > 0 /\ 0 \in Sequences
  BY CountAssumption DEF Sequences

LEMMA DepthFacts == TypeOK => EffectiveDepth \in Nat \ {0}
  BY CountFacts DEF TypeOK, EffectiveDepth

\* The states of a consumer.
Steps == {"down", "attach", "signal", "consume", "empty", "truncate", "write", "leave",
          "report", "done", "dead"}

LEMMA Quotient ==
    ASSUME NEW x \in Nat, NEW d \in Nat \ {0}
    PROVE  (x \div d) \in Nat /\ (x \div d) * d <= x /\ (x \div d) * d \in Nat
<1>1. x = d * (x \div d) + (x % d) /\ (x % d) \in 0..(d - 1)
  OBVIOUS
<1>2. x \div d \in Int /\ x \div d >= 0
  OBVIOUS
<1>3. QED
  BY <1>1, <1>2

LEMMA SmallQuotient ==
    ASSUME NEW x \in Nat, NEW d \in Nat \ {0}, x < d
    PROVE  x \div d = 0 /\ x % d = x
  OBVIOUS

\* A nonempty set of cursors has a least one.
LEMMA MinIsLeast ==
    ASSUME NEW S, S # {}, S \subseteq 0..MessageCount
    PROVE  Min(S) \in S /\ \A s \in S : Min(S) <= s
<1> DEFINE Domain == 0..MessageCount
           UpTo(s) == 0..s
           R == StrictSubsetOrdering(Domain)
           T == {UpTo(s) : s \in S}
<1>0. MessageCount \in Nat
  BY CountFacts
<1>1. T \subseteq SUBSET Domain /\ T # {}
  <2>1. ASSUME NEW s \in S PROVE UpTo(s) \subseteq Domain
    BY <1>0
  <2>2. QED
    BY <2>1
<1>2. PICK X \in T : \A Y \in T : ~ (<<Y, X>> \in R)
  <2>1. IsFiniteSet(Domain)
    BY <1>0, FS_Interval
  <2>2. T \subseteq FiniteSubsetsOf(Domain)
    BY <1>1, <2>1, FS_FiniteSubsetsOfFinite
  <2>3. IsWellFoundedOn(R, FiniteSubsetsOf(Domain))
    BY FS_StrictSubsetOrderingWellFounded
  <2> HIDE DEF R, T, Domain
  <2>4. QED
    BY <1>1, <2>2, <2>3, WFMin
<1>3. PICK m \in S : X = UpTo(m)
  OBVIOUS
<1>4. \A s \in S : m <= s
  <2>1. SUFFICES ASSUME NEW s \in S, s < m PROVE FALSE
    BY <1>0
  <2>2. UpTo(s) \subseteq UpTo(m) /\ UpTo(s) # UpTo(m)
    BY <2>1, <1>0
  <2>3. UpTo(s) \in SUBSET Domain /\ UpTo(m) \in SUBSET Domain
    BY <1>1
  <2>4. <<UpTo(s), UpTo(m)>> \in R
    BY <2>2, <2>3 DEF StrictSubsetOrdering
  <2>5. QED
    BY <1>2, <1>3, <2>4
<1>5. QED
  BY <1>4 DEF Min

LEMMA InitEstablishes == Init => RunConsistent
<1> SUFFICES ASSUME Init PROVE RunConsistent
  OBVIOUS
<1>1. TypeOK
  <2>0. /\ backend \in {"shm", "mmap"} /\ fault \in FaultKinds /\ corrupt \in 0..MessageCount
        /\ ring_depth \in Nat \ {0}
    BY RunsAssumption DEF Init
  <2>1. /\ ring \in Seq(Messages) /\ {sequence_start, published} \subseteq Sequences
        /\ pmsgs \in Seq(Messages) /\ pfile \in Reports /\ partial_p \in Reports
        /\ resets \in 0..1
    BY ReportTypes, CountFacts DEF Init
  <2>2. /\ cursor \in [Consumers -> 0..MessageCount]
        /\ \A c \in Consumers : cursor[c] <= Len(ring)
        /\ cmsgs \in [Consumers -> Seq(Messages)] /\ cfile \in [Consumers -> Reports]
        /\ partial_c \in [Consumers -> Reports]
        /\ received \in [Consumers -> SUBSET Sequences]
    BY ReportTypes, CountFacts DEF Init
  <2>3. {signals, clear} \subseteq Nat
    BY <2>0, CountFacts DEF Init, EffectiveDepth
  <2>4. QED
    BY <2>0, <2>1, <2>2, <2>3 DEF Init, TypeOK
<1>2. PhaseConsistent
  BY DEF Init, PhaseConsistent, Judged
<1>3. RingConsistent
  BY CountFacts DEF Init, RingConsistent
<1>4. QED
  BY <1>1, <1>2, <1>3 DEF RunConsistent

-----------------------------------------------------------------------------
(* The children. *)

LEMMA PublishKeepsRun ==
    ASSUME RunConsistent, PPublish
    PROVE  RunConsistent'
<1> DEFINE s == sequence_start + Len(ring)
           m == Message(s)
           p == [seq |-> s, good |-> TRUE]
<1>1. /\ TypeOK /\ PhaseConsistent /\ RingConsistent
      /\ pstep = "publish" /\ s < MessageCount
      /\ ring' = Append(ring, m) /\ pmsgs' = Append(pmsgs, p) /\ pstep' \in {"publish", "truncate"}
      /\ UNCHANGED <<runVars, sequence_start, pfile, completed, claimVars, consumerVars,
                     orchestratorVars>>
  BY DEF RunConsistent, PPublish
<1>2. /\ Len(ring) \in Nat /\ sequence_start \in Nat /\ s \in Sequences
      /\ m \in Messages /\ p \in Messages /\ m.seq = s
  <2>1. Len(ring) \in Nat /\ sequence_start \in Nat
    BY <1>1, CountFacts DEF TypeOK, Sequences
  <2>2. s \in Sequences
    BY <1>1, <2>1, CountFacts DEF Sequences
  <2>3. QED
    BY <2>1, <2>2 DEF Messages, Message
<1> HIDE DEF m, p
<1>3. /\ ring' \in Seq(Messages) /\ Len(ring') = Len(ring) + 1 /\ ring'[Len(ring) + 1] = m
      /\ \A i \in 1..Len(ring) : ring'[i] = ring[i]
      /\ pmsgs' \in Seq(Messages)
  BY <1>1, <1>2 DEF TypeOK
<1>4. TypeOK'
  <2>1. \A c \in Consumers : cursor[c] <= Len(ring')
    BY <1>1, <1>2, <1>3, CountFacts DEF TypeOK
  <2>2. QED
    BY <1>1, <1>3, <2>1
       DEF TypeOK, runVars, claimVars, consumerVars, readerVars, orchestratorVars, repairVars
<1>5. PhaseConsistent'
  BY <1>1 DEF PhaseConsistent, Judged, runVars, consumerVars, readerVars, orchestratorVars, repairVars
<1>6. RingConsistent'
  <2>1. ASSUME NEW i \in 1..Len(ring') PROVE ring'[i].seq = sequence_start + i - 1
    <3>1. CASE i \in 1..Len(ring)
      BY <1>1, <1>3, <3>1 DEF RingConsistent
    <3>2. CASE i = Len(ring) + 1
      BY <1>2, <1>3, <3>2
    <3>3. QED
      BY <1>2, <1>3, <3>1, <3>2
  <2>2. sequence_start + Len(ring') <= MessageCount
    BY <1>1, <1>2, <1>3, CountFacts
  <2>3. QED
    BY <1>1, <2>1, <2>2 DEF RingConsistent, consumerVars, orchestratorVars, repairVars
<1>7. QED
  BY <1>4, <1>5, <1>6 DEF RunConsistent

\* The least cursor the producer has found.
LEMMA RearType ==
    ASSUME TypeOK, NEW g, g \in Found
    PROVE  g \subseteq Consumers /\ Rear(g) \in Nat
<1>1. g \subseteq Consumers
  BY DEF Found, TypeOK
<1>2. CASE g # {}
  <2> DEFINE S == {cursor[c] : c \in g}
  <2>1. S # {} /\ S \subseteq 0..MessageCount
    BY <1>1, <1>2 DEF TypeOK
  <2>2. Min(S) \in S
    BY <2>1, MinIsLeast
  <2>3. Rear(g) = Min(S)
    BY <1>2 DEF Rear
  <2> HIDE DEF S
  <2>4. Min(S) \in 0..MessageCount
    BY <2>1, <2>2, Zenon
  <2>5. Min(S) \in Nat
    BY <2>4, CountFacts
  <2>6. QED
    BY <1>1, <2>3, <2>5, Zenon
<1>3. CASE g = {}
  <2>1. Len(ring) \in Nat
    BY DEF TypeOK
  <2>2. QED
    BY <1>1, <1>3, <2>1 DEF Rear
<1>4. QED
  BY <1>2, <1>3

LEMMA ClaimKeepsRun ==
    ASSUME RunConsistent, PClaim
    PROVE  RunConsistent'
<1>1. /\ TypeOK /\ PhaseConsistent /\ RingConsistent
      /\ UNCHANGED <<runVars, ring, sequence_start, pstep, pmsgs, pfile, completed, consumerVars,
                     orchestratorVars>>
  BY DEF RunConsistent, PClaim
<1>2. PICK g \in Found : /\ gating' = g
                         /\ \/ clear' = Rear(g) + EffectiveDepth /\ unguarded' \in BOOLEAN
                            \/ UNCHANGED <<clear, unguarded>>
  BY <1>1 DEF PClaim, TypeOK
<1>3. gating' \subseteq Consumers /\ clear' \in Nat /\ unguarded' \in BOOLEAN
  <2>1. g \subseteq Consumers /\ Rear(g) \in Nat /\ EffectiveDepth \in Nat
    BY <1>1, <1>2, RearType, DepthFacts
  <2>2. clear \in Nat /\ unguarded \in BOOLEAN
    BY <1>1 DEF TypeOK
  <2>3. Rear(g) + EffectiveDepth \in Nat
    BY <2>1
  <2>4. QED
    BY <1>2, <2>1, <2>2, <2>3
<1>4. TypeOK'
  BY <1>1, <1>3 DEF TypeOK, runVars, consumerVars, readerVars, orchestratorVars, repairVars
<1>5. PhaseConsistent'
  BY <1>1 DEF PhaseConsistent, Judged, runVars, consumerVars, readerVars, orchestratorVars, repairVars
<1>6. RingConsistent'
  BY <1>1 DEF RingConsistent, consumerVars, orchestratorVars, repairVars
<1>7. QED
  BY <1>4, <1>5, <1>6 DEF RunConsistent

LEMMA ProducerKeepsRun ==
    ASSUME RunConsistent, PStart \/ PStartUnready \/ PTruncate \/ PWrite \/ PLeave \/ PReport
    PROVE  RunConsistent'
<1>1. /\ TypeOK /\ PhaseConsistent /\ RingConsistent
      /\ UNCHANGED <<runVars, ring, sequence_start, pmsgs, claimVars, consumerVars,
                     orchestratorVars>>
      /\ pstep \notin {"dead", "done"}
      /\ pstep' \in {"publish", "write", "report", "leave", "done", "dead"}
      /\ pstep' \in {"report", "leave", "done"} =>
            pstep \in {"leave", "report"} \/ sequence_start + Len(ring) = MessageCount
      /\ pfile' \in {pfile, NoReport, Report(pmsgs)}
      /\ completed' = completed \/ (completed' = (resets = 0) /\ pstep' = "done")
  BY DEF RunConsistent, PStart, PStartUnready, PTruncate, PWrite, PLeave, PReport
<1>2. resets \in 0..1 /\ completed \in BOOLEAN /\ completed' \in BOOLEAN
  BY <1>1 DEF TypeOK
<1>3. TypeOK'
  <2>1. pfile' \in Reports
    BY <1>1, ReportTypes DEF TypeOK
  <2>2. QED
    BY <1>1, <1>2, <2>1
       DEF TypeOK, runVars, claimVars, consumerVars, readerVars, orchestratorVars, repairVars
<1>4. PhaseConsistent'
  BY <1>1 DEF PhaseConsistent, Judged, runVars, consumerVars, readerVars, orchestratorVars, repairVars
<1>5. RingConsistent'
  <2>1. completed' => pstep' = "done" /\ resets = 0
    BY <1>1, <1>2 DEF RingConsistent
  <2>2. completed => completed'
    BY <1>1, <1>2 DEF RingConsistent
  <2>3. QED
    BY <1>1, <2>1, <2>2 DEF RingConsistent, consumerVars, orchestratorVars, repairVars
<1>6. QED
  BY <1>3, <1>4, <1>5 DEF RunConsistent

\* What a consumer reads is always some message, if not its own.
LEMMA SlotInRing ==
    ASSUME TypeOK, NEW i \in 1..Len(ring)
    PROVE  Lapped(i) \in 1..Len(ring)
<1> DEFINE x == Len(ring) - i
           d == EffectiveDepth
<1>1. Len(ring) \in Nat
  BY DEF TypeOK
<1>2. x \in Nat /\ d \in Nat \ {0}
  BY <1>1, DepthFacts
<1> HIDE DEF d
<1>3. (x \div d) * d <= x /\ (x \div d) * d \in Nat
  BY <1>2, Quotient
<1>4. \A q \in Nat : q <= x => i + q \in 1..Len(ring)
  BY <1>1
<1>5. Lapped(i) = i + (x \div d) * d
  BY DEF Lapped, d
<1> HIDE DEF x
<1>6. QED
  BY <1>3, <1>4, <1>5

LEMMA ContentsAreMessages ==
    ASSUME RunConsistent, NEW i \in 1..Len(ring), NEW m \in Contents(i)
    PROVE  /\ m \in Messages
           /\ m = ring[Lapped(i)] \/ m = Message(sequence_start + Len(ring)) \/ m.good = FALSE
<1> DEFINE old == ring[Lapped(i)]
           s == sequence_start + Len(ring)
<1>1. TypeOK /\ ring \in Seq(Messages) /\ Len(ring) \in Nat /\ sequence_start \in Nat
  BY CountFacts DEF RunConsistent, TypeOK, Sequences
<1>2. old \in Messages /\ old.seq \in Sequences
  <2>1. Lapped(i) \in 1..Len(ring)
    BY <1>1, SlotInRing
  <2>2. old \in Messages
    BY <1>1, <2>1
  <2>3. QED
    BY <2>2 DEF Messages
<1>3. m = old \/ (Overwriting(i) /\ m \in {Message(s)} \cup [seq : {old.seq, s}, good : {FALSE}])
  BY DEF Contents
<1>4. Overwriting(i) => s \in Sequences
  BY <1>1, CountFacts DEF Overwriting, Sequences
<1>5. s \in Sequences => Message(s) \in Messages
  BY DEF Message, Messages
<1> HIDE DEF old, s
<1>6. m \in Messages
  <2>1. CASE m = old
    BY <1>2, <2>1
  <2>2. CASE Overwriting(i) /\ m = Message(s)
    BY <1>4, <1>5, <2>2
  <2>3. CASE Overwriting(i) /\ m \in [seq : {old.seq, s}, good : {FALSE}]
    BY <1>2, <1>4, <2>3 DEF Messages
  <2>4. QED
    BY <1>3, <2>1, <2>2, <2>3
<1>7. m = old \/ m = Message(s) \/ m.good = FALSE
  BY <1>3
<1>8. QED
  BY <1>6, <1>7 DEF old, s

LEMMA ConsumeKeepsRun ==
    ASSUME RunConsistent, NEW c \in Consumers, CConsume(c)
    PROVE  RunConsistent'
<1>1. /\ TypeOK /\ PhaseConsistent /\ RingConsistent
      /\ cstep[c] \in {"consume", "empty"} /\ cursor[c] < Len(ring)
      /\ cursor' = [cursor EXCEPT ![c] = cursor[c] + 1]
      /\ grace' = grace \ {c}
      /\ UNCHANGED <<runVars, producerVars, attached, cfile, signals, hasty, orchestratorVars>>
  BY DEF RunConsistent, CConsume
<1>2. PICK m \in Contents(cursor[c] + 1) :
         /\ received' = [received EXCEPT ![c] = received[c] \cup {m.seq}]
         /\ cmsgs' = [cmsgs EXCEPT ![c] = Append(cmsgs[c], m)] \/ cmsgs' = cmsgs
         /\ \E s \in {"consume", "truncate", "dead"} : cstep' = [cstep EXCEPT ![c] = s]
  BY DEF CConsume
<1>3. /\ Len(ring) \in Nat /\ cursor[c] \in Nat /\ cursor[c] + 1 \in 1..Len(ring)
      /\ cursor[c] + 1 \in 0..MessageCount
  BY <1>1, CountFacts DEF TypeOK, RingConsistent, Sequences
<1>4. m \in Messages /\ m.seq \in Sequences
  <2>1. m \in Messages
    BY <1>3, ContentsAreMessages
  <2>2. QED
    BY <2>1 DEF Messages
<1>5. PICK s \in {"consume", "truncate", "dead"} : cstep' = [cstep EXCEPT ![c] = s]
  BY <1>2
<1>6. TypeOK'
  <2>1. cursor' \in [Consumers -> 0..MessageCount] /\ \A d \in Consumers : cursor'[d] <= Len(ring)
    BY <1>1, <1>3 DEF TypeOK
  <2>2. cmsgs' \in [Consumers -> Seq(Messages)]
    <3>1. Append(cmsgs[c], m) \in Seq(Messages) /\ cmsgs \in [Consumers -> Seq(Messages)]
      BY <1>1, <1>4 DEF TypeOK
    <3>2. QED
      BY <1>2, <3>1
  <2>3. received' \in [Consumers -> SUBSET Sequences]
    BY <1>1, <1>2, <1>4 DEF TypeOK
  <2>4. cstep' \in [Consumers -> Steps]
    BY <1>1, <1>5 DEF TypeOK, Steps
  <2>5. QED
    BY <1>1, <2>1, <2>2, <2>3, <2>4
       DEF TypeOK, Steps, runVars, producerVars, claimVars, orchestratorVars, repairVars
<1>7. PhaseConsistent'
  <2>1. \A d \in Consumers : cstep[d] = "done" => cstep'[d] = "done"
    BY <1>1, <1>5 DEF TypeOK
  <2>2. QED
    BY <1>1, <2>1 DEF PhaseConsistent, Judged, runVars, producerVars, orchestratorVars, repairVars
<1>8. RingConsistent'
  BY <1>1 DEF RingConsistent, producerVars, orchestratorVars, repairVars
<1>9. QED
  BY <1>6, <1>7, <1>8 DEF RunConsistent

\* What the other steps of a consumer have in common.
ConsumerSteps(c) ==
    \/ CAttach(c) \/ CAttachFails(c) \/ CSignal(c) \/ CTruncate(c) \/ CWrite(c) \/ CFinish(c)
    \/ CLook(c) \/ CGrace(c) \/ CLeave(c) \/ CTimesOut(c)

LEMMA ConsumerKeepsRun ==
    ASSUME RunConsistent, NEW c \in Consumers, ConsumerSteps(c)
    PROVE  RunConsistent'
<1>1. /\ TypeOK /\ PhaseConsistent /\ RingConsistent
      /\ UNCHANGED <<runVars, producerVars, cursor, cmsgs, received, orchestratorVars>>
      /\ attached' \in {attached, attached \cup {c}} /\ signals' \in {signals, signals + 1}
      /\ cstep[c] # "done"
      /\ grace' = grace \/ (completed /\ grace' = grace \cup {c})
      /\ hasty' = hasty \/ (completed /\ hasty' = hasty \cup {c})
      /\ \E s \in {"signal", "consume", "empty", "dead", "write", "report", "done", "leave"} :
            cstep' = [cstep EXCEPT ![c] = s]
      /\ cfile' \in {cfile, [cfile EXCEPT ![c] = NoReport], [cfile EXCEPT ![c] = Report(cmsgs[c])]}
  <2>1. CASE CAttach(c) \/ CAttachFails(c) \/ CSignal(c)
    BY <2>1 DEF RunConsistent, CAttach, CAttachFails, CSignal, readerVars
  <2>2. CASE CTruncate(c) \/ CWrite(c) \/ CFinish(c) \/ CLook(c)
    BY <2>2 DEF RunConsistent, CTruncate, CWrite, CFinish, CLook, readerVars
  <2>3. CASE CGrace(c) \/ CLeave(c) \/ CTimesOut(c)
    BY <2>3 DEF RunConsistent, CGrace, CLeave, CTimesOut, readerVars
  <2>4. QED
    BY <2>1, <2>2, <2>3 DEF ConsumerSteps
<1>2. cfile' \in [Consumers -> Reports]
  <2>1. cmsgs[c] \in Seq(Messages)
    BY <1>1 DEF TypeOK
  <2>2. QED
    BY <1>1, <2>1, ReportTypes DEF TypeOK
<1>3. cstep' \in [Consumers -> Steps] /\ \A d \in Consumers : cstep[d] = "done" => cstep'[d] = "done"
  BY <1>1 DEF TypeOK, Steps
<1>4. TypeOK'
  <2>1. signals' \in Nat /\ attached' \subseteq Consumers /\ grace' \subseteq Consumers
        /\ hasty' \subseteq Consumers
    BY <1>1 DEF TypeOK
  <2>2. QED
    BY <1>1, <1>2, <1>3, <2>1
       DEF TypeOK, Steps, runVars, producerVars, claimVars, orchestratorVars, repairVars
<1>5. PhaseConsistent'
  BY <1>1, <1>3 DEF PhaseConsistent, Judged, runVars, producerVars, orchestratorVars, repairVars
<1>6. RingConsistent'
  <2>1. grace' # {} \/ hasty' # {} => completed
    BY <1>1 DEF RingConsistent
  <2>2. QED
    BY <1>1, <2>1 DEF RingConsistent, producerVars, orchestratorVars, repairVars
<1>7. QED
  BY <1>4, <1>5, <1>6 DEF RunConsistent

-----------------------------------------------------------------------------
(* The orchestrator. *)

LEMMA WaitKeepsRun ==
    ASSUME RunConsistent, NoFault \/ AwaitProducer \/ Verify \/ WaitTimesOut
    PROVE  RunConsistent'
<1>1. /\ TypeOK /\ PhaseConsistent /\ RingConsistent
      /\ UNCHANGED <<runVars, producerVars, consumerVars, repairVars>>
      /\ phase' \in {"await_producer", "await_consumers", "ok", "violation", "error"}
      /\ phase' \in {"ok", "violation"} => \A c \in Consumers : cstep[c] = "done"
      /\ phase' \in {"await_consumers", "ok", "violation"} =>
            pstep = "done" \/ phase = "await_consumers"
  BY DEF RunConsistent, NoFault, AwaitProducer, Verify, WaitTimesOut
<1>2. TypeOK'
  BY <1>1 DEF TypeOK, runVars, producerVars, claimVars, consumerVars, readerVars, repairVars
<1>3. PhaseConsistent'
  BY <1>1 DEF PhaseConsistent, Judged, runVars, producerVars, consumerVars, readerVars, repairVars
<1>4. RingConsistent'
  BY <1>1 DEF RingConsistent, producerVars, consumerVars, repairVars
<1>5. QED
  BY <1>2, <1>3, <1>4 DEF RunConsistent

\* Where a restarted producer starts: nothing that a report lists is published again.
LEMMA RestartSequence ==
    ASSUME RunConsistent, phase = "started", NEW r \in Reports
    PROVE  RestartSequenceStart(r) \in Nat
<1>1. NextSequence(r.msgs) \in Nat
  <2>1. r.msgs \in Seq(Messages)
    BY DEF Reports
  <2>2. CASE r.msgs = <<>>
    BY <2>2 DEF NextSequence
  <2>3. CASE r.msgs # <<>>
    <3>1. Last(r.msgs) \in Messages
      BY <2>1, <2>3 DEF Last
    <3>2. Last(r.msgs).seq \in Nat
      BY <3>1, CountFacts DEF Messages, Sequences
    <3>3. QED
      BY <2>3, <3>2 DEF NextSequence
  <2>4. QED
    BY <2>2, <2>3
<1> DEFINE N == {NextSequence(partial_c[c].msgs) : c \in Consumers} \cup {NextSequence(r.msgs)}
<1>2. \A c \in Consumers : NextSequence(partial_c[c].msgs) = 0
  BY DEF RunConsistent, PhaseConsistent, NoReport, NextSequence
<1>3. N = {0, NextSequence(r.msgs)}
  BY <1>2, ConsumersAssumption
<1>4. RestartSequenceStart(r) = CHOOSE s \in N : \A t \in N : t <= s
  BY DEF RestartSequenceStart
<1> HIDE DEF N
<1>5. \E s \in N : \A t \in N : t <= s
  BY <1>1, <1>3
<1>6. RestartSequenceStart(r) \in N
  BY <1>4, <1>5
<1>7. QED
  BY <1>1, <1>3, <1>6

LEMMA KillProducerKeepsRun ==
    ASSUME RunConsistent, KillProducer
    PROVE  RunConsistent'
<1>1. /\ TypeOK /\ PhaseConsistent /\ RingConsistent
      /\ phase = "started" /\ fault = "producer_kill"
      /\ \/ phase' = "error" /\ UNCHANGED <<pstep, published, partial_p>>
         \/ /\ pstep # "done" /\ ~(RestartSequenceStart(pfile) >= MessageCount)
            /\ phase' = "kill_consumers" /\ pstep' = "dead"
            /\ partial_p' = pfile
            /\ published' = RestartSequenceStart(pfile)
      /\ UNCHANGED <<runVars, ring, sequence_start, pmsgs, pfile, completed, claimVars,
                     consumerVars, resets, partial_c, restarted>>
  BY DEF RunConsistent, KillProducer
<1>2. TypeOK'
  <2>1. published' \in Sequences /\ partial_p' \in Reports
    <3>1. RestartSequenceStart(pfile) \in Nat /\ pfile \in Reports
      BY <1>1, RestartSequence DEF TypeOK
    <3>2. QED
      BY <1>1, <3>1, CountFacts DEF TypeOK, Sequences
  <2>2. QED
    BY <1>1, <2>1 DEF TypeOK, runVars, claimVars, consumerVars, readerVars
<1>3. PhaseConsistent'
  BY <1>1 DEF PhaseConsistent, Judged, runVars, consumerVars, readerVars
<1>4. RingConsistent'
  BY <1>1 DEF RingConsistent, consumerVars
<1>5. QED
  BY <1>2, <1>3, <1>4 DEF RunConsistent

\* A killed consumer's last checkpoint is its partial report.
Killed(c) ==
    /\ partial_c' = [partial_c EXCEPT ![c] = cfile[c]]
    /\ restarted' = restarted \cup {c}
    /\ cfile' = [cfile EXCEPT ![c] = NoReport]
    /\ cstep' = [cstep EXCEPT ![c] = "down"]
    /\ hasty' = hasty \ {c}

LEMMA KillConsumerKeepsRun ==
    ASSUME RunConsistent, NEW c \in Consumers, KillConsumer(c) \/ KillOneConsumer(c)
    PROVE  RunConsistent'
<1>1. /\ TypeOK /\ PhaseConsistent /\ RingConsistent
      /\ phase \in {"started", "kill_consumers"}
      /\ UNCHANGED <<runVars, producerVars, readerVars, cmsgs, grace, resets, published, partial_p>>
      /\ \/ phase' = "error" /\ UNCHANGED <<partial_c, restarted, cfile, cstep, hasty>>
         \/ /\ phase' = "respawn" \/ (phase = "kill_consumers" /\ phase' = phase)
            /\ Killed(c)
  BY DEF RunConsistent, KillConsumer, KillOneConsumer, Kill, Killed
<1>2. /\ partial_c' \in [Consumers -> Reports] /\ cfile' \in [Consumers -> Reports]
      /\ restarted' \subseteq Consumers /\ hasty' \subseteq hasty
      /\ cstep' \in [Consumers -> Steps]
  <2>1. CASE UNCHANGED <<partial_c, restarted, cfile, cstep, hasty>>
    BY <1>1, <2>1 DEF TypeOK, Steps
  <2>2. CASE Killed(c)
    <3>1. partial_c' \in [Consumers -> Reports] /\ cfile' \in [Consumers -> Reports]
      <4>1. /\ partial_c \in [Consumers -> Reports] /\ cfile \in [Consumers -> Reports]
            /\ cfile[c] \in Reports /\ NoReport \in Reports
        BY <1>1, ReportTypes DEF TypeOK
      <4>2. QED
        BY <2>2, <4>1 DEF Killed
    <3>2. restarted' \subseteq Consumers /\ hasty' \subseteq hasty
      BY <1>1, <2>2 DEF TypeOK, Killed
    <3>3. cstep' \in [Consumers -> Steps]
      BY <1>1, <2>2 DEF TypeOK, Steps, Killed
    <3>4. QED
      BY <3>1, <3>2, <3>3
  <2>3. QED
    BY <1>1, <2>1, <2>2
<1>3. resets = 0
  BY <1>1 DEF PhaseConsistent
<1>4. TypeOK'
  BY <1>1, <1>2 DEF TypeOK, Steps, runVars, producerVars, claimVars, readerVars
<1>5. PhaseConsistent'
  BY <1>1, <1>3 DEF PhaseConsistent, Judged, Killed, runVars, producerVars
<1>6. RingConsistent'
  BY <1>1, <1>2 DEF RingConsistent, producerVars
<1>7. QED
  BY <1>4, <1>5, <1>6 DEF RunConsistent

LEMMA RespawnKeepsRun ==
    ASSUME RunConsistent, Respawn
    PROVE  RunConsistent'
<1>1. /\ TypeOK /\ PhaseConsistent /\ RingConsistent
      /\ phase = "kill_consumers" /\ restarted = Consumers
      /\ phase' = "await_producer" /\ resets' = resets + 1
      /\ ring' = <<>> /\ sequence_start' = published
      /\ pstep' = "attach" /\ pmsgs' = <<>> /\ pfile' = NoReport
      /\ signals' = 0 /\ gating' = {} /\ clear' = EffectiveDepth
      /\ cstep' = [c \in Consumers |-> "attach"] /\ attached' = {} /\ grace' = {}
      /\ cursor' = [c \in Consumers |-> 0] /\ cmsgs' = [c \in Consumers |-> <<>>]
      /\ received' = [c \in Consumers |-> {}]
      /\ UNCHANGED <<runVars, completed, cfile, hasty, unguarded, published, partial_p, partial_c,
                     restarted>>
  BY DEF RunConsistent, Respawn
<1>2. resets' = 1 /\ ~completed /\ fault = "producer_kill"
  BY <1>1 DEF PhaseConsistent, RingConsistent
<1>3. TypeOK'
  <2>1. /\ Len(<<>>) = 0 /\ <<>> \in Seq(Messages) /\ NoReport \in Reports
        /\ published \in Sequences /\ 0 \in 0..MessageCount
    BY <1>1, ReportTypes, CountFacts DEF TypeOK
  <2>2. /\ cursor' \in [Consumers -> 0..MessageCount]
        /\ \A c \in Consumers : cursor'[c] <= Len(ring')
        /\ cmsgs' \in [Consumers -> Seq(Messages)]
        /\ cstep' \in [Consumers -> Steps] /\ received' \in [Consumers -> SUBSET Sequences]
    BY <1>1, <2>1 DEF Steps
  <2>3. {signals', clear'} \subseteq Nat
    BY <1>1, DepthFacts
  <2>4. QED
    BY <1>1, <1>2, <2>1, <2>2, <2>3 DEF TypeOK, Steps, runVars
<1>4. PhaseConsistent'
  BY <1>1, <1>2 DEF PhaseConsistent, Judged, runVars
<1>5. RingConsistent'
  <2>1. published \in 0..(MessageCount - 1)
    BY <1>1 DEF TypeOK, Sequences
  <2>2. Len(ring') = 0 /\ \A i \in 1..Len(ring') : FALSE
    BY <1>1
  <2>3. sequence_start' + Len(ring') <= MessageCount
    BY <1>1, <2>1, <2>2, CountFacts
  <2>4. QED
    BY <1>1, <1>2, <2>2, <2>3 DEF RingConsistent
<1>6. QED
  BY <1>3, <1>4, <1>5 DEF RunConsistent

LEMMA RestartKeepsRun ==
    ASSUME RunConsistent, RestartConsumer
    PROVE  RunConsistent'
<1>1. /\ TypeOK /\ PhaseConsistent /\ RingConsistent
      /\ phase = "respawn" /\ phase' = "await_producer"
      /\ cstep' = [c \in Consumers |-> IF c \in restarted THEN "attach" ELSE cstep[c]]
      /\ cmsgs' = [c \in Consumers |-> IF c \in restarted THEN <<>> ELSE cmsgs[c]]
      /\ grace' = grace \ restarted
      /\ UNCHANGED <<runVars, producerVars, readerVars, cfile, hasty, repairVars>>
  BY DEF RunConsistent, RestartConsumer
<1>2. cmsgs' \in [Consumers -> Seq(Messages)] /\ cstep' \in [Consumers -> Steps]
  BY <1>1, ReportTypes DEF TypeOK, Steps
<1>3. TypeOK'
  BY <1>1, <1>2 DEF TypeOK, Steps, runVars, producerVars, claimVars, readerVars, repairVars
<1>4. PhaseConsistent'
  BY <1>1 DEF PhaseConsistent, Judged, runVars, producerVars, repairVars
<1>5. RingConsistent'
  BY <1>1 DEF RingConsistent, producerVars, repairVars
<1>6. QED
  BY <1>3, <1>4, <1>5 DEF RunConsistent

LEMMA StepKeepsRun ==
    ASSUME RunConsistent, [Next]_vars
    PROVE  RunConsistent'
<1>1. CASE Producer
  BY <1>1, PublishKeepsRun, ClaimKeepsRun, ProducerKeepsRun DEF Producer
<1>2. CASE Orchestrator
  BY <1>2, WaitKeepsRun, KillProducerKeepsRun, KillConsumerKeepsRun,
     RespawnKeepsRun, RestartKeepsRun DEF Orchestrator
<1>3. CASE WaitTimesOut
  BY <1>3, WaitKeepsRun
<1>4. ASSUME NEW c \in Consumers, Consumer(c) \/ CTimesOut(c)
      PROVE  RunConsistent'
  BY <1>4, ConsumeKeepsRun, ConsumerKeepsRun DEF Consumer, ConsumerSteps
<1>5. CASE UNCHANGED vars
  <2>1. TypeOK'
    BY <1>5 DEF RunConsistent, TypeOK, vars, runVars, producerVars, claimVars, consumerVars,
                readerVars, orchestratorVars, repairVars
  <2>2. PhaseConsistent' /\ RingConsistent'
    BY <1>5 DEF RunConsistent, PhaseConsistent, Judged, RingConsistent, vars, runVars,
                producerVars, consumerVars, readerVars, orchestratorVars, repairVars
  <2>3. QED
    BY <2>1, <2>2 DEF RunConsistent
<1>6. QED
  BY <1>1, <1>2, <1>3, <1>4, <1>5 DEF Next

-----------------------------------------------------------------------------
(* The window of the producer. *)

\* The consumers with a cursor that have signalled, or have no signal to give.
Signalled == {c \in attached : cstep[c] # "signal"}

LEMMA InitWindow == Init => WindowConsistent
<1> SUFFICES ASSUME Init PROVE WindowConsistent
  OBVIOUS
<1>1. TypeOK /\ EffectiveDepth \in Nat \ {0}
  BY InitEstablishes, DepthFacts DEF RunConsistent
<1>2. Len(ring) = 0 /\ clear = EffectiveDepth /\ \A c \in Consumers : cursor[c] = 0
  BY DEF Init
<1>3. signals <= Cardinality({c \in attached : cstep[c] # "signal"})
  <2>1. {c \in attached : cstep[c] # "signal"} = {} /\ signals = 0
    BY DEF Init
  <2>2. Cardinality({}) = 0
    BY FS_EmptySet
  <2>3. QED
    BY <2>1, <2>2
<1>4. QED
  BY <1>1, <1>2, <1>3 DEF Init, WindowConsistent

\* What a consumer's step means for the signals: with a finite set of consumers, more of
\* them can only be counted.
LEMMA MoreSignalled ==
    ASSUME TypeOK, TypeOK', Signalled \subseteq Signalled'
    PROVE  Cardinality(Signalled) <= Cardinality(Signalled')
<1>1. Signalled' \subseteq Consumers /\ IsFiniteSet(Consumers)
  BY ConsumersAssumption DEF TypeOK, Signalled
<1>2. QED
  BY <1>1, FS_Subset

LEMMA ClaimKeepsWindow ==
    ASSUME RunConsistent, WindowConsistent, PClaim
    PROVE  WindowConsistent'
<1>1. /\ TypeOK /\ pstep = "publish" /\ sequence_start + Len(ring) < MessageCount
      /\ Len(ring) >= clear
      /\ UNCHANGED <<runVars, ring, sequence_start, pstep, pmsgs, pfile, completed, consumerVars,
                     orchestratorVars>>
  BY DEF RunConsistent, PClaim
<1>2. UNCHANGED <<backend, fault, EffectiveDepth, Waits, ring, pstep, cursor, attached, cstep,
                  signals>>
  BY <1>1 DEF runVars, consumerVars, readerVars, EffectiveDepth, Waits
<1>3. PICK g \in Found :
         \/ /\ Rear(g) + EffectiveDepth > Len(ring)
            /\ clear' = Rear(g) + EffectiveDepth
            /\ unguarded' = (unguarded \/ \E c \in Consumers : cursor[c] < Rear(g))
         \/ UNCHANGED <<clear, unguarded>>
  BY DEF PClaim
<1>4. CASE UNCHANGED <<clear, unguarded>>
  BY <1>2, <1>4 DEF WindowConsistent
<1>5. CASE /\ Rear(g) + EffectiveDepth > Len(ring)
           /\ clear' = Rear(g) + EffectiveDepth
           /\ unguarded' = (unguarded \/ \E c \in Consumers : cursor[c] < Rear(g))
  <2> DEFINE d == EffectiveDepth
             r == Rear(g)
             n == Len(ring)
  <2>1. /\ d \in Nat /\ r \in Nat /\ n \in Nat /\ g \subseteq Consumers
        /\ \A c \in Consumers : cursor[c] \in Nat
    BY <1>1, DepthFacts, RearType, CountFacts DEF TypeOK
  <2>2. d < MessageCount
    <3>1. d <= clear /\ clear \in Nat /\ sequence_start \in Nat
      BY <1>1, CountFacts DEF WindowConsistent, TypeOK, Sequences
    <3> HIDE DEF d
    <3>2. QED
      BY <1>1, <2>1, <3>1, CountFacts
  <2> HIDE DEF d, r, n
  <2>3. d <= clear' /\ n <= clear'
    BY <1>5, <2>1 DEF d, r, n
  <2>4. ~unguarded' => \A c \in Consumers : clear' <= cursor[c] + d
    <3> SUFFICES ASSUME ~unguarded', NEW c \in Consumers PROVE r + d <= cursor[c] + d
      BY <1>5 DEF r, d
    <3>1. ~(cursor[c] < r)
      BY <1>5 DEF r
    <3>2. QED
      BY <2>1, <3>1
  <2>5. unguarded' /\ Waits => backend = "shm"
    <3> SUFFICES ASSUME Waits, backend = "mmap" PROVE ~unguarded'
      BY <1>1 DEF TypeOK
    <3>1. ~unguarded /\ g = attached /\ attached = Consumers
      BY <1>1 DEF WindowConsistent, Found
    <3> DEFINE S == {cursor[c] : c \in g}
    <3>2. S # {} /\ S \subseteq 0..MessageCount
      BY <1>1, <3>1, ConsumersAssumption DEF TypeOK
    <3>3. \A s \in S : Min(S) <= s
      BY <3>2, MinIsLeast
    <3>4. r = Min(S)
      BY <3>1, ConsumersAssumption DEF Rear, r
    <3>5. \A c \in Consumers : cursor[c] \in S
      BY <3>1
    <3> HIDE DEF S
    <3>6. \A c \in Consumers : ~(cursor[c] < r)
      BY <2>1, <3>3, <3>4, <3>5
    <3>7. QED
      BY <1>5, <3>1, <3>6 DEF r
  <2>6. QED
    BY <1>2, <2>2, <2>3, <2>4, <2>5 DEF WindowConsistent, d, n
<1>6. QED
  BY <1>3, <1>4, <1>5

LEMMA PublishKeepsWindow ==
    ASSUME RunConsistent, WindowConsistent, PPublish
    PROVE  WindowConsistent'
<1>1. /\ TypeOK /\ Len(ring) < clear /\ pstep = "publish" /\ pstep' \in {"publish", "truncate"}
      /\ Len(ring') = Len(ring) + 1
      /\ UNCHANGED <<runVars, claimVars, consumerVars>>
  BY DEF RunConsistent, TypeOK, PPublish
<1>2. UNCHANGED <<backend, fault, EffectiveDepth, Waits, clear, unguarded, cursor, attached, cstep,
                  signals>>
  BY <1>1 DEF runVars, claimVars, consumerVars, readerVars, EffectiveDepth, Waits
<1>3. Len(ring') <= clear
  BY <1>1 DEF TypeOK
<1>4. QED
  BY <1>1, <1>2, <1>3 DEF WindowConsistent

\* A wait that ends with enough signals ends with every consumer there.
LEMMA StartFindsAll ==
    ASSUME RunConsistent, WindowConsistent, PStart, Waits, backend = "mmap"
    PROVE  attached = Consumers
<1>1. signals >= Cardinality(Consumers) /\ signals <= Cardinality(Signalled) /\ signals \in Nat
  BY DEF PStart, WindowConsistent, Signalled, RunConsistent, TypeOK
<1>2. Signalled \subseteq attached /\ attached \subseteq Consumers
  BY DEF Signalled, RunConsistent, TypeOK
<1>3. IsFiniteSet(Consumers)
  BY ConsumersAssumption
<1>4. /\ Cardinality(Signalled) \in Nat /\ Cardinality(Consumers) \in Nat
      /\ Cardinality(Signalled) = Cardinality(Consumers) => Signalled = Consumers
      /\ Cardinality(Signalled) <= Cardinality(Consumers)
  BY <1>2, <1>3, FS_Subset, FS_CardinalityType
<1>5. \A a, b, n \in Nat : n >= b /\ n <= a /\ a <= b => a = b
  OBVIOUS
<1>6. Cardinality(Signalled) = Cardinality(Consumers)
  BY <1>1, <1>4, <1>5, Zenon
<1>7. QED
  BY <1>2, <1>4, <1>6

LEMMA ProducerKeepsWindow ==
    ASSUME RunConsistent, WindowConsistent,
           PStart \/ PStartUnready \/ PTruncate \/ PWrite \/ PLeave \/ PReport
    PROVE  WindowConsistent'
<1>1. UNCHANGED <<runVars, ring, claimVars, consumerVars>>
  BY DEF PStart, PStartUnready, PTruncate, PWrite, PLeave, PReport
<1>2. UNCHANGED <<backend, fault, EffectiveDepth, Waits, ring, clear, unguarded, cursor, attached,
                  cstep, signals>>
  BY <1>1 DEF runVars, claimVars, consumerVars, readerVars, EffectiveDepth, Waits
<1>3. \/ pstep \notin {"attach", "dead"}
      \/ PStart
      \/ pstep' = "dead" /\ backend = "mmap"
      \/ backend # "mmap"
  BY DEF PStart, PStartUnready, PTruncate, PWrite, PLeave, PReport
<1>4. backend = "mmap" /\ Waits /\ pstep' \notin {"attach", "dead"} => attached = Consumers
  BY <1>3, StartFindsAll DEF WindowConsistent
<1>5. QED
  BY <1>2, <1>4 DEF WindowConsistent

\* A step of a consumer changes its own state only.
LEMMA ConsumerKeepsWindow ==
    ASSUME RunConsistent, RunConsistent', WindowConsistent, NEW c \in Consumers,
           CConsume(c) \/ ConsumerSteps(c)
    PROVE  WindowConsistent'
<1>1. /\ UNCHANGED <<runVars, producerVars>>
      /\ cursor' = cursor \/ cursor' = [cursor EXCEPT ![c] = cursor[c] + 1]
      /\ attached' \in {attached, attached \cup {c}}
      /\ \E s \in Steps : cstep' = [cstep EXCEPT ![c] = s] /\ (s = "signal" => c \in attached')
      /\ \/ /\ signals' = signals
            /\ backend = "mmap" /\ c \in attached /\ cstep[c] # "signal" => cstep'[c] # "signal"
         \/ /\ signals' = signals + 1 /\ cstep[c] = "signal" /\ cstep'[c] # "signal"
            /\ attached' = attached
  <2>0. cstep \in [Consumers -> Steps] /\ backend \in {"shm", "mmap"}
    BY DEF RunConsistent, TypeOK, Steps
  <2>1. CASE CAttachFails(c) \/ CTruncate(c) \/ CWrite(c) \/ CFinish(c) \/ CLook(c) \/ CTimesOut(c)
    BY <2>0, <2>1 DEF CAttachFails, CTruncate, CWrite, CFinish, CLook, CTimesOut, Steps, readerVars
  <2>2. CASE CGrace(c) \/ CLeave(c)
    BY <2>0, <2>2 DEF CGrace, CLeave, Steps, readerVars
  <2>3. CASE CSignal(c)
    BY <2>0, <2>3 DEF CSignal, Steps
  <2>4. CASE CConsume(c)
    BY <2>0, <2>4 DEF CConsume, Steps
  <2>5. CASE CAttach(c)
    BY <2>0, <2>5 DEF CAttach, Steps
  <2>6. QED
    BY <2>1, <2>2, <2>3, <2>4, <2>5 DEF ConsumerSteps
<1>2. PICK s \in Steps : cstep' = [cstep EXCEPT ![c] = s] /\ (s = "signal" => c \in attached')
  BY <1>1
<1>3. /\ cstep'[c] = s /\ \A d \in Consumers : d # c => cstep'[d] = cstep[d]
      /\ attached \subseteq attached' /\ attached' \subseteq attached \cup {c}
      /\ attached' \subseteq Consumers
  BY <1>1, <1>2 DEF RunConsistent, TypeOK
<1>4. UNCHANGED <<backend, fault, EffectiveDepth, Waits, ring, clear, unguarded, pstep>>
  BY <1>1 DEF runVars, producerVars, claimVars, EffectiveDepth, Waits
<1>5. \A d \in Consumers : cstep'[d] = "signal" => d \in attached'
  BY <1>2, <1>3 DEF WindowConsistent
<1>6. ASSUME backend = "mmap" PROVE signals' <= Cardinality(Signalled')
  <2>1. signals <= Cardinality(Signalled) /\ signals \in Nat
    BY <1>6 DEF WindowConsistent, Signalled, RunConsistent, TypeOK
  <2>2. /\ IsFiniteSet(Signalled) /\ IsFiniteSet(Signalled')
        /\ Cardinality(Signalled) \in Nat /\ Cardinality(Signalled') \in Nat
    <3>1. Signalled \subseteq Consumers /\ Signalled' \subseteq Consumers
      BY <1>3 DEF Signalled, RunConsistent, TypeOK
    <3>2. QED
      BY <3>1, ConsumersAssumption, FS_Subset, FS_CardinalityType
  <2>3. CASE /\ signals' = signals
             /\ backend = "mmap" /\ c \in attached /\ cstep[c] # "signal" => cstep'[c] # "signal"
    <3>1. Signalled \subseteq Signalled'
      BY <1>3, <1>6, <2>3 DEF Signalled, RunConsistent, TypeOK
    <3>2. Cardinality(Signalled) <= Cardinality(Signalled')
      BY <3>1, MoreSignalled DEF RunConsistent
    <3>3. \A a, b, n \in Nat : n <= a /\ a <= b => n <= b
      OBVIOUS
    <3>4. QED
      BY <2>1, <2>2, <2>3, <3>2, <3>3, Zenon
  <2>4. CASE /\ signals' = signals + 1 /\ cstep[c] = "signal" /\ cstep'[c] # "signal"
             /\ attached' = attached
    <3>1. c \in attached
      BY <2>4 DEF WindowConsistent
    <3>2. Signalled' = Signalled \cup {c} /\ c \notin Signalled
      BY <1>3, <2>4, <3>1 DEF Signalled, RunConsistent, TypeOK
    <3>3. Cardinality(Signalled') = Cardinality(Signalled) + 1
      BY <2>2, <3>2, FS_AddElement
    <3>4. \A a, n \in Nat : n <= a => n + 1 <= a + 1
      OBVIOUS
    <3>5. signals + 1 <= Cardinality(Signalled) + 1
      BY <2>1, <2>2, <3>4, Zenon
    <3>6. QED
      BY <2>4, <3>3, <3>5, Zenon
  <2>5. QED
    BY <1>1, <2>3, <2>4
<1>7. backend = "mmap" /\ Waits /\ pstep \notin {"attach", "dead"} => attached' = Consumers
  BY <1>3 DEF WindowConsistent
<1>8. ASSUME ~unguarded, NEW d \in Consumers PROVE clear <= cursor'[d] + EffectiveDepth
  <2>1. clear <= cursor[d] + EffectiveDepth /\ cursor[d] \in Nat /\ clear \in Nat
    BY <1>8, CountFacts DEF WindowConsistent, RunConsistent, TypeOK
  <2>2. cursor'[d] = cursor[d] \/ cursor'[d] = cursor[d] + 1
    BY <1>1 DEF RunConsistent, TypeOK
  <2>3. EffectiveDepth \in Nat
    BY DepthFacts DEF RunConsistent
  <2> HIDE DEF EffectiveDepth
  <2>4. QED
    BY <2>1, <2>2, <2>3
<1>9. QED
  BY <1>4, <1>5, <1>6, <1>7, <1>8 DEF WindowConsistent, Signalled

LEMMA OrchestratorKeepsWindow ==
    ASSUME RunConsistent, RunConsistent', WindowConsistent, Orchestrator \/ WaitTimesOut, ~Respawn
    PROVE  WindowConsistent'
<1>1. /\ UNCHANGED <<runVars, ring, claimVars, readerVars>>
      /\ pstep' = pstep \/ pstep' = "dead"
      /\ \A d \in Consumers : cstep'[d] = "signal" => cstep[d] = "signal"
  <2>1. CASE NoFault \/ AwaitProducer \/ Verify \/ WaitTimesOut
    BY <2>1 DEF NoFault, AwaitProducer, Verify, WaitTimesOut, producerVars, consumerVars
  <2>2. CASE KillProducer
    BY <2>2 DEF KillProducer, consumerVars
  <2>3. CASE \E c \in Consumers : KillConsumer(c) \/ KillOneConsumer(c)
    BY <2>3 DEF KillConsumer, KillOneConsumer, Kill, producerVars, RunConsistent, TypeOK
  <2>4. CASE RestartConsumer
    BY <2>4 DEF RestartConsumer, producerVars
  <2>5. QED
    BY <2>1, <2>2, <2>3, <2>4 DEF Orchestrator
<1>2. UNCHANGED <<backend, fault, EffectiveDepth, Waits, ring, clear, unguarded, cursor, attached,
                  signals>>
  BY <1>1 DEF runVars, claimVars, readerVars, EffectiveDepth, Waits
<1>3. ASSUME backend = "mmap" PROVE signals <= Cardinality(Signalled')
  <2>1. signals <= Cardinality(Signalled) /\ signals \in Nat
    BY <1>3 DEF WindowConsistent, Signalled, RunConsistent, TypeOK
  <2>2. Cardinality(Signalled) \in Nat /\ Cardinality(Signalled') \in Nat
    <3>1. Signalled \subseteq Consumers /\ Signalled' \subseteq Consumers
      BY DEF Signalled, RunConsistent, TypeOK
    <3>2. QED
      BY <3>1, ConsumersAssumption, FS_Subset, FS_CardinalityType
  <2>3. Signalled \subseteq Signalled'
    BY <1>1, <1>2 DEF Signalled, RunConsistent, TypeOK
  <2>4. Cardinality(Signalled) <= Cardinality(Signalled')
    BY <2>3, MoreSignalled DEF RunConsistent
  <2>5. \A a, b, n \in Nat : n <= a /\ a <= b => n <= b
    OBVIOUS
  <2>6. QED
    BY <2>1, <2>2, <2>4, <2>5, Zenon
<1>4. \A d \in Consumers : cstep'[d] = "signal" => d \in attached
  BY <1>1 DEF WindowConsistent
<1>5. QED
  BY <1>1, <1>2, <1>3, <1>4 DEF WindowConsistent, Signalled

LEMMA RespawnKeepsWindow ==
    ASSUME RunConsistent, WindowConsistent, Respawn
    PROVE  WindowConsistent'
<1>1. /\ ring' = <<>> /\ pstep' = "attach" /\ signals' = 0 /\ clear' = EffectiveDepth
      /\ cstep' = [c \in Consumers |-> "attach"] /\ attached' = {}
      /\ cursor' = [c \in Consumers |-> 0]
      /\ UNCHANGED <<runVars, unguarded>>
  BY DEF Respawn
<1>2. UNCHANGED <<backend, fault, EffectiveDepth, Waits, unguarded>>
  BY <1>1 DEF runVars, EffectiveDepth, Waits
<1>3. EffectiveDepth \in Nat /\ Len(<<>>) = 0
  BY DepthFacts DEF RunConsistent
<1>4. {c \in attached' : cstep'[c] # "signal"} = {} /\ Cardinality({}) = 0
  BY <1>1, FS_EmptySet
<1>5. \A c \in Consumers : cursor'[c] = 0 /\ cstep'[c] = "attach"
  BY <1>1
<1> HIDE DEF EffectiveDepth
<1>6. /\ EffectiveDepth' <= clear' /\ Len(ring') <= clear'
      /\ \A c \in Consumers : clear' <= cursor'[c] + EffectiveDepth'
  BY <1>1, <1>2, <1>3, <1>5
<1>7. signals' <= Cardinality({c \in attached' : cstep'[c] # "signal"})
  BY <1>1, <1>4
<1>8. QED
  BY <1>1, <1>2, <1>5, <1>6, <1>7 DEF WindowConsistent

LEMMA StepKeepsWindow ==
    ASSUME RunConsistent, WindowConsistent, [Next]_vars
    PROVE  WindowConsistent'
<1>1. RunConsistent'
  BY StepKeepsRun
<1>2. CASE Producer
  BY <1>2, PublishKeepsWindow, ClaimKeepsWindow, ProducerKeepsWindow DEF Producer
<1>3. CASE Orchestrator \/ WaitTimesOut
  BY <1>1, <1>3, OrchestratorKeepsWindow, RespawnKeepsWindow
<1>4. ASSUME NEW c \in Consumers, Consumer(c) \/ CTimesOut(c)
      PROVE  WindowConsistent'
  BY <1>1, <1>4, ConsumerKeepsWindow DEF Consumer, ConsumerSteps
<1>5. CASE UNCHANGED vars
  <2>1. UNCHANGED <<backend, fault, EffectiveDepth, Waits, ring, pstep, clear, unguarded, cursor,
                    attached, cstep, signals>>
    BY <1>5 DEF vars, runVars, producerVars, claimVars, consumerVars, readerVars, EffectiveDepth,
                Waits
  <2>2. QED
    BY <2>1 DEF WindowConsistent
<1>6. QED
  BY <1>2, <1>3, <1>4, <1>5 DEF Next

-----------------------------------------------------------------------------
(* What the runner makes of reports whose sequences follow each other. *)

\* The places of msgs the filter keeps are those from a to b.
Keeps(msgs, S, a, b) ==
    /\ a \in Nat \ {0} /\ b \in 0..Len(msgs) /\ a <= b + 1
    /\ \A i \in 1..Len(msgs) : msgs[i].seq \in S <=> i \in a..b

LEMMA FilterInterval ==
    ASSUME NEW msgs \in Seq(Messages), NEW S, NEW a, NEW b, Keeps(msgs, S, a, b)
    PROVE  Filter(msgs, S) = SubSeq(msgs, a, b)
<1> DEFINE kept == {i \in DOMAIN msgs : msgs[i].seq \in S}
           Place(i) == Cardinality({j \in kept : j <= i})
<1>1. /\ a \in Nat /\ b \in Nat /\ a >= 1 /\ a <= b + 1 /\ b <= Len(msgs)
      /\ kept = a..b
  BY DEF Keeps
<1>2. Cardinality(kept) = b - a + 1
  <2>1. Cardinality(a..b) = IF a > b THEN 0 ELSE b - a + 1
    BY <1>1, FS_Interval
  <2> HIDE DEF kept
  <2>2. QED
    BY <1>1, <2>1
<1>3. ASSUME NEW i \in a..b PROVE Place(i) = i - a + 1
  <2> HIDE DEF kept
  <2>1. {j \in kept : j <= i} = a..i
    BY <1>1
  <2>2. Cardinality(a..i) = IF a > i THEN 0 ELSE i - a + 1
    BY <1>1, FS_Interval
  <2>3. Place(i) = Cardinality(a..i)
    BY <2>1, Zenon
  <2> HIDE DEF Place
  <2>4. QED
    BY <1>1, <2>2, <2>3
<1>4. ASSUME NEW k \in 1..(b - a + 1) PROVE (CHOOSE i \in kept : Place(i) = k) = a + k - 1
  <2> HIDE DEF kept, Place
  <2>1. a + k - 1 \in kept /\ Place(a + k - 1) = k
    BY <1>1, <1>3
  <2>2. \A i \in kept : Place(i) = k => i = a + k - 1
    BY <1>1, <1>3
  <2>3. QED
    BY <2>1, <2>2
<1>5. Filter(msgs, S) = [k \in 1..Cardinality(kept) |-> msgs[CHOOSE i \in kept : Place(i) = k]]
  BY DEF Filter
<1> HIDE DEF kept, Place
<1>6. Filter(msgs, S) = [k \in 1..(b - a + 1) |-> msgs[a + k - 1]]
  BY <1>2, <1>4, <1>5
<1>7. SubSeq(msgs, a, b) = [k \in 1..(b - a + 1) |-> msgs[a + k - 1]]
  BY <1>1
<1>8. QED
  BY <1>6, <1>7

LEMMA NextOfConsecutive ==
    ASSUME NEW msgs \in Seq(Messages), \A i \in 1..Len(msgs) : msgs[i].seq = i - 1
    PROVE  NextSequence(msgs) = Len(msgs)
<1>1. msgs # <<>> => Len(msgs) \in 1..Len(msgs)
  OBVIOUS
<1>2. QED
  BY <1>1 DEF NextSequence, Last

\* Two reports that overlap or meet become one that runs to the end of the second.
LEMMA ConcatConsecutive ==
    ASSUME NEW prefix \in Seq(Messages), NEW suffix \in Seq(Messages), NEW first \in Nat,
           \A i \in 1..Len(prefix) : prefix[i].seq = i - 1,
           \A i \in 1..Len(suffix) : suffix[i].seq = first + i - 1,
           first <= Len(prefix), Len(prefix) <= first + Len(suffix)
    PROVE  /\ Concat(prefix, suffix) \in Seq(Messages)
           /\ Len(Concat(prefix, suffix)) = first + Len(suffix)
           /\ \A i \in 1..(first + Len(suffix)) :
                 Concat(prefix, suffix)[i] = IF i <= Len(prefix) THEN prefix[i] ELSE suffix[i - first]
<1> DEFINE p == Len(prefix)
           S == {s \in Nat : s >= p}
           rest == SubSeq(suffix, p - first + 1, Len(suffix))
<1>1. p \in Nat /\ Len(suffix) \in Nat
  OBVIOUS
<1>2. Keeps(suffix, S, p - first + 1, Len(suffix))
  BY <1>1 DEF Keeps
<1>3. Filter(suffix, S) = rest
  <2> HIDE DEF S
  <2>1. QED
    BY <1>2, FilterInterval
<1>4. Concat(prefix, suffix) = prefix \o rest
  BY <1>3, NextOfConsecutive DEF Concat
<1>5. /\ rest \in Seq(Messages) /\ Len(rest) = first + Len(suffix) - p
      /\ \A k \in 1..(first + Len(suffix) - p) : rest[k] = suffix[p - first + k]
  BY <1>1
<1> HIDE DEF rest
<1>6. prefix \o rest \in Seq(Messages) /\ Len(prefix \o rest) = first + Len(suffix)
  BY <1>1, <1>5
<1>7. ASSUME NEW i \in 1..(first + Len(suffix))
      PROVE  (prefix \o rest)[i] = IF i <= p THEN prefix[i] ELSE suffix[i - first]
  <2>1. CASE i <= p
    BY <1>1, <1>5, <2>1
  <2>2. CASE ~(i <= p)
    <3>1. (prefix \o rest)[i] = rest[i - p]
      BY <1>1, <1>5, <2>2
    <3>2. i - p \in 1..(first + Len(suffix) - p) /\ p - first + (i - p) = i - first
      BY <1>1, <2>2
    <3>3. rest[i - p] = suffix[i - first]
      BY <1>5, <3>2
    <3>4. QED
      BY <2>2, <3>1, <3>3, Zenon
  <2>3. QED
    BY <2>1, <2>2, Zenon
<1> HIDE DEF p
<1>8. QED
  BY <1>4, <1>6, <1>7 DEF p

\* Over the gap between two reports of a consumer, the producer's fills in.
LEMMA MergeConsecutive ==
    ASSUME NEW producer \in Seq(Messages), NEW prefix \in Seq(Messages),
           NEW suffix \in Seq(Messages), NEW first \in Nat,
           \A i \in 1..Len(producer) : producer[i].seq = i - 1,
           \A i \in 1..Len(prefix) : prefix[i].seq = i - 1,
           \A i \in 1..Len(suffix) : suffix[i].seq = first + i - 1,
           Len(prefix) <= Len(producer), first + Len(suffix) = Len(producer)
    PROVE  /\ Len(Merge(producer, prefix, suffix)) = Len(producer)
           /\ \A i \in 1..Len(producer) :
                 LET m == Merge(producer, prefix, suffix)[i] IN
                 \/ i <= Len(prefix) /\ m = prefix[i]
                 \/ m = producer[i]
                 \/ i > first /\ m = suffix[i - first]
<1> DEFINE p == Len(prefix)
           gap == p..(first - 1)
           b == IF p <= first THEN first ELSE p
           fill == SubSeq(producer, p + 1, b)
           mid == prefix \o fill
<1>1. p \in Nat /\ Len(suffix) \in Nat /\ Len(producer) \in Nat /\ b \in Nat
  OBVIOUS
<1>2. Merge(producer, prefix, suffix) = Concat(prefix \o Filter(producer, gap), suffix)
  <2>1. (IF suffix = <<>> THEN Len(producer) ELSE Head(suffix).seq) = first
    <3>1. suffix # <<>> => Len(suffix) > 0 /\ Head(suffix) = suffix[1] /\ suffix[1].seq = first
      OBVIOUS
    <3>2. suffix = <<>> => Len(producer) = first
      OBVIOUS
    <3>3. QED
      BY <3>1, <3>2
  <2>2. NextSequence(prefix) = p
    BY NextOfConsecutive
  <2>3. QED
    BY <2>1, <2>2 DEF Merge
<1>3. Filter(producer, gap) = fill
  <2>1. Keeps(producer, gap, p + 1, b)
    BY <1>1 DEF Keeps
  <2> HIDE DEF gap, b
  <2>2. QED
    BY <2>1, FilterInterval
<1>4. /\ fill \in Seq(Messages) /\ Len(fill) = b - p
      /\ \A k \in 1..(b - p) : fill[k] = producer[p + k]
  BY <1>1
<1> HIDE DEF fill
<1>5. /\ mid \in Seq(Messages) /\ Len(mid) = b
      /\ \A i \in 1..b : mid[i] = IF i <= p THEN prefix[i] ELSE fill[i - p]
  BY <1>1, <1>4
<1> HIDE DEF mid
<1>6. ASSUME NEW i \in 1..b
      PROVE  mid[i].seq = i - 1 /\ ((i <= p /\ mid[i] = prefix[i]) \/ mid[i] = producer[i])
  <2>1. CASE i <= p
    BY <1>1, <1>5, <2>1
  <2>2. CASE ~(i <= p)
    <3>1. mid[i] = fill[i - p]
      BY <1>5, <2>2
    <3>2. i - p \in 1..(b - p) /\ p + (i - p) = i
      BY <1>1, <2>2
    <3>3. fill[i - p] = producer[i]
      BY <1>4, <3>2
    <3>4. i \in 1..Len(producer)
      BY <1>1, <2>2
    <3>5. QED
      BY <3>1, <3>3, <3>4
  <2>3. QED
    BY <2>1, <2>2
<1>7. first <= Len(mid) /\ Len(mid) <= first + Len(suffix)
  BY <1>1, <1>5
<1>8. /\ Len(Concat(mid, suffix)) = Len(producer)
      /\ \A i \in 1..Len(producer) :
            Concat(mid, suffix)[i] = IF i <= b THEN mid[i] ELSE suffix[i - first]
  <2>1. mid \in Seq(Messages) /\ \A i \in 1..Len(mid) : mid[i].seq = i - 1
    BY <1>5, <1>6
  <2>2. /\ Len(Concat(mid, suffix)) = first + Len(suffix)
        /\ \A i \in 1..(first + Len(suffix)) :
              Concat(mid, suffix)[i] = IF i <= Len(mid) THEN mid[i] ELSE suffix[i - first]
    BY <1>7, <2>1, ConcatConsecutive
  <2>3. Len(mid) = b /\ first + Len(suffix) = Len(producer)
    BY <1>5
  <2> HIDE DEF b
  <2>4. QED
    BY <2>2, <2>3
<1>9. ASSUME NEW i \in 1..Len(producer)
      PROVE  LET m == Concat(mid, suffix)[i] IN
             \/ i <= Len(prefix) /\ m = prefix[i]
             \/ m = producer[i]
             \/ i > first /\ m = suffix[i - first]
  <2>1. CASE i <= b
    BY <1>1, <1>6, <1>8, <2>1
  <2>2. CASE ~(i <= b)
    BY <1>1, <1>8, <2>2
  <2>3. QED
    BY <2>1, <2>2
<1>10. Merge(producer, prefix, suffix) = Concat(mid, suffix)
  BY <1>2, <1>3 DEF mid
<1>11. QED
  BY <1>8, <1>9, <1>10

-----------------------------------------------------------------------------
(* The producer's reports, step by step. *)

LEMMA InitProducerReports == Init => ProducerReports /\ ProbeSeen /\ OracleRight
<1> SUFFICES ASSUME Init PROVE ProducerReports /\ ProbeSeen /\ OracleRight
  OBVIOUS
<1>1. Len(<<>>) = 0 /\ NoReport.msgs = <<>>
  BY DEF NoReport
<1>2. ProducerReports
  BY <1>1 DEF Init, ProducerReports, Published
<1>3. ProbeSeen
  BY <1>1 DEF Init, ProbeSeen
<1>4. OracleRight
  BY DEF Init, OracleRight
<1>5. QED
  BY <1>2, <1>3, <1>4

\* The published message is the next of the report.
LEMMA PublishKeepsProducer ==
    ASSUME RunConsistent, ProducerReports, PPublish
    PROVE  ProducerReports'
<1> DEFINE s == sequence_start + Len(ring)
           m == Message(s)
           p == [seq |-> s, good |-> TRUE]
<1>1. /\ ring' = Append(ring, m) /\ pmsgs' = Append(pmsgs, p)
      /\ UNCHANGED <<runVars, sequence_start, pfile, completed, consumerVars, orchestratorVars>>
  BY DEF PPublish
<1>2. /\ ring \in Seq(Messages) /\ pmsgs \in Seq(Messages) /\ Len(ring) \in Nat
      /\ Len(pmsgs) = Len(ring) /\ sequence_start \in Nat
  BY CountFacts DEF RunConsistent, TypeOK, ProducerReports, Sequences
<1>3. /\ Len(ring') = Len(ring) + 1 /\ Len(pmsgs') = Len(ring) + 1
      /\ ring'[Len(ring) + 1] = m /\ pmsgs'[Len(ring) + 1] = p
      /\ \A i \in 1..Len(ring) : ring'[i] = ring[i] /\ pmsgs'[i] = pmsgs[i]
  BY <1>1, <1>2
<1>4. Published(pmsgs', sequence_start)
  <2>1. ASSUME NEW i \in 1..(Len(ring) + 1)
        PROVE  pmsgs'[i] = [seq |-> sequence_start + i - 1, good |-> TRUE]
    <3>1. CASE i = Len(ring) + 1
      BY <1>2, <1>3, <3>1
    <3>2. CASE i \in 1..Len(ring)
      BY <1>2, <1>3, <3>2 DEF ProducerReports, Published
    <3>3. QED
      BY <1>2, <3>1, <3>2
  <2>2. QED
    BY <1>3, <2>1 DEF Published
<1>5. \A i \in 1..Len(ring') : ring'[i].good <=> ring'[i].seq # corrupt \/ resets > 0
  <2>1. ASSUME NEW i \in 1..(Len(ring) + 1)
        PROVE  ring'[i].good <=> ring'[i].seq # corrupt \/ resets > 0
    <3>1. CASE i = Len(ring) + 1
      <4>1. ring'[i] = m
        BY <1>3, <3>1
      <4>2. m.seq = s /\ m.good = (s # corrupt \/ resets > 0)
        BY DEF Message
      <4>3. QED
        BY <4>1, <4>2, Zenon
    <3>2. CASE i \in 1..Len(ring)
      BY <1>2, <1>3, <3>2 DEF ProducerReports
    <3>3. QED
      BY <1>2, <3>1, <3>2
  <2>2. QED
    BY <1>3, <2>1
<1>6. UNCHANGED <<corrupt, phase, sequence_start, resets, pfile, partial_p, published>>
  BY <1>1 DEF runVars, orchestratorVars, repairVars
<1>7. Len(pmsgs') = Len(ring') /\ Published(pmsgs', sequence_start')
  BY <1>3, <1>4, <1>6
<1>8. \A i \in 1..Len(ring') : ring'[i].good <=> ring'[i].seq # corrupt' \/ resets' > 0
  BY <1>5, <1>6
<1>9. QED
  BY <1>6, <1>7, <1>8 DEF ProducerReports, Published

\* A checkpoint is the report so far, or nothing.
LEMMA ProducerKeepsProducer ==
    ASSUME RunConsistent, ProducerReports,
           PClaim \/ PStart \/ PStartUnready \/ PTruncate \/ PWrite \/ PLeave \/ PReport
    PROVE  ProducerReports'
<1>1. /\ pfile'.msgs \in {pfile.msgs, <<>>, pmsgs}
      /\ UNCHANGED <<runVars, ring, sequence_start, pmsgs, orchestratorVars>>
  BY DEF PClaim, PStart, PStartUnready, PTruncate, PWrite, PLeave, PReport, NoReport, Report
<1>2. Published(pfile'.msgs, sequence_start)
  <2>1. Len(<<>>) = 0
    OBVIOUS
  <2>2. QED
    BY <1>1, <2>1 DEF ProducerReports, Published
<1>3. QED
  BY <1>1, <1>2 DEF ProducerReports, Published, runVars, orchestratorVars, repairVars

\* The producer starts again where its checkpoint ends, at 0 without one.
LEMMA RestartAfterReport ==
    ASSUME RunConsistent, ProducerReports, phase = "started"
    PROVE  RestartSequenceStart(pfile) = Len(pfile.msgs)
<1>1. pfile.msgs \in Seq(Messages) /\ \A i \in 1..Len(pfile.msgs) : pfile.msgs[i].seq = i - 1
  <2>1. pfile.msgs \in Seq(Messages) /\ sequence_start = 0
    BY DEF RunConsistent, TypeOK, Reports, PhaseConsistent, RingConsistent
  <2>2. \A i \in 1..Len(pfile.msgs) : pfile.msgs[i] = [seq |-> 0 + i - 1, good |-> TRUE]
    BY <2>1 DEF ProducerReports, Published
  <2>3. ASSUME NEW i \in 1..Len(pfile.msgs) PROVE pfile.msgs[i].seq = i - 1
    <3>1. pfile.msgs[i].seq = [seq |-> 0 + i - 1, good |-> TRUE].seq
      BY <2>2, Zenon
    <3>2. [seq |-> 0 + i - 1, good |-> TRUE].seq = i - 1
      BY <2>1
    <3>3. QED
      BY <3>1, <3>2
  <2>4. QED
    BY <2>1, <2>3
<1>2. NextSequence(pfile.msgs) = Len(pfile.msgs) /\ Len(pfile.msgs) \in Nat
  BY <1>1, NextOfConsecutive
<1> DEFINE N == {NextSequence(partial_c[c].msgs) : c \in Consumers} \cup {NextSequence(pfile.msgs)}
<1>3. \A c \in Consumers : NextSequence(partial_c[c].msgs) = 0
  BY DEF RunConsistent, PhaseConsistent, NoReport, NextSequence
<1>4. N = {0, Len(pfile.msgs)}
  BY <1>2, <1>3, ConsumersAssumption
<1>5. RestartSequenceStart(pfile) = CHOOSE s \in N : \A t \in N : t <= s
  BY DEF RestartSequenceStart
<1> HIDE DEF N
<1>6. Len(pfile.msgs) \in N /\ \A t \in N : t <= Len(pfile.msgs)
  BY <1>2, <1>4
<1>7. \A s \in N : (\A t \in N : t <= s) => s = Len(pfile.msgs)
  BY <1>2, <1>4
<1>8. QED
  BY <1>5, <1>6, <1>7

LEMMA KillProducerKeepsProducer ==
    ASSUME RunConsistent, ProducerReports, KillProducer
    PROVE  ProducerReports'
<1>1. /\ phase = "started"
      /\ \/ phase' = "error" /\ UNCHANGED <<published, partial_p>>
         \/ phase' = "kill_consumers" /\ partial_p' = pfile /\ published' = RestartSequenceStart(pfile)
      /\ UNCHANGED <<runVars, ring, sequence_start, pmsgs, pfile, resets>>
  BY DEF KillProducer
<1>2. resets = 0 /\ sequence_start = 0
  BY <1>1 DEF RunConsistent, PhaseConsistent, RingConsistent
<1>3. Published(partial_p'.msgs, 0)
  BY <1>1, <1>2 DEF ProducerReports, Published
<1>4. phase' = "kill_consumers" => published' = Len(partial_p'.msgs)
  BY <1>1, RestartAfterReport
<1>5. QED
  BY <1>1, <1>2, <1>3, <1>4 DEF ProducerReports, Published, runVars

\* The other steps of the orchestrator, those of the consumers, and a new segment.
LEMMA OthersKeepProducer ==
    ASSUME RunConsistent, ProducerReports,
           \/ NoFault \/ AwaitProducer \/ Verify \/ WaitTimesOut \/ RestartConsumer
           \/ \E c \in Consumers :
                 KillConsumer(c) \/ KillOneConsumer(c) \/ CConsume(c) \/ ConsumerSteps(c)
    PROVE  ProducerReports'
<1>1. /\ UNCHANGED <<runVars, producerVars, resets, published, partial_p>>
      /\ phase' = "kill_consumers" => phase = "kill_consumers"
      /\ phase' \notin {"kill_consumers", "error"} => phase \notin {"kill_consumers", "error"}
  <2>1. CASE NoFault \/ AwaitProducer \/ Verify \/ WaitTimesOut \/ RestartConsumer
    BY <2>1 DEF NoFault, AwaitProducer, Verify, WaitTimesOut, RestartConsumer, repairVars
  <2>2. CASE \E c \in Consumers : KillConsumer(c) \/ KillOneConsumer(c)
    BY <2>2 DEF KillConsumer, KillOneConsumer, Kill
  <2>3. CASE \E c \in Consumers : CConsume(c)
    BY <2>3 DEF CConsume, orchestratorVars, repairVars
  <2>4. CASE \E c \in Consumers : ConsumerSteps(c)
    BY <2>4 DEF ConsumerSteps, CAttach, CAttachFails, CSignal, CTruncate, CWrite, CFinish, CLook,
                CGrace, CLeave, CTimesOut, orchestratorVars, repairVars
  <2>5. QED
    BY <2>1, <2>2, <2>3, <2>4
<1>2. UNCHANGED <<corrupt, sequence_start, resets, ring, pmsgs, pfile, partial_p, published>>
  BY <1>1 DEF runVars, producerVars
<1>3. QED
  BY <1>1, <1>2 DEF ProducerReports, Published

LEMMA RespawnKeepsProducer ==
    ASSUME RunConsistent, ProducerReports, Respawn
    PROVE  ProducerReports'
<1>1. /\ phase = "kill_consumers" /\ resets' = resets + 1
      /\ ring' = <<>> /\ sequence_start' = published /\ pmsgs' = <<>> /\ pfile' = NoReport
      /\ UNCHANGED <<runVars, published, partial_p>>
  BY DEF Respawn
<1>2. resets' = 1
  BY <1>1 DEF RunConsistent, PhaseConsistent
<1>3. Len(<<>>) = 0 /\ NoReport.msgs = <<>>
  BY DEF NoReport
<1>4. QED
  BY <1>1, <1>2, <1>3 DEF ProducerReports, Published

LEMMA StepKeepsProducer ==
    ASSUME RunConsistent, ProducerReports, [Next]_vars
    PROVE  ProducerReports'
<1>1. CASE Producer
  BY <1>1, PublishKeepsProducer, ProducerKeepsProducer DEF Producer
<1>2. CASE Orchestrator
  BY <1>2, KillProducerKeepsProducer, OthersKeepProducer, RespawnKeepsProducer DEF Orchestrator
<1>3. CASE WaitTimesOut
  BY <1>3, OthersKeepProducer
<1>4. ASSUME NEW c \in Consumers, Consumer(c) \/ CTimesOut(c)
      PROVE  ProducerReports'
  BY <1>4, OthersKeepProducer DEF Consumer, ConsumerSteps
<1>5. CASE UNCHANGED vars
  <2>1. UNCHANGED <<corrupt, phase, sequence_start, resets, ring, pmsgs, pfile, partial_p, published>>
    BY <1>5 DEF vars, runVars, producerVars, orchestratorVars, repairVars
  <2>2. QED
    BY <2>1 DEF ProducerReports, Published
<1>6. QED
  BY <1>1, <1>2, <1>3, <1>4, <1>5 DEF Next

\* Nothing in a slot of the first segment passes for the undamaged message of the
\* damaged sequence, torn or not.
LEMMA SlotsShowProbe ==
    ASSUME RunConsistent, ProducerReports, resets = 0, NEW i \in 1..Len(ring),
           NEW m \in Contents(i), m.good
    PROVE  m.seq # corrupt
<1>1. Lapped(i) \in 1..Len(ring)
  BY SlotInRing DEF RunConsistent
<1>2. \/ m = ring[Lapped(i)]
      \/ m = Message(sequence_start + Len(ring))
  BY ContentsAreMessages
<1>3. CASE m = ring[Lapped(i)]
  BY <1>1, <1>3 DEF ProducerReports
<1>4. CASE m = Message(sequence_start + Len(ring))
  <2>1. m.good <=> m.seq # corrupt \/ resets > 0
    BY <1>4 DEF Message
  <2>2. QED
    BY <2>1
<1>5. QED
  BY <1>2, <1>3, <1>4

LEMMA StepKeepsProbe ==
    ASSUME RunConsistent, ProducerReports, ProbeSeen, [Next]_vars
    PROVE  ProbeSeen'
<1> DEFINE Seen(msgs) == \A i \in 1..Len(msgs) : msgs[i].good => msgs[i].seq # corrupt
<1>1. corrupt' = corrupt
  BY DEF Next, vars, Producer, Orchestrator, Consumer, PStart, PStartUnready, PClaim, PPublish,
         PTruncate, PWrite, PLeave, PReport, NoFault, KillProducer, KillConsumer, Respawn,
         KillOneConsumer, RestartConsumer, AwaitProducer, Verify, WaitTimesOut, CAttach,
         CAttachFails, CSignal, CConsume, CTruncate, CWrite, CFinish, CLook, CGrace, CLeave,
         CTimesOut, runVars
<1>2. \/ cmsgs' = cmsgs /\ resets' = resets
      \/ resets' # 0
      \/ RestartConsumer
      \/ \E c \in Consumers : CConsume(c)
  <2>1. CASE Producer
    BY <2>1 DEF Producer, PStart, PStartUnready, PClaim, PPublish, PTruncate, PWrite, PLeave,
                PReport, consumerVars, orchestratorVars, repairVars
  <2>2. CASE Respawn
    BY <2>2 DEF Respawn, RunConsistent, TypeOK
  <2>3. CASE (Orchestrator /\ ~Respawn) \/ WaitTimesOut
    BY <2>3 DEF Orchestrator, NoFault, KillProducer, KillConsumer, KillOneConsumer, AwaitProducer,
                Verify, WaitTimesOut, consumerVars, orchestratorVars, repairVars
  <2>4. CASE \E c \in Consumers : ConsumerSteps(c)
    BY <2>4 DEF ConsumerSteps, CAttach, CAttachFails, CSignal, CTruncate, CWrite, CFinish, CLook,
                CGrace, CLeave, CTimesOut, orchestratorVars, repairVars
  <2>5. CASE UNCHANGED vars
    BY <2>5 DEF vars, consumerVars, orchestratorVars, repairVars
  <2>6. QED
    BY <2>1, <2>2, <2>3, <2>4, <2>5 DEF Next, Consumer, ConsumerSteps
<1>3. CASE cmsgs' = cmsgs /\ resets' = resets
  BY <1>1, <1>3 DEF ProbeSeen
<1>4. CASE resets' # 0
  BY <1>4 DEF ProbeSeen
<1>5. CASE RestartConsumer
  <2>1. \A c \in Consumers : cmsgs'[c] = cmsgs[c] \/ cmsgs'[c] = <<>>
    BY <1>5 DEF RestartConsumer
  <2>2. resets' = resets /\ Len(<<>>) = 0
    BY <1>5 DEF RestartConsumer, repairVars
  <2>3. ASSUME resets = 0, NEW c \in Consumers PROVE Seen(cmsgs'[c])
    <3>1. Seen(cmsgs[c])
      BY <2>3 DEF ProbeSeen
    <3>2. QED
      BY <2>1, <2>2, <3>1
  <2>4. QED
    BY <1>1, <2>2, <2>3 DEF ProbeSeen
<1>6. ASSUME NEW c \in Consumers, CConsume(c) PROVE ProbeSeen'
  <2>0. resets' = resets
    BY <1>6 DEF CConsume, orchestratorVars, repairVars
  <2>1. SUFFICES ASSUME resets = 0 PROVE \A d \in Consumers : Seen(cmsgs'[d])
    BY <1>1, <2>0 DEF ProbeSeen
  <2>2. PICK m \in Contents(cursor[c] + 1) :
           \/ cmsgs' = [cmsgs EXCEPT ![c] = Append(cmsgs[c], m)]
           \/ cmsgs' = cmsgs
    BY <1>6 DEF CConsume
  <2>3. /\ cursor[c] + 1 \in 1..Len(ring) /\ cmsgs \in [Consumers -> Seq(Messages)]
        /\ cmsgs[c] \in Seq(Messages)
    BY <1>6, CountFacts DEF CConsume, RunConsistent, TypeOK
  <2>4. m \in Messages /\ (m.good => m.seq # corrupt)
    BY <2>1, <2>3, SlotsShowProbe, ContentsAreMessages
  <2>5. \A d \in Consumers : Seen(cmsgs[d])
    BY <2>1 DEF ProbeSeen
  <2>6. CASE cmsgs' = [cmsgs EXCEPT ![c] = Append(cmsgs[c], m)]
    <3>1. cmsgs'[c] = Append(cmsgs[c], m) /\ \A d \in Consumers : d # c => cmsgs'[d] = cmsgs[d]
      BY <2>3, <2>6
    <3>2. Seen(Append(cmsgs[c], m))
      <4> DEFINE old == cmsgs[c]
                 new == Append(cmsgs[c], m)
      <4>1. /\ Len(new) = Len(old) + 1 /\ Len(old) \in Nat /\ new[Len(old) + 1] = m
            /\ \A i \in 1..Len(old) : new[i] = old[i]
        BY <2>3, <2>4
      <4>2. Seen(old)
        BY <2>5
      <4> HIDE DEF old, new
      <4>3. ASSUME NEW i \in 1..Len(new), new[i].good PROVE new[i].seq # corrupt
        <5>1. i \in 1..Len(old) \/ i = Len(old) + 1
          BY <4>1
        <5>2. QED
          BY <2>4, <4>1, <4>2, <4>3, <5>1
      <4>4. QED
        BY <4>3 DEF new
    <3>3. QED
      BY <2>5, <3>1, <3>2
  <2>7. QED
    BY <2>2, <2>5, <2>6
<1>7. QED
  BY <1>2, <1>3, <1>4, <1>5, <1>6

-----------------------------------------------------------------------------
(* The consumers' cursors and reports, as long as no consumer can be lapped. *)

\* Everything the proof of a step may use.
Guarded ==
    /\ RunConsistent /\ WindowConsistent /\ ProducerReports /\ ~unguarded
    /\ ConsumersConsistent /\ ConsumerReports

LEMMA InitConsumers == Init => ConsumersConsistent /\ ConsumerReports
<1> SUFFICES ASSUME Init PROVE ConsumersConsistent /\ ConsumerReports
  OBVIOUS
<1>1. Len(<<>>) = 0 /\ NoReport.msgs = <<>>
  BY DEF NoReport
<1>2. ConsumersConsistent
  BY <1>1 DEF Init, ConsumersConsistent
<1>3. ConsumerReports
  BY <1>1, CountFacts DEF Init, ConsumerReports, ReportConsistent, Received
<1>4. QED
  BY <1>2, <1>3

\* Inside the window a consumer reads its own message, whole.
LEMMA ReadsItsSlot ==
    ASSUME RunConsistent, WindowConsistent, ~unguarded, NEW c \in Consumers,
           cursor[c] < Len(ring)
    PROVE  Contents(cursor[c] + 1) = {ring[cursor[c] + 1]}
<1> DEFINE n == Len(ring)
           k == cursor[c]
           d == EffectiveDepth
<1>1. /\ n \in Nat /\ k \in Nat /\ d \in Nat \ {0} /\ clear \in Nat
      /\ n <= clear /\ clear <= k + d /\ k < n
  BY DepthFacts, CountFacts DEF RunConsistent, TypeOK, WindowConsistent
<1> HIDE DEF n, k, d
<1>2. n - (k + 1) \in Nat /\ n - (k + 1) < d
  BY <1>1
<1>3. Lapped(k + 1) = k + 1
  <2>1. (n - (k + 1)) \div d = 0
    BY <1>1, <1>2, SmallQuotient
  <2>2. Lapped(k + 1) = (k + 1) + ((n - (k + 1)) \div d) * d
    BY DEF Lapped, n, d
  <2>3. QED
    BY <1>1, <2>1, <2>2
<1>4. ~Overwriting(k + 1)
  <2>1. SUFFICES ASSUME n < clear PROVE (n + 1 - (k + 1)) % d # 0
    BY DEF Overwriting, n, d
  <2>2. n + 1 - (k + 1) \in Nat /\ n + 1 - (k + 1) < d /\ n + 1 - (k + 1) # 0
    BY <1>1, <2>1
  <2>3. (n + 1 - (k + 1)) % d = n + 1 - (k + 1)
    BY <1>1, <2>2, SmallQuotient
  <2>4. QED
    BY <2>2, <2>3
<1>5. Contents(k + 1) = {ring[k + 1]}
  BY <1>3, <1>4 DEF Contents
<1>6. QED
  BY <1>5 DEF k

\* What is in the ring, its consumers may report.
LEMMA SlotIsGood ==
    ASSUME RunConsistent, ProducerReports, NEW i \in 1..Len(ring)
    PROVE  /\ ring[i] \in Messages /\ ring[i].seq = sequence_start + i - 1
           /\ corrupt = MessageCount => ring[i].good
<1>1. ring[i] \in Messages
  BY DEF RunConsistent, TypeOK
<1>2. ring[i].seq = sequence_start + i - 1
  BY DEF RunConsistent, RingConsistent
<1>3. ring[i].seq # MessageCount
  BY <1>1, CountFacts DEF Messages, Sequences
<1>4. corrupt = MessageCount => ring[i].good
  BY <1>3 DEF ProducerReports
<1>5. QED
  BY <1>1, <1>2, <1>4

\* The producer's steps: cursors are behind what is published.
LEMMA ProducerKeepsConsumers ==
    ASSUME Guarded, Producer
    PROVE  ConsumersConsistent' /\ ConsumerReports'
<1>1. /\ UNCHANGED <<runVars, sequence_start, consumerVars, orchestratorVars>>
      /\ ring' = ring \/ \E m \in Messages : ring' = Append(ring, m)
  <2>1. CASE PPublish
    <3>1. sequence_start + Len(ring) \in Sequences
      BY <2>1, CountFacts DEF PPublish, Guarded, RunConsistent, TypeOK, Sequences
    <3>2. Message(sequence_start + Len(ring)) \in Messages
      BY <3>1 DEF Message, Messages
    <3>3. QED
      BY <2>1, <3>2 DEF PPublish
  <2>2. CASE PClaim \/ PStart \/ PStartUnready \/ PTruncate \/ PWrite \/ PLeave \/ PReport
    BY <2>2 DEF PClaim, PStart, PStartUnready, PTruncate, PWrite, PLeave, PReport
  <2>3. QED
    BY <2>1, <2>2 DEF Producer
<1>2. UNCHANGED <<corrupt, phase, sequence_start, resets, cstep, cursor, cmsgs, cfile, grace,
                  hasty, received, partial_c, restarted>>
  BY <1>1 DEF runVars, consumerVars, readerVars, orchestratorVars, repairVars
<1>3. ConsumersConsistent'
  BY <1>2 DEF Guarded, ConsumersConsistent
<1>4. \A i \in 1..Len(ring) : ring'[i] = ring[i]
  <2>1. ring \in Seq(Messages)
    BY DEF Guarded, RunConsistent, TypeOK
  <2>2. CASE ring' = ring
    BY <2>2
  <2>3. ASSUME NEW m \in Messages, ring' = Append(ring, m)
        PROVE  \A i \in 1..Len(ring) : ring'[i] = ring[i]
    BY <2>1, <2>3
  <2>4. QED
    BY <1>1, <2>2, <2>3
<1>5. ASSUME NEW c \in Consumers, NEW i \in 1..Len(cmsgs[c])
      PROVE  cmsgs[c][i] = ring'[cursor[c] - Len(cmsgs[c]) + i]
  <2>1. /\ Len(cmsgs[c]) \in Nat /\ Len(cmsgs[c]) <= cursor[c] /\ cursor[c] \in Nat
        /\ cursor[c] <= Len(ring) /\ Len(ring) \in Nat
    BY CountFacts DEF Guarded, RunConsistent, TypeOK, ConsumerReports, ReportConsistent
  <2>2. cursor[c] - Len(cmsgs[c]) + i \in 1..Len(ring)
    BY <2>1
  <2>3. cmsgs[c][i] = ring[cursor[c] - Len(cmsgs[c]) + i]
    BY DEF Guarded, ConsumerReports, ReportConsistent
  <2>4. QED
    BY <1>4, <2>2, <2>3
<1>6. ASSUME NEW c \in Consumers PROVE ReportConsistent(c)'
  <2>1. ReportConsistent(c)
    BY DEF Guarded, ConsumerReports
  <2>2. QED
    BY <1>2, <1>5, <2>1, Zenon DEF ReportConsistent, Received
<1>7. QED
  BY <1>3, <1>6 DEF ConsumerReports

\* The consumed message is the next of the report.
LEMMA ConsumeKeepsConsumers ==
    ASSUME Guarded, NEW c \in Consumers, CConsume(c)
    PROVE  ConsumersConsistent' /\ ConsumerReports'
<1> DEFINE m == ring[cursor[c] + 1]
<1>1. /\ cstep[c] \in {"consume", "empty"} /\ cursor[c] < Len(ring)
      /\ cursor' = [cursor EXCEPT ![c] = cursor[c] + 1]
      /\ grace' = grace \ {c}
      /\ UNCHANGED <<runVars, producerVars, attached, cfile, signals, hasty, orchestratorVars>>
  BY DEF CConsume
<1>2. UNCHANGED <<corrupt, phase, sequence_start, resets, ring, cfile, partial_c, restarted, hasty>>
  BY <1>1 DEF runVars, producerVars, orchestratorVars, repairVars
<1>3. /\ ring \in Seq(Messages) /\ cursor[c] \in Nat /\ cursor \in [Consumers -> 0..MessageCount]
      /\ cmsgs \in [Consumers -> Seq(Messages)] /\ cstep \in [Consumers -> Steps]
      /\ received \in [Consumers -> SUBSET Sequences]
      /\ m \in Messages /\ cmsgs[c] \in Seq(Messages) /\ Len(cmsgs[c]) \in Nat
      /\ resets \in 0..1 /\ Len(partial_c[c].msgs) \in Nat /\ Len(cfile[c].msgs) \in Nat
  <2>1. ring \in Seq(Messages) /\ cursor[c] \in Nat /\ cursor[c] < Len(ring)
    BY <1>1, CountFacts DEF Guarded, RunConsistent, TypeOK
  <2>2. m \in Messages
    BY <2>1
  <2>3. partial_c[c] \in Reports /\ cfile[c] \in Reports
    BY DEF Guarded, RunConsistent, TypeOK
  <2>4. Len(partial_c[c].msgs) \in Nat /\ Len(cfile[c].msgs) \in Nat
    BY <2>3 DEF Reports
  <2>5. cstep \in [Consumers -> Steps] /\ resets \in 0..1
    BY DEF Guarded, RunConsistent, TypeOK, Steps
  <2>6. /\ cmsgs \in [Consumers -> Seq(Messages)] /\ cursor \in [Consumers -> 0..MessageCount]
        /\ received \in [Consumers -> SUBSET Sequences]
    BY DEF Guarded, RunConsistent, TypeOK
  <2>7. QED
    BY <2>1, <2>2, <2>4, <2>5, <2>6
<1>4. m.seq = sequence_start + cursor[c] /\ (m.good \/ corrupt # MessageCount)
  <2>1. cursor[c] + 1 \in 1..Len(ring)
    BY <1>1, <1>3
  <2>2. m.seq = sequence_start + (cursor[c] + 1) - 1 /\ (corrupt = MessageCount => m.good)
    BY <2>1, SlotIsGood DEF Guarded
  <2>3. sequence_start \in Nat
    BY CountFacts DEF Guarded, RunConsistent, TypeOK, Sequences
  <2> HIDE DEF m
  <2>4. QED
    BY <1>3, <2>2, <2>3
<1>5. /\ cmsgs' = [cmsgs EXCEPT ![c] = Append(cmsgs[c], m)]
      /\ received' = [received EXCEPT ![c] = received[c] \cup {m.seq}]
      /\ \E s \in {"consume", "truncate"} : cstep' = [cstep EXCEPT ![c] = s]
  <2>1. Contents(cursor[c] + 1) = {m}
    BY <1>1, ReadsItsSlot DEF Guarded
  <2> HIDE DEF m
  <2>2. QED
    BY <1>4, <2>1 DEF CConsume
<1> HIDE DEF m
<1>6. /\ cursor'[c] = cursor[c] + 1 /\ cmsgs'[c] = Append(cmsgs[c], m)
      /\ cstep'[c] \in {"consume", "truncate"}
      /\ Len(cmsgs'[c]) = Len(cmsgs[c]) + 1
      /\ received'[c] = received[c] \cup {m.seq}
  BY <1>1, <1>3, <1>5
<1>7. \A d \in Consumers \ {c} :
         cursor'[d] = cursor[d] /\ cmsgs'[d] = cmsgs[d] /\ cstep'[d] = cstep[d]
         /\ received'[d] = received[d]
  BY <1>1, <1>3, <1>5
<1>8. ConsumersConsistent'
  <2>1. \A d \in grace' : cstep'[d] = "empty" => cursor'[d] = MessageCount
    <3>1. \A d \in grace' : d \in Consumers \ {c} /\ d \in grace
      BY <1>1 DEF Guarded, RunConsistent, TypeOK
    <3>2. QED
      BY <1>7, <3>1 DEF Guarded, ConsumersConsistent
  <2>2. ASSUME resets = 0, NEW d \in Consumers
        PROVE  /\ received'[d] = 0..(cursor'[d] - 1)
               /\ Len(cmsgs'[d]) <= cursor'[d]
               /\ cstep'[d] \in {"leave", "report", "done"} /\ d \notin hasty =>
                     cursor'[d] = MessageCount
    <3>1. CASE d = c
      <4>1. received[c] = 0..(cursor[c] - 1) /\ Len(cmsgs[c]) <= cursor[c] /\ m.seq = cursor[c]
        BY <1>3, <1>4, <2>2 DEF Guarded, RunConsistent, ConsumersConsistent, RingConsistent
      <4>2. 0..(cursor[c] - 1) \cup {cursor[c]} = 0..(cursor[c] + 1 - 1)
        BY <1>3
      <4>3. received'[c] = 0..(cursor'[c] - 1)
        BY <1>6, <4>1, <4>2
      <4>4. Len(cmsgs'[c]) <= cursor'[c]
        BY <1>3, <1>6, <4>1
      <4>5. cstep'[c] \notin {"leave", "report", "done"}
        BY <1>6
      <4>6. QED
        BY <3>1, <4>3, <4>4, <4>5
    <3>2. CASE d # c
      BY <1>7, <2>2, <3>2 DEF Guarded, ConsumersConsistent
    <3>3. QED
      BY <3>1, <3>2
  <2>3. QED
    BY <1>2, <2>1, <2>2 DEF ConsumersConsistent
<1>9. ASSUME NEW i \in 1..(Len(cmsgs[c]) + 1)
      PROVE  cmsgs'[c][i] = ring[cursor[c] - Len(cmsgs[c]) + i]
  <2>1. CASE i = Len(cmsgs[c]) + 1
    <3>1. cmsgs'[c][i] = m
      BY <1>3, <1>6, <2>1
    <3>2. cursor[c] - Len(cmsgs[c]) + i = cursor[c] + 1
      BY <1>3, <2>1
    <3>3. QED
      BY <3>1, <3>2 DEF m
  <2>2. CASE i \in 1..Len(cmsgs[c])
    <3>1. cmsgs'[c][i] = cmsgs[c][i]
      BY <1>3, <1>6, <2>2
    <3>2. QED
      BY <3>1, <2>2 DEF Guarded, ConsumerReports, ReportConsistent
  <2>3. QED
    BY <1>3, <2>1, <2>2
<1>10. \A i \in 1..Len(cmsgs'[c]) : cmsgs'[c][i] = ring[cursor'[c] - Len(cmsgs'[c]) + i]
  BY <1>3, <1>6, <1>9
<1>11. ConsumerReports'
  <2>1. \A d \in Consumers : ReportConsistent(d)
    BY DEF Guarded, ConsumerReports
  <2>2. ReportConsistent(c)'
    <3>1. ReportConsistent(c)
      BY <2>1
    <3>2. /\ Len(cmsgs'[c]) <= cursor'[c]
          /\ Len(cmsgs[c]) = cursor[c] => Len(cmsgs'[c]) = cursor'[c]
          /\ cursor[c] <= cursor'[c]
          /\ Len(partial_c[c].msgs) + Len(cmsgs[c]) <= cursor[c] =>
                Len(partial_c[c].msgs) + Len(cmsgs'[c]) <= cursor'[c]
      <4>1. Len(cmsgs[c]) <= cursor[c]
        BY <3>1 DEF ReportConsistent
      <4> DEFINE k == Len(cmsgs[c])
                 n == cursor[c]
                 q == Len(partial_c[c].msgs)
      <4>2. k \in Nat /\ n \in Nat /\ q \in Nat /\ k <= n
        BY <1>3, <4>1
      <4>3. Len(cmsgs'[c]) = k + 1 /\ cursor'[c] = n + 1
        BY <1>6
      <4> HIDE DEF k, n, q
      <4>4. /\ Len(cmsgs'[c]) <= cursor'[c]
            /\ k = n => Len(cmsgs'[c]) = cursor'[c]
            /\ n <= cursor'[c]
            /\ q + k <= n => q + Len(cmsgs'[c]) <= cursor'[c]
        BY <4>2, <4>3
      <4>5. QED
        BY <4>4 DEF k, n, q
    <3>3. /\ Len(partial_c[c].msgs) <= cursor[c] => Len(partial_c[c].msgs) <= cursor'[c]
          /\ Len(cfile[c].msgs) <= cursor[c] => Len(cfile[c].msgs) <= cursor'[c]
      BY <1>3, <1>6
    <3>4. QED
      BY <1>2, <1>6, <1>10, <3>1, <3>2, <3>3, Zenon DEF ReportConsistent, Received
  <2>3. ASSUME NEW d \in Consumers \ {c} PROVE ReportConsistent(d)'
    <3>1. ReportConsistent(d) /\ cursor'[d] = cursor[d] /\ cmsgs'[d] = cmsgs[d]
          /\ cstep'[d] = cstep[d]
      BY <1>7, <2>1
    <3>2. QED
      BY <1>2, <3>1, Zenon DEF ReportConsistent, Received
  <2>4. QED
    BY <2>2, <2>3 DEF ConsumerReports
<1>12. QED
  BY <1>8, <1>11

LEMMA ReceivedSoFar ==
    ASSUME Guarded, NEW c \in Consumers, resets = 0, c \notin restarted
    PROVE  Received(cmsgs[c]) /\ Len(cmsgs[c]) = cursor[c]
<1>1. /\ Len(cmsgs[c]) = cursor[c]
      /\ \A i \in 1..Len(cmsgs[c]) : cmsgs[c][i] = ring[cursor[c] - Len(cmsgs[c]) + i]
  BY DEF Guarded, ConsumerReports, ReportConsistent
<1>2. sequence_start = 0 /\ cursor[c] \in Nat /\ cursor[c] <= Len(ring) /\ Len(ring) \in Nat
  BY CountFacts DEF Guarded, RunConsistent, RingConsistent, TypeOK
<1>3. ASSUME NEW i \in 1..Len(cmsgs[c])
      PROVE  cmsgs[c][i].seq = i - 1 /\ (corrupt = MessageCount => cmsgs[c][i].good)
  <2>1. i \in 1..Len(ring) /\ cmsgs[c][i] = ring[i]
    BY <1>1, <1>2
  <2>2. ring[i].seq = sequence_start + i - 1 /\ (corrupt = MessageCount => ring[i].good)
    BY <2>1, SlotIsGood DEF Guarded
  <2>3. QED
    BY <1>2, <2>1, <2>2
<1>4. QED
  BY <1>1, <1>3 DEF Received

\* A consumer leaves with everything, on either segment, unless it left early.
LEMMA LeavesAtTheEnd ==
    ASSUME Guarded, NEW c \in Consumers, CFinish(c) \/ (CLeave(c) /\ c \in grace)
    PROVE  /\ resets = 0 => cursor[c] = MessageCount
           /\ resets = 1 => Len(cmsgs[c]) = MessageCount - sequence_start
<1>1. /\ cursor[c] \in Nat /\ cursor[c] <= Len(ring) /\ Len(ring) \in Nat
      /\ sequence_start + Len(ring) <= MessageCount /\ sequence_start \in Nat
      /\ MessageCount \in Nat /\ Len(cmsgs[c]) \in Nat /\ Len(cmsgs[c]) <= cursor[c]
      /\ resets = 1 => Len(cmsgs[c]) = cursor[c]
      /\ resets = 0 => sequence_start = 0
  BY CountFacts
     DEF Guarded, RunConsistent, TypeOK, RingConsistent, Sequences, ConsumerReports, ReportConsistent
<1>2. CASE CFinish(c)
  <2>1. Len(cmsgs[c]) >= (IF resets = 0 THEN MessageCount ELSE MessageCount - sequence_start)
    BY <1>2 DEF CFinish, Goal
  <2>2. QED
    BY <1>1, <2>1
<1>3. CASE CLeave(c) /\ c \in grace
  <2>1. completed /\ cstep[c] = "empty"
    BY <1>3 DEF CLeave
  <2>2. resets = 0
    BY <2>1 DEF Guarded, RunConsistent, RingConsistent
  <2>3. cursor[c] = MessageCount
    BY <1>3, <2>1 DEF Guarded, ConsumersConsistent
  <2>4. QED
    BY <2>2, <2>3
<1>4. QED
  BY <1>2, <1>3

\* The other steps of a consumer write down or leave what it has.
LEMMA ConsumerKeepsConsumers ==
    ASSUME Guarded, NEW c \in Consumers, ConsumerSteps(c)
    PROVE  ConsumersConsistent' /\ ConsumerReports'
<1>0. cfile \in [Consumers -> Reports] /\ cstep \in [Consumers -> Steps] /\ grace \subseteq Consumers
  BY DEF Guarded, RunConsistent, TypeOK, Steps
<1>1. /\ UNCHANGED <<runVars, producerVars, cursor, cmsgs, received, orchestratorVars>>
      /\ \A d \in Consumers \ {c} : cfile'[d] = cfile[d] /\ cstep'[d] = cstep[d]
      /\ cfile'[c] \in {cfile[c], NoReport, Report(cmsgs[c])}
      /\ hasty \subseteq hasty' /\ hasty' \subseteq hasty \cup {c}
      /\ grace' = grace \/ (grace' = grace \cup {c} /\ cstep'[c] = "consume")
      /\ cstep'[c] = "empty" => cursor[c] = Len(ring)
      /\ \/ cstep'[c] \notin {"leave", "report", "done"}
         \/ cstep[c] \in {"leave", "report"}
         \/ CFinish(c)
         \/ CLeave(c) /\ c \in grace
         \/ CLeave(c) /\ c \in hasty'
  <2>1. CASE CTruncate(c) \/ CWrite(c)
    BY <1>0, <2>1 DEF CTruncate, CWrite, readerVars
  <2>2. CASE CAttach(c)
    BY <1>0, <2>2 DEF CAttach, readerVars
  <2>3. CASE CAttachFails(c) \/ CSignal(c) \/ CFinish(c) \/ CTimesOut(c)
    BY <1>0, <2>3 DEF CAttachFails, CSignal, CFinish, CTimesOut, readerVars
  <2>4. CASE CLook(c)
    BY <1>0, <2>4 DEF CLook, readerVars
  <2>5. CASE CGrace(c)
    BY <1>0, <2>5 DEF CGrace, readerVars
  <2>6. CASE CLeave(c)
    BY <1>0, <2>6 DEF CLeave, readerVars
  <2>7. QED
    BY <2>1, <2>2, <2>3, <2>4, <2>5, <2>6 DEF ConsumerSteps
<1>2. UNCHANGED <<corrupt, phase, sequence_start, resets, ring, cursor, cmsgs, received, partial_c,
                  restarted>>
  BY <1>1 DEF runVars, producerVars, orchestratorVars, repairVars
<1>3. resets \in 0..1
  BY DEF Guarded, RunConsistent, TypeOK
<1>4. ConsumersConsistent'
  <2>1. ASSUME NEW d \in grace', cstep'[d] = "empty" PROVE cursor[d] = MessageCount
    <3>1. d \in grace /\ d \in Consumers
      BY <1>0, <1>1, <2>1
    <3>2. Len(ring) = MessageCount
      <4>1. pstep = "done" /\ resets = 0 /\ sequence_start = 0
        BY <3>1 DEF Guarded, RunConsistent, RingConsistent
      <4>2. 0 + Len(ring) = MessageCount /\ Len(ring) \in Nat
        BY <4>1 DEF Guarded, RunConsistent, TypeOK, RingConsistent
      <4>3. QED
        BY <4>2
    <3>3. CASE d = c
      BY <1>1, <2>1, <3>2, <3>3
    <3>4. CASE d # c
      BY <1>1, <2>1, <3>1, <3>4 DEF Guarded, ConsumersConsistent
    <3>5. QED
      BY <3>3, <3>4
  <2>2. ASSUME resets = 0, NEW d \in Consumers, cstep'[d] \in {"leave", "report", "done"},
               d \notin hasty'
        PROVE  cursor[d] = MessageCount
    <3>1. CASE d = c
      <4>1. \/ cstep[c] \in {"leave", "report"} /\ c \notin hasty
            \/ CFinish(c)
            \/ CLeave(c) /\ c \in grace
        BY <1>1, <2>2, <3>1
      <4>2. QED
        BY <2>2, <3>1, <4>1, LeavesAtTheEnd DEF Guarded, ConsumersConsistent
    <3>2. CASE d # c
      BY <1>1, <2>2, <3>2 DEF Guarded, ConsumersConsistent
    <3>3. QED
      BY <3>1, <3>2
  <2>3. QED
    BY <1>2, <2>1, <2>2 DEF Guarded, ConsumersConsistent
<1>5. ASSUME NEW d \in Consumers \ {c} PROVE ReportConsistent(d)'
  <2>1. ReportConsistent(d) /\ cfile'[d] = cfile[d] /\ cstep'[d] = cstep[d]
    BY <1>1 DEF Guarded, ConsumerReports
  <2>2. QED
    BY <1>2, <2>1, Zenon DEF ReportConsistent, Received
<1>6. ReportConsistent(c)'
  <2>1. ReportConsistent(c)
    BY DEF Guarded, ConsumerReports
  <2>2. resets = 0 /\ c \notin restarted =>
           Received(cfile'[c].msgs) /\ Len(cfile'[c].msgs) <= cursor[c]
    <3>1. ASSUME resets = 0, c \notin restarted
          PROVE  Received(cmsgs[c]) /\ Len(cmsgs[c]) <= cursor[c]
      BY <3>1, <2>1, ReceivedSoFar DEF ReportConsistent
    <3>2. Received(<<>>) /\ Len(<<>>) <= cursor[c]
      BY CountFacts DEF Received, Guarded, RunConsistent, TypeOK
    <3>3. NoReport.msgs = <<>> /\ Report(cmsgs[c]).msgs = cmsgs[c]
      BY DEF NoReport, Report
    <3>4. QED
      BY <1>1, <2>1, <3>1, <3>2, <3>3 DEF ReportConsistent
  <2>3. resets = 1 /\ cstep'[c] \in {"leave", "report", "done"} =>
           Len(cmsgs[c]) = MessageCount - sequence_start
    <3>1. resets = 1 => ~CLeave(c)
      BY DEF CLeave, Guarded, RunConsistent, RingConsistent
    <3>2. QED
      BY <1>1, <2>1, <3>1, LeavesAtTheEnd DEF ReportConsistent
  <2>4. QED
    BY <1>2, <2>1, <2>2, <2>3, Zenon DEF ReportConsistent, Received
<1>7. QED
  BY <1>4, <1>5, <1>6 DEF ConsumerReports

\* Only a claim may leave a consumer unguarded, and none becomes guarded again.
LEMMA UnguardedGrows ==
    ASSUME [Next]_vars, ~PClaim
    PROVE  unguarded' = unguarded
<1>1. CASE Producer
  BY <1>1 DEF Producer, PStart, PStartUnready, PPublish, PTruncate, PWrite, PLeave, PReport, claimVars
<1>2. CASE Orchestrator
  <2>1. CASE Respawn
    BY <2>1 DEF Respawn
  <2>2. CASE ~Respawn
    BY <1>2, <2>2
       DEF Orchestrator, NoFault, KillProducer, RestartConsumer, AwaitProducer, Verify,
           KillConsumer, KillOneConsumer, producerVars, claimVars
  <2>3. QED
    BY <2>1, <2>2
<1>3. CASE WaitTimesOut
  BY <1>3 DEF WaitTimesOut, producerVars, claimVars
<1>4. ASSUME NEW c \in Consumers, Consumer(c) \/ CTimesOut(c) PROVE unguarded' = unguarded
  <2>1. UNCHANGED producerVars
    BY <1>4 DEF Consumer, CAttach, CAttachFails, CSignal, CConsume, CTruncate, CWrite, CFinish,
                CLook, CGrace, CLeave, CTimesOut
  <2>2. QED
    BY <2>1 DEF producerVars, claimVars
<1>5. CASE UNCHANGED vars
  BY <1>5 DEF vars, producerVars, claimVars
<1>6. QED
  BY <1>1, <1>2, <1>3, <1>4, <1>5 DEF Next

\* The orchestrator's waits touch neither processes nor reports.
LEMMA WaitKeepsConsumers ==
    ASSUME Guarded, NoFault \/ AwaitProducer \/ Verify \/ WaitTimesOut
    PROVE  ConsumersConsistent' /\ ConsumerReports'
<1>1. /\ UNCHANGED <<runVars, producerVars, consumerVars, repairVars>>
      /\ phase \notin {"kill_consumers", "respawn", "error"}
  BY DEF NoFault, AwaitProducer, Verify, WaitTimesOut
<1>2. ConsumersConsistent'
  BY <1>1 DEF Guarded, ConsumersConsistent, producerVars, consumerVars, readerVars, repairVars
<1>3. ASSUME NEW d \in Consumers PROVE ReportConsistent(d)'
  <2>1. ReportConsistent(d)
    BY DEF Guarded, ConsumerReports
  <2>2. QED
    BY <1>1, <2>1, Zenon
       DEF ReportConsistent, Received, runVars, producerVars, consumerVars, readerVars, repairVars
<1>4. QED
  BY <1>2, <1>3 DEF ConsumerReports

LEMMA KillProducerKeepsConsumers ==
    ASSUME Guarded, KillProducer
    PROVE  ConsumersConsistent' /\ ConsumerReports'
<1>1. /\ phase = "started" /\ phase' \in {"error", "kill_consumers"}
      /\ UNCHANGED <<corrupt, ring, sequence_start, consumerVars, resets, partial_c, restarted>>
  BY DEF KillProducer, runVars
<1>2. ConsumersConsistent'
  BY <1>1 DEF Guarded, ConsumersConsistent, consumerVars, readerVars
<1>3. ASSUME NEW d \in Consumers PROVE ReportConsistent(d)'
  <2>1. ReportConsistent(d)
    BY DEF Guarded, ConsumerReports
  <2>2. QED
    BY <1>1, <2>1, Zenon DEF ReportConsistent, Received, consumerVars, readerVars
<1>4. QED
  BY <1>2, <1>3 DEF ConsumerReports

\* The last checkpoint of a killed consumer becomes its partial report.
LEMMA KillConsumerKeepsConsumers ==
    ASSUME Guarded, NEW c \in Consumers, KillConsumer(c) \/ KillOneConsumer(c)
    PROVE  ConsumersConsistent' /\ ConsumerReports'
<1>1. /\ phase \in {"started", "kill_consumers"} /\ c \notin restarted
      /\ UNCHANGED <<runVars, producerVars, readerVars, cmsgs, grace, resets>>
      /\ \/ phase' = "error" /\ UNCHANGED <<partial_c, restarted, cfile, cstep, hasty>>
         \/ phase' \in {"respawn", "kill_consumers"} /\ Killed(c)
  BY DEF KillConsumer, KillOneConsumer, Kill, Killed, Guarded, RunConsistent, PhaseConsistent
<1>2. resets = 0
  BY <1>1 DEF Guarded, RunConsistent, PhaseConsistent
<1>3. /\ UNCHANGED <<corrupt, sequence_start, resets, ring, cursor, cmsgs, grace, received>>
      /\ phase' \in {"error", "respawn", "kill_consumers"}
  BY <1>1 DEF runVars, producerVars, readerVars
<1>4. CASE UNCHANGED <<partial_c, restarted, cfile, cstep, hasty>>
  <2>1. ConsumersConsistent'
    BY <1>3, <1>4 DEF Guarded, ConsumersConsistent
  <2>2. ASSUME NEW d \in Consumers PROVE ReportConsistent(d)'
    <3>1. ReportConsistent(d)
      BY DEF Guarded, ConsumerReports
    <3>2. QED
      BY <1>3, <1>4, <3>1, Zenon DEF ReportConsistent, Received
  <2>3. QED
    BY <2>1, <2>2 DEF ConsumerReports
<1>5. CASE Killed(c)
  <2>0. /\ cstep'[c] = "down" /\ partial_c'[c] = cfile[c] /\ c \in restarted'
        /\ \A d \in Consumers \ {c} :
              /\ partial_c'[d] = partial_c[d] /\ cfile'[d] = cfile[d] /\ cstep'[d] = cstep[d]
              /\ d \in restarted' <=> d \in restarted
              /\ d \in hasty' <=> d \in hasty
    BY <1>5 DEF Guarded, RunConsistent, TypeOK, Killed
  <2>1. ConsumersConsistent'
    <3>1. ASSUME NEW d \in grace, cstep'[d] = "empty" PROVE cursor[d] = MessageCount
      <4>1. d \in Consumers \ {c} /\ cstep[d] = "empty"
        BY <2>0, <3>1 DEF Guarded, RunConsistent, TypeOK
      <4>2. QED
        BY <4>1 DEF Guarded, ConsumersConsistent
    <3>2. ASSUME NEW d \in Consumers PROVE received[d] = 0..(cursor[d] - 1) /\ Len(cmsgs[d]) <= cursor[d]
      BY <1>2 DEF Guarded, ConsumersConsistent
    <3>3. ASSUME NEW d \in Consumers, cstep'[d] \in {"leave", "report", "done"}, d \notin hasty'
          PROVE  cursor[d] = MessageCount
      <4>1. d # c
        BY <2>0, <3>3
      <4>2. QED
        BY <1>2, <2>0, <3>3, <4>1 DEF Guarded, ConsumersConsistent
    <3>4. QED
      BY <1>3, <3>1, <3>2, <3>3 DEF ConsumersConsistent
  <2>2. ASSUME NEW d \in Consumers \ {c} PROVE ReportConsistent(d)'
    <3>1. ReportConsistent(d)
      BY DEF Guarded, ConsumerReports
    <3>2. /\ partial_c'[d] = partial_c[d] /\ cfile'[d] = cfile[d] /\ cstep'[d] = cstep[d]
          /\ d \in restarted' <=> d \in restarted
      BY <2>0
    <3>3. QED
      BY <1>3, <3>1, <3>2, Zenon DEF ReportConsistent, Received
  <2>3. ReportConsistent(c)'
    <3>1. ReportConsistent(c)
      BY DEF Guarded, ConsumerReports
    <3>2. cursor[c] \in 0..MessageCount /\ cfile[c].msgs \in Seq(Messages)
      BY DEF Guarded, RunConsistent, TypeOK, Reports
    <3>3. /\ Received(partial_c'[c].msgs) /\ Len(partial_c'[c].msgs) <= cursor[c]
          /\ Len(partial_c'[c].msgs) <= MessageCount
      <4>1. Received(cfile[c].msgs) /\ Len(cfile[c].msgs) <= cursor[c]
        BY <1>1, <1>2, <3>1 DEF ReportConsistent
      <4>2. QED
        BY <2>0, <3>2, <4>1, CountFacts
    <3>4. resets # 1
      BY <1>2
    <3>5. QED
      BY <1>2, <1>3, <2>0, <3>1, <3>3, <3>4, Zenon DEF ReportConsistent, Received
  <2>4. QED
    BY <2>1, <2>2, <2>3 DEF ConsumerReports
<1>6. QED
  BY <1>1, <1>4, <1>5

LEMMA RespawnKeepsConsumers ==
    ASSUME Guarded, Respawn
    PROVE  ConsumersConsistent' /\ ConsumerReports'
<1>1. /\ phase = "kill_consumers" /\ phase' = "await_producer" /\ resets' = resets + 1
      /\ ring' = <<>> /\ grace' = {}
      /\ cstep' = [c \in Consumers |-> "attach"]
      /\ cursor' = [c \in Consumers |-> 0] /\ cmsgs' = [c \in Consumers |-> <<>>]
      /\ UNCHANGED <<runVars, partial_c, restarted>>
  BY DEF Respawn
<1>2. resets' = 1
  BY <1>1 DEF Guarded, RunConsistent, PhaseConsistent
<1>3. Len(<<>>) = 0
  OBVIOUS
<1>4. ConsumersConsistent'
  BY <1>1, <1>2 DEF ConsumersConsistent
<1>5. ASSUME NEW d \in Consumers PROVE ReportConsistent(d)'
  <2>1. /\ cursor'[d] = 0 /\ cmsgs'[d] = <<>> /\ cstep'[d] = "attach"
        /\ \A i \in 1..0 : FALSE
    BY <1>1
  <2>2. /\ Received(partial_c[d].msgs) /\ Len(partial_c[d].msgs) <= MessageCount
        /\ d \notin restarted => partial_c[d] = NoReport
    BY DEF Guarded, ConsumerReports, ReportConsistent
  <2>3. Received(partial_c[d].msgs)'
    BY <1>1, <2>2 DEF Received, runVars
  <2>4. QED
    BY <1>1, <1>2, <1>3, <2>1, <2>2, <2>3 DEF ReportConsistent
<1>6. QED
  BY <1>4, <1>5 DEF ConsumerReports

LEMMA RestartKeepsConsumers ==
    ASSUME Guarded, RestartConsumer
    PROVE  ConsumersConsistent' /\ ConsumerReports'
<1>1. /\ phase = "respawn" /\ phase' = "await_producer"
      /\ cstep' = [c \in Consumers |-> IF c \in restarted THEN "attach" ELSE cstep[c]]
      /\ cmsgs' = [c \in Consumers |-> IF c \in restarted THEN <<>> ELSE cmsgs[c]]
      /\ grace' = grace \ restarted
      /\ UNCHANGED <<runVars, producerVars, readerVars, cfile, hasty, repairVars>>
  BY DEF RestartConsumer
<1>2. UNCHANGED <<corrupt, sequence_start, resets, ring, cursor, received, cfile, hasty, partial_c,
                  restarted>>
  BY <1>1 DEF runVars, producerVars, readerVars, repairVars
<1>3. resets = 0
  BY <1>1 DEF Guarded, RunConsistent, PhaseConsistent
<1>4. ASSUME NEW d \in Consumers
      PROVE  /\ cursor[d] \in Nat
             /\ d \in restarted => cmsgs'[d] = <<>> /\ cstep'[d] = "attach"
             /\ d \notin restarted => cmsgs'[d] = cmsgs[d] /\ cstep'[d] = cstep[d]
  BY <1>1, CountFacts DEF Guarded, RunConsistent, TypeOK
<1>5. ConsumersConsistent'
  <2>1. ASSUME NEW d \in grace', cstep'[d] = "empty" PROVE cursor[d] = MessageCount
    <3>1. d \in grace /\ d \notin restarted /\ d \in Consumers
      BY <1>1, <2>1 DEF Guarded, RunConsistent, TypeOK
    <3>2. QED
      BY <1>4, <2>1, <3>1 DEF Guarded, ConsumersConsistent
  <2>2. ASSUME NEW d \in Consumers
        PROVE  /\ received[d] = 0..(cursor[d] - 1) /\ Len(cmsgs'[d]) <= cursor[d]
               /\ cstep'[d] \in {"leave", "report", "done"} /\ d \notin hasty =>
                     cursor[d] = MessageCount
    <3>1. /\ received[d] = 0..(cursor[d] - 1) /\ Len(cmsgs[d]) <= cursor[d]
          /\ cstep[d] \in {"leave", "report", "done"} /\ d \notin hasty => cursor[d] = MessageCount
      BY <1>3 DEF Guarded, ConsumersConsistent
    <3>2. CASE d \in restarted
      BY <1>4, <3>1, <3>2
    <3>3. CASE d \notin restarted
      BY <1>4, <3>1, <3>3
    <3>4. QED
      BY <3>2, <3>3
  <2>3. QED
    BY <1>2, <2>1, <2>2 DEF ConsumersConsistent
<1>6. ASSUME NEW d \in Consumers PROVE ReportConsistent(d)'
  <2>1. ReportConsistent(d) /\ cursor[d] \in Nat /\ Len(partial_c[d].msgs) \in Nat
    <3>1. partial_c[d] \in Reports
      BY DEF Guarded, RunConsistent, TypeOK
    <3>2. QED
      BY <1>4, <3>1 DEF Guarded, ConsumerReports, Reports
  <2>2. CASE d \in restarted
    <3>1. cmsgs'[d] = <<>> /\ Len(<<>>) = 0 /\ \A i \in 1..0 : FALSE
      BY <1>4, <2>2
    <3>2. Len(partial_c[d].msgs) + 0 <= cursor[d]
      BY <1>3, <2>1 DEF ReportConsistent
    <3>3. QED
      BY <1>2, <1>3, <2>1, <2>2, <3>1, <3>2 DEF ReportConsistent, Received
  <2>3. CASE d \notin restarted
    <3>1. cmsgs'[d] = cmsgs[d] /\ cstep'[d] = cstep[d]
      BY <1>4, <2>3
    <3>2. Len(partial_c[d].msgs) + Len(cmsgs[d]) <= cursor[d]
      <4>1. Len(cmsgs[d]) = cursor[d] /\ partial_c[d].msgs = <<>> /\ Len(<<>>) = 0
        BY <2>1, <2>3 DEF ReportConsistent, NoReport
      <4>2. QED
        BY <2>1, <4>1
    <3>3. QED
      BY <1>2, <1>3, <2>1, <2>3, <3>1, <3>2, Zenon DEF ReportConsistent, Received
  <2>4. QED
    BY <2>2, <2>3
<1>7. QED
  BY <1>5, <1>6 DEF ConsumerReports

LEMMA StepKeepsConsumers ==
    ASSUME IInv, [Next]_vars, ~unguarded'
    PROVE  ConsumersConsistent' /\ ConsumerReports'
<1>1. ~unguarded
  <2>1. CASE PClaim
    BY <2>1 DEF PClaim, IInv, RunConsistent, TypeOK
  <2>2. CASE ~PClaim
    <3>1. unguarded' = unguarded
      BY <2>2, UnguardedGrows
    <3>2. QED
      BY <3>1
  <2>3. QED
    BY <2>1, <2>2
<1>2. Guarded
  BY <1>1 DEF IInv, Guarded
<1>3. CASE Producer
  BY <1>2, <1>3, ProducerKeepsConsumers
<1>4. CASE Orchestrator
  BY <1>2, <1>4, WaitKeepsConsumers, KillProducerKeepsConsumers, KillConsumerKeepsConsumers,
     RespawnKeepsConsumers, RestartKeepsConsumers DEF Orchestrator
<1>5. CASE WaitTimesOut
  BY <1>2, <1>5, WaitKeepsConsumers
<1>6. ASSUME NEW c \in Consumers, Consumer(c) \/ CTimesOut(c)
      PROVE  ConsumersConsistent' /\ ConsumerReports'
  BY <1>2, <1>6, ConsumeKeepsConsumers, ConsumerKeepsConsumers DEF Consumer, ConsumerSteps
<1>7. CASE UNCHANGED vars
  <2>1. UNCHANGED <<corrupt, phase, sequence_start, resets, ring, cstep, cursor, cmsgs, cfile,
                    grace, hasty, received, partial_c, restarted>>
    BY <1>7 DEF vars, runVars, producerVars, consumerVars, readerVars, orchestratorVars, repairVars
  <2>2. ConsumersConsistent'
    BY <1>2, <2>1 DEF Guarded, ConsumersConsistent
  <2>3. ASSUME NEW d \in Consumers PROVE ReportConsistent(d)'
    <3>1. ReportConsistent(d)
      BY <1>2 DEF Guarded, ConsumerReports
    <3>2. QED
      BY <2>1, <3>1, Zenon DEF ReportConsistent, Received
  <2>4. QED
    BY <2>2, <2>3 DEF ConsumerReports
<1>8. QED
  BY <1>3, <1>4, <1>5, <1>6, <1>7 DEF Next

-----------------------------------------------------------------------------
(* The verdict. *)

\* The producer's report over a restart: the checkpoint of the first, then the second.
LEMMA ProducerReportComplete ==
    ASSUME RunConsistent, ProducerReports, pstep = "done",
           phase \notin {"kill_consumers", "error"}
    PROVE  /\ ProducerReport \in Seq(Messages) /\ Len(ProducerReport) = MessageCount
           /\ \A i \in 1..MessageCount : ProducerReport[i] = [seq |-> i - 1, good |-> TRUE]
<1> DEFINE prefix == partial_p.msgs
<1>1. /\ prefix \in Seq(Messages) /\ pmsgs \in Seq(Messages) /\ sequence_start \in Nat
      /\ Len(ring) \in Nat
  BY CountFacts DEF RunConsistent, TypeOK, Reports, Sequences
<1>2. Len(pmsgs) = Len(ring) /\ sequence_start + Len(pmsgs) = MessageCount
  BY DEF RunConsistent, RingConsistent, ProducerReports
<1>3. sequence_start = Len(prefix)
  <2>1. CASE resets = 0
    BY <2>1 DEF RunConsistent, RingConsistent, ProducerReports, NoReport
  <2>2. CASE resets = 1
    BY <2>2 DEF ProducerReports
  <2>3. QED
    BY <2>1, <2>2 DEF RunConsistent, TypeOK
<1> HIDE DEF prefix
<1>4. \A i \in 1..Len(prefix) : prefix[i] = [seq |-> 0 + i - 1, good |-> TRUE]
  BY DEF ProducerReports, Published, prefix
<1>5. \A i \in 1..Len(pmsgs) : pmsgs[i] = [seq |-> sequence_start + i - 1, good |-> TRUE]
  BY DEF ProducerReports, Published
<1>6. \A i \in 1..Len(prefix) : prefix[i].seq = i - 1
  <2> SUFFICES ASSUME NEW i \in 1..Len(prefix) PROVE prefix[i].seq = i - 1
    OBVIOUS
  <2>1. prefix[i].seq = [seq |-> 0 + i - 1, good |-> TRUE].seq
    BY <1>4, Zenon
  <2>2. QED
    BY <1>1, <2>1
<1>7. \A i \in 1..Len(pmsgs) : pmsgs[i].seq = sequence_start + i - 1
  <2> SUFFICES ASSUME NEW i \in 1..Len(pmsgs) PROVE pmsgs[i].seq = sequence_start + i - 1
    OBVIOUS
  <2>1. pmsgs[i].seq = [seq |-> sequence_start + i - 1, good |-> TRUE].seq
    BY <1>5, Zenon
  <2>2. QED
    BY <2>1
<1>8. sequence_start <= Len(prefix) /\ Len(prefix) <= sequence_start + Len(pmsgs)
  BY <1>1, <1>2, <1>3
<1>9. /\ Concat(prefix, pmsgs) \in Seq(Messages)
      /\ Len(Concat(prefix, pmsgs)) = sequence_start + Len(pmsgs)
      /\ \A i \in 1..(sequence_start + Len(pmsgs)) :
            Concat(prefix, pmsgs)[i] = IF i <= Len(prefix) THEN prefix[i] ELSE pmsgs[i - sequence_start]
  BY <1>1, <1>6, <1>7, <1>8, ConcatConsecutive
<1>10. ASSUME NEW i \in 1..MessageCount
       PROVE  Concat(prefix, pmsgs)[i] = [seq |-> i - 1, good |-> TRUE]
  <2>1. CASE i <= Len(prefix)
    <3>1. i \in 1..Len(prefix) /\ 0 + i - 1 = i - 1
      BY <1>1, <2>1
    <3>2. QED
      BY <1>2, <1>4, <1>9, <2>1, <3>1
  <2>2. CASE ~(i <= Len(prefix))
    <3>1. i - sequence_start \in 1..Len(pmsgs) /\ sequence_start + (i - sequence_start) - 1 = i - 1
      BY <1>1, <1>2, <1>3, <2>2, CountFacts
    <3>2. QED
      BY <1>2, <1>5, <1>9, <2>2, <3>1
  <2>3. QED
    BY <2>1, <2>2
<1>11. ProducerReport = Concat(prefix, pmsgs)
  BY DEF ProducerReport, prefix
<1>12. QED
  BY <1>2, <1>9, <1>10, <1>11

\* What the oracle is given for a consumer has every sequence once, in order, whether
\* or not it was killed and wherever the producer resumed, unless it left early.
LEMMA ConsumerReportComplete ==
    ASSUME Guarded, phase = "await_consumers", NEW c \in Consumers, cstep[c] = "done",
           c \notin hasty
    PROVE  /\ Len(ConsumerReport(c)) = MessageCount
           /\ \A i \in 1..MessageCount :
                 /\ ConsumerReport(c)[i] \in Messages
                 /\ ConsumerReport(c)[i].seq = i - 1
                 /\ corrupt = MessageCount => ConsumerReport(c)[i].good
<1>1. /\ cmsgs[c] \in Seq(Messages) /\ partial_c[c].msgs \in Seq(Messages) /\ ring \in Seq(Messages)
      /\ Len(cmsgs[c]) \in Nat /\ sequence_start \in Nat /\ cursor[c] \in Nat
      /\ resets \in 0..1 /\ cursor[c] <= Len(ring)
  <2>1. partial_c[c] \in Reports
    BY DEF Guarded, RunConsistent, TypeOK
  <2>2. QED
    BY <2>1, CountFacts DEF Guarded, RunConsistent, TypeOK, Reports, Sequences
<1>2. ReportConsistent(c)
  BY DEF Guarded, ConsumerReports
<1>3. CASE c \notin restarted
  <2>1. resets = 0
    BY <1>1, <1>3 DEF Guarded, RunConsistent, PhaseConsistent
  <2>2. Received(cmsgs[c]) /\ Len(cmsgs[c]) = MessageCount
    BY <1>3, <2>1, ReceivedSoFar DEF Guarded, ConsumersConsistent
  <2>3. ConsumerReport(c) = cmsgs[c]
    BY <1>3 DEF ConsumerReport
  <2>4. QED
    BY <1>1, <2>2, <2>3 DEF Received
<1>4. CASE c \in restarted
  <2> DEFINE first == MessageCount - Len(cmsgs[c])
             producer == ProducerReport
             prefix == partial_c[c].msgs
             suffix == cmsgs[c]
             merged == Merge(producer, prefix, suffix)
  <2>1. /\ producer \in Seq(Messages) /\ Len(producer) = MessageCount
        /\ \A i \in 1..MessageCount : producer[i] = [seq |-> i - 1, good |-> TRUE]
    <3>1. pstep = "done"
      BY DEF Guarded, RunConsistent, PhaseConsistent
    <3>2. QED
      BY <3>1, ProducerReportComplete DEF Guarded
  <2>2. /\ first \in Nat /\ cursor[c] - Len(cmsgs[c]) + sequence_start = first
        /\ resets = 0 => sequence_start = 0
    <3>1. CASE resets = 0
      <4>1. sequence_start = 0 /\ cursor[c] = MessageCount
        BY <3>1 DEF Guarded, RunConsistent, RingConsistent, ConsumersConsistent
      <4>2. Len(cmsgs[c]) <= cursor[c]
        BY <1>2 DEF ReportConsistent
      <4>3. QED
        BY <1>1, <4>1, <4>2, CountFacts
    <3>2. CASE resets = 1
      <4>1. Len(cmsgs[c]) = cursor[c] /\ Len(cmsgs[c]) = MessageCount - sequence_start
        BY <1>2, <3>2 DEF ReportConsistent
      <4>2. QED
        BY <1>1, <3>2, <4>1, CountFacts
    <3>3. QED
      BY <1>1, <3>1, <3>2
  <2>3. ASSUME NEW i \in 1..Len(suffix)
        PROVE  /\ suffix[i] \in Messages /\ suffix[i].seq = first + i - 1
               /\ corrupt = MessageCount => suffix[i].good
    <3> DEFINE j == cursor[c] - Len(cmsgs[c]) + i
    <3>1. j \in 1..Len(ring) /\ suffix[i] = ring[j]
      <4>1. Len(cmsgs[c]) <= cursor[c]
        BY <1>2 DEF ReportConsistent
      <4>2. QED
        BY <1>1, <1>2, <4>1 DEF ReportConsistent
    <3>2. sequence_start + j - 1 = first + i - 1
      <4>1. cursor[c] - Len(suffix) + sequence_start = first /\ Len(suffix) \in Nat /\ i \in Nat
        BY <1>1, <2>2
      <4> HIDE DEF first, suffix
      <4>2. sequence_start + (cursor[c] - Len(suffix) + i) - 1 = first + i - 1
        BY <1>1, <2>2, <4>1
      <4>3. QED
        BY <4>2 DEF suffix
    <3> HIDE DEF j, first, suffix
    <3>3. ring[j] \in Messages
      BY <1>1, <3>1
    <3>4. ring[j].seq = sequence_start + j - 1
      BY <3>1 DEF Guarded, RunConsistent, RingConsistent
    <3>5. ring[j].seq # MessageCount
      BY <3>3, CountFacts DEF Messages, Sequences
    <3>6. corrupt = MessageCount => ring[j].good
      BY <3>1, <3>5 DEF Guarded, ProducerReports
    <3>7. QED
      BY <3>1, <3>2, <3>3, <3>4, <3>6
  <2>4. ASSUME NEW i \in 1..Len(prefix)
        PROVE  /\ prefix[i] \in Messages /\ prefix[i].seq = i - 1
               /\ corrupt = MessageCount => prefix[i].good
    BY <1>1, <1>2 DEF ReportConsistent, Received
  <2>5. ASSUME NEW i \in 1..MessageCount
        PROVE  producer[i] \in Messages /\ producer[i].seq = i - 1 /\ producer[i].good
    <3>1. producer[i] = [seq |-> i - 1, good |-> TRUE] /\ producer[i] \in Messages
      BY <2>1
    <3> HIDE DEF producer
    <3>2. QED
      BY <3>1
  <2>6. Len(prefix) <= MessageCount /\ first + Len(suffix) = MessageCount
    BY <1>1, <1>2, <2>2, CountFacts DEF ReportConsistent
  <2> HIDE DEF first, producer, prefix, suffix
  <2>7. /\ Len(merged) = Len(producer)
        /\ \A i \in 1..Len(producer) :
              \/ i <= Len(prefix) /\ merged[i] = prefix[i]
              \/ merged[i] = producer[i]
              \/ i > first /\ merged[i] = suffix[i - first]
    <3>1. prefix \in Seq(Messages) /\ suffix \in Seq(Messages)
      BY <1>1 DEF prefix, suffix
    <3>2. \A i \in 1..Len(producer) : producer[i].seq = i - 1
      BY <2>1, <2>5
    <3>3. \A i \in 1..Len(prefix) : prefix[i].seq = i - 1
      BY <2>4
    <3>4. \A i \in 1..Len(suffix) : suffix[i].seq = first + i - 1
      BY <2>3
    <3>5. Len(prefix) <= Len(producer) /\ first + Len(suffix) = Len(producer)
      BY <2>1, <2>6
    <3>6. QED
      BY <2>1, <2>2, <3>1, <3>2, <3>3, <3>4, <3>5, MergeConsecutive
  <2> HIDE DEF merged
  <2>8. ASSUME NEW i \in 1..MessageCount
        PROVE  /\ merged[i] \in Messages /\ merged[i].seq = i - 1
               /\ corrupt = MessageCount => merged[i].good
    <3>1. CASE i <= Len(prefix) /\ merged[i] = prefix[i]
      BY <2>4, <3>1, CountFacts
    <3>2. CASE merged[i] = producer[i]
      BY <2>5, <3>2
    <3>3. CASE i > first /\ merged[i] = suffix[i - first]
      <4>1. Len(suffix) \in Nat
        BY <1>1 DEF suffix
      <4>2. i - first \in 1..Len(suffix) /\ first + (i - first) - 1 = i - 1
        BY <2>2, <2>6, <3>3, <4>1, CountFacts
      <4>3. QED
        BY <2>3, <3>3, <4>2
    <3>4. QED
      BY <2>1, <2>7, <3>1, <3>2, <3>3
  <2>9. ConsumerReport(c) = merged
    BY <1>4 DEF ConsumerReport, merged, producer, prefix, suffix
  <2>10. QED
    BY <2>1, <2>7, <2>8, <2>9
<1>5. QED
  BY <1>3, <1>4

LEMMA VerifyIsRight ==
    ASSUME IInv, Verify
    PROVE  OracleRight'
<1>1. /\ phase = "await_consumers"
      /\ UNCHANGED <<corrupt, restarted, unguarded, hasty>>
      /\ \/ phase' = "error"
         \/ /\ \A c \in Consumers : cstep[c] = "done"
            /\ phase' = IF \A c \in Consumers : OracleAccepts(ProducerReport, ConsumerReport(c))
                        THEN "ok" ELSE "violation"
  BY DEF Verify, runVars, producerVars, claimVars, consumerVars, repairVars
<1>2. CASE phase' = "error"
  BY <1>2 DEF OracleRight
<1>3. CASE /\ \A c \in Consumers : cstep[c] = "done"
           /\ phase' = IF \A c \in Consumers : OracleAccepts(ProducerReport, ConsumerReport(c))
                       THEN "ok" ELSE "violation"
  <2>1. /\ Len(ProducerReport) = MessageCount
        /\ \A i \in 1..MessageCount : ProducerReport[i] = [seq |-> i - 1, good |-> TRUE]
    BY <1>1, ProducerReportComplete DEF IInv, RunConsistent, PhaseConsistent
  <2>2. ASSUME corrupt = MessageCount, ~unguarded, hasty = {}, NEW c \in Consumers
        PROVE  OracleAccepts(ProducerReport, ConsumerReport(c))
    <3> DEFINE report == ConsumerReport(c)
    <3>0. Guarded
      BY <2>2 DEF IInv, Guarded
    <3>1. /\ Len(report) = MessageCount
          /\ \A i \in 1..MessageCount :
                report[i] \in Messages /\ report[i].seq = i - 1 /\ report[i].good
      BY <1>1, <1>3, <2>2, <3>0, ConsumerReportComplete
    <3> HIDE DEF report
    <3>2. \A i \in 1..MessageCount : report[i] = [seq |-> i - 1, good |-> TRUE]
      BY <3>1 DEF Messages
    <3>3. \A i \in 2..MessageCount : report[i].seq > report[i - 1].seq
      <4> SUFFICES ASSUME NEW i \in 2..MessageCount PROVE report[i].seq > report[i - 1].seq
        OBVIOUS
      <4>1. i \in 1..MessageCount /\ i - 1 \in 1..MessageCount
        BY CountFacts
      <4>2. report[i].seq = i - 1 /\ report[i - 1].seq = i - 1 - 1
        BY <3>1, <4>1
      <4>3. QED
        BY <4>1, <4>2
    <3>4. \A i \in 1..MessageCount : report[i] = ProducerReport[i]
      BY <2>1, <3>2, Zenon
    <3>5. OracleAccepts(ProducerReport, report)
      BY <2>1, <3>1, <3>3, <3>4, Zenon DEF OracleAccepts
    <3>6. QED
      BY <3>5 DEF report
  <2>3. ASSUME corrupt # MessageCount, restarted = {},
               \A c \in Consumers : OracleAccepts(ProducerReport, ConsumerReport(c))
        PROVE  FALSE
    <3>1. PICK c \in Consumers : TRUE
      BY ConsumersAssumption
    <3>2. /\ corrupt \in 0..(MessageCount - 1) /\ resets = 0
          /\ ConsumerReport(c) = cmsgs[c]
      <4>1. corrupt \in 0..MessageCount
        BY DEF IInv, RunConsistent, TypeOK
      <4>2. resets = 0
        BY <2>3, <3>1 DEF IInv, RunConsistent, PhaseConsistent, TypeOK
      <4>3. QED
        BY <2>3, <4>1, <4>2, CountFacts DEF ConsumerReport
    <3> DEFINE i == corrupt + 1
    <3>3. i \in 1..MessageCount /\ i - 1 = corrupt
      BY <3>2, CountFacts
    <3>4. /\ Len(cmsgs[c]) = MessageCount
          /\ cmsgs[c][i] = ProducerReport[i]
      BY <2>1, <2>3, <3>1, <3>2, <3>3 DEF OracleAccepts
    <3>5. ProducerReport[i] = [seq |-> i - 1, good |-> TRUE]
      BY <2>1, <3>3
    <3> HIDE DEF i
    <3>6. cmsgs[c][i].good /\ cmsgs[c][i].seq = corrupt
      BY <3>3, <3>4, <3>5
    <3>7. i \in 1..Len(cmsgs[c])
      BY <3>3, <3>4
    <3>8. QED
      BY <3>2, <3>6, <3>7 DEF IInv, ProbeSeen
  <2>4. QED
    BY <1>1, <1>3, <2>2, <2>3, Zenon DEF OracleRight
<1>4. QED
  BY <1>1, <1>2, <1>3

\* No step but the oracle's changes the verdict, and what excuses it stays.
LEMMA StepKeepsVerdict ==
    ASSUME IInv, [Next]_vars
    PROVE  OracleRight'
<1>1. CASE UNCHANGED <<corrupt, phase, restarted>> /\ hasty \subseteq hasty' /\ (unguarded => unguarded')
  BY <1>1 DEF IInv, OracleRight
<1>2. CASE phase' \notin {"ok", "violation"}
  BY <1>2 DEF OracleRight
<1>3. CASE Verify
  BY <1>3, VerifyIsRight
<1>4. unguarded => unguarded'
  <2>1. CASE PClaim
    BY <2>1 DEF PClaim
  <2>2. CASE ~PClaim
    BY <2>2, UnguardedGrows, Zenon
  <2>3. QED
    BY <2>1, <2>2
<1>5. Producer => UNCHANGED <<corrupt, phase, restarted, hasty>>
  BY DEF Producer, PStart, PStartUnready, PClaim, PPublish, PTruncate, PWrite, PLeave, PReport,
         runVars, consumerVars, orchestratorVars, repairVars
<1>6. \A c \in Consumers :
         Consumer(c) \/ CTimesOut(c) => UNCHANGED <<corrupt, phase, restarted>> /\ hasty \subseteq hasty'
  BY DEF Consumer, CAttach, CAttachFails, CSignal, CConsume, CTruncate, CWrite, CFinish, CLook,
         CGrace, CLeave, CTimesOut, runVars, orchestratorVars, repairVars
<1>7. Orchestrator \/ WaitTimesOut => Verify \/ phase' \notin {"ok", "violation"}
  BY DEF Orchestrator, NoFault, KillProducer, Respawn, RestartConsumer, AwaitProducer,
         KillConsumer, KillOneConsumer, WaitTimesOut
<1>8. UNCHANGED vars => UNCHANGED <<corrupt, phase, restarted, hasty>>
  BY DEF vars, runVars, consumerVars, orchestratorVars, repairVars
<1>9. QED
  BY <1>1, <1>2, <1>3, <1>4, <1>5, <1>6, <1>7, <1>8 DEF Next

-----------------------------------------------------------------------------
(* The theorems. *)

\* Reports, rings, windows and cursors belong together, over every kill, lap and
\* early leave (run_raw_ring_case).
THEOREM InvariantHolds == Spec => []IInv
<1>1. Init => IInv
  BY InitEstablishes, InitWindow, InitProducerReports, InitConsumers DEF IInv
<1>2. ASSUME IInv, [Next]_vars PROVE IInv'
  <2>1. RunConsistent' /\ WindowConsistent'
    BY <1>2, StepKeepsRun, StepKeepsWindow DEF IInv
  <2>2. ProducerReports'
    BY <1>2, StepKeepsProducer DEF IInv
  <2>3. ProbeSeen'
    BY <1>2, StepKeepsProbe DEF IInv
  <2>4. OracleRight'
    BY <1>2, StepKeepsVerdict
  <2>5. ~unguarded' => ConsumersConsistent' /\ ConsumerReports'
    BY <1>2, StepKeepsConsumers
  <2>6. QED
    BY <2>1, <2>2, <2>3, <2>4, <2>5 DEF IInv
<1>3. QED
  BY <1>1, <1>2, PTL DEF Spec

\* The oracle raises no false alarm over consumers that were not lapped and did not
\* leave early and, when no report had to be repaired, misses no corrupted payload; the
\* producer's report has each sequence once, also over a restart
\* (verify_consumer_messages, concat_child_reports, merge_child_reports).
THEOREM OracleIsRight == Spec => []VerdictCorrect
<1>1. IInv => VerdictCorrect
  <2>1. SUFFICES ASSUME IInv PROVE VerdictCorrect
    OBVIOUS
  <2>2. ASSUME Judged
        PROVE  ProducerReport = [i \in 1..MessageCount |-> [seq |-> i - 1, good |-> TRUE]]
    <3>1. pstep = "done" /\ phase \notin {"kill_consumers", "error"}
      BY <2>1, <2>2 DEF IInv, RunConsistent, PhaseConsistent, Judged
    <3>2. /\ ProducerReport \in Seq(Messages) /\ Len(ProducerReport) = MessageCount
          /\ \A i \in 1..MessageCount : ProducerReport[i] = [seq |-> i - 1, good |-> TRUE]
      BY <2>1, <3>1, ProducerReportComplete DEF IInv
    <3>3. QED
      BY <3>2
  <2>3. QED
    BY <2>1, <2>2 DEF IInv, VerdictCorrect
<1>2. QED
  BY <1>1, InvariantHolds, PTL

\* A consumer that was neither killed nor lapped and looked once more leaves only with
\* everything, and over a kill of one consumer its cursor leaves nothing out; the
\* producer laps a consumer only in a ring smaller than the run, and when it waits for
\* readiness only through shared memory (run_raw_consumer_child, attach by id,
\* next_sequences).
THEOREM ConsumersGetAll == Spec => []NothingLost
<1>1. IInv => NothingLost
  <2>1. SUFFICES ASSUME IInv PROVE NothingLost
    OBVIOUS
  <2>2. resets = 1 => restarted = Consumers /\ fault = "producer_kill"
    BY <2>1 DEF IInv, RunConsistent, PhaseConsistent
  <2>3. resets \in 0..1
    BY <2>1 DEF IInv, RunConsistent, TypeOK
  <2>4. ASSUME ~unguarded, resets = 0, NEW c \in Consumers \ hasty, cstep[c] = "done"
        PROVE  received[c] = Sequences
    BY <2>1, <2>4 DEF IInv, ConsumersConsistent, Sequences
  <2>5. Judged => \A c \in Consumers : cstep[c] = "done"
    BY <2>1 DEF IInv, RunConsistent, PhaseConsistent
  <2>6. ASSUME ~unguarded, NEW c \in Consumers \ (restarted \cup hasty), cstep[c] = "done"
        PROVE  received[c] = Sequences
    BY <2>2, <2>3, <2>4, <2>6
  <2>7. ASSUME ~unguarded, Judged, fault = "consumer_kill", NEW c \in Consumers \ hasty
        PROVE  received[c] = Sequences
    BY <2>2, <2>3, <2>4, <2>5, <2>7
  <2>8. unguarded => EffectiveDepth < MessageCount /\ (Waits => backend = "shm")
    BY <2>1 DEF IInv, WindowConsistent
  <2>9. QED
    BY <2>6, <2>7, <2>8 DEF NothingLost
<1>2. QED
  BY <1>1, InvariantHolds, PTL

================================================================================
