------------------------- MODULE FramedTransport_proofs -------------------------
(***************************************************************************)
(* Proofs about FramedTransport, for every depth of the ring, number and   *)
(* length of messages, choice of receive call and bound on restarts.       *)
(***************************************************************************)
EXTENDS FramedTransport, FiniteSetTheorems, WellFoundedInduction, TLAPS

-----------------------------------------------------------------------------
(* Sequences. *)

LEMMA AppendFacts ==
    ASSUME NEW S, NEW s \in Seq(S), NEW e \in S, NEW t, t = Append(s, e)
    PROVE  /\ t \in Seq(S) /\ Len(t) = Len(s) + 1 /\ t # <<>>
           /\ DOMAIN s = 1..Len(s) /\ DOMAIN t = 1..(Len(s) + 1)
           /\ \A i \in 1..Len(s) : t[i] = s[i]
           /\ t[Len(s) + 1] = e
  OBVIOUS

\* The fields of a frame.
LEMMA FrameFields ==
    ASSUME NEW m, NEW i, NEW k
    PROVE  /\ Frame(m, i, k).id = m /\ Frame(m, i, k).index = i
           /\ Frame(m, i, k).first <=> i = 1
           /\ Frame(m, i, k).last <=> i = k
<1>1. Frame(m, i, k).id = m /\ Frame(m, i, k).index = i
  BY DEF Frame
<1>2. Frame(m, i, k).first <=> i = 1
  BY DEF Frame
<1>3. Frame(m, i, k).last <=> i = k
  BY DEF Frame
<1>4. QED
  BY <1>1, <1>2, <1>3

\* What follows from the types about where the receiver is.
LEMMA Positions ==
    ASSUME TypeOK
    PROVE  /\ DOMAIN frames = 1..Len(frames) /\ Len(frames) \in Nat
           /\ pos \in Nat /\ pos <= Len(frames) /\ acked \in Nat /\ acked <= pos
           /\ buf_id \in Nat /\ Len(buf) \in Nat /\ upper \in Nat
           /\ \A i \in 1..Len(frames) :
                 /\ frames[i] \in Frames
                 /\ frames[i].id \in 1..MaxMessages /\ frames[i].index \in 1..MaxFrames
                 /\ frames[i] = [id |-> frames[i].id, index |-> frames[i].index,
                                 first |-> frames[i].first, last |-> frames[i].last]
<1>1. \A i \in 1..Len(frames) : frames[i] \in Frames
  BY DEF TypeOK
<1>2. QED
  BY <1>1, BoundsAssumption DEF TypeOK, Frames, Data

\* The first n frames of message m.
Beginning(m, n) == [j \in 1..n |-> <<m, j>>]

\* A buffer with one more frame of its message.
LEMMA PrefixGrows ==
    ASSUME NEW b, NEW m, b \in Data, m \in 1..MaxMessages,
           b = Beginning(m, Len(b)), Len(b) + 1 \in 1..MaxFrames,
           NEW g, g = Append(b, <<m, Len(b) + 1>>)
    PROVE  /\ g \in Data /\ g # <<>> /\ Len(g) = Len(b) + 1
           /\ g = Beginning(m, Len(g))
<1>1. /\ g \in Data /\ g # <<>> /\ Len(g) = Len(b) + 1 /\ DOMAIN g = 1..Len(g)
      /\ g[Len(b) + 1] = <<m, Len(b) + 1>>
      /\ \A j \in 1..Len(b) : g[j] = b[j]
  BY AppendFacts DEF Data
<1>2. \A j \in 1..Len(b) : b[j] = <<m, j>>
  BY DEF Beginning
<1>3. ASSUME NEW j \in 1..Len(g) PROVE g[j] = <<m, j>>
  <2>1. Len(b) \in Nat
    BY DEF Data
  <2>2. j \in 1..Len(b) \/ j = Len(b) + 1
    BY <1>1, <2>1
  <2>3. QED
    BY <1>1, <1>2, <2>2
<1>4. g = [j \in DOMAIN g |-> g[j]]
  BY <1>1 DEF Data
<1>5. QED
  BY <1>1, <1>3, <1>4 DEF Beginning

LEMMA PrefixStarts ==
    ASSUME NEW m \in 1..MaxMessages, 1 \in 1..MaxFrames
    PROVE  /\ <<<<m, 1>>>> \in Data /\ <<<<m, 1>>>> # <<>> /\ Len(<<<<m, 1>>>>) = 1
           /\ <<<<m, 1>>>> = [j \in 1..1 |-> <<m, j>>]
  BY DEF Data

-----------------------------------------------------------------------------
(* The initial state. *)

LEMMA InitTransport == Init => TransportConsistent
<1> SUFFICES ASSUME Init PROVE TransportConsistent
  OBVIOUS
<1>1. frames = <<>> /\ Len(frames) = 0 /\ DOMAIN frames = {} /\ frames \in Seq(Frames)
      /\ buf \in Data /\ delivered \in Seq(Data) /\ DOMAIN delivered = {}
  BY DEF Init, Data
<1>2. TypeOK
  <2>1. acked \in 0..pos /\ pos \in 0..Len(frames) /\ Len(frames) - acked <= Depth
    BY <1>1, BoundsAssumption DEF Init
  <2>2. upper \in 0..Len(frames) /\ receiver \in Receivers
    BY <1>1 DEF Init
  <2>3. /\ msg_id \in 0..MaxMessages /\ total \in 0..MaxFrames /\ index \in 0..total
        /\ buf_id \in 0..MaxMessages /\ crashes \in 0..MaxCrashes
    BY BoundsAssumption DEF Init
  <2>4. QED
    BY <1>1, <2>1, <2>2, <2>3 DEF Init, TypeOK
<1>3. FramesInOrder /\ SenderInStep
  <2>1. \A i \in DOMAIN frames : FALSE
    BY <1>1
  <2>2. frames = <<>> /\ complete = {} /\ sending = FALSE
    BY DEF Init
  <2>3. FramesInOrder
    BY <2>1 DEF FramesInOrder
  <2>4. SenderInStep
    BY <2>1, <2>2 DEF SenderInStep
  <2>5. QED
    BY <2>3, <2>4
<1>4. ReceiverInStep /\ BufferIsPrefix /\ NothingSkipped
  <2>1. /\ pos = 0 /\ buf_id = 0 /\ buf = <<>> /\ rpc = "ready" /\ collecting = FALSE
        /\ \A i \in 1..0 : FALSE
    BY DEF Init
  <2>2. ReceiverInStep
    BY <2>1 DEF ReceiverInStep
  <2>3. BufferIsPrefix
    BY <2>1 DEF BufferIsPrefix
  <2>4. NothingSkipped
    BY <2>1 DEF NothingSkipped
  <2>5. QED
    BY <2>2, <2>3, <2>4
<1>5. IntactUnlessRestarted
  BY <1>1 DEF IntactUnlessRestarted, DeliveredIntact
<1>6. QED
  BY <1>2, <1>3, <1>4, <1>5 DEF TransportConsistent

-----------------------------------------------------------------------------
(* The sender. *)

\* The receiver's side does not mind more frames.
LEMMA SenderKeepsReceiverPart ==
    ASSUME TransportConsistent,
           NEW f \in Frames, frames' = frames \/ frames' = Append(frames, f),
           UNCHANGED <<acked, receiverVars, delivered, crashes>>,
           abandoned => abandoned'
    PROVE  ReceiverInStep' /\ BufferIsPrefix' /\ NothingSkipped' /\ IntactUnlessRestarted'
<1>1. /\ TypeOK /\ ReceiverInStep /\ BufferIsPrefix /\ NothingSkipped
      /\ IntactUnlessRestarted
  BY DEF TransportConsistent
<1> USE DEF receiverVars
<1>2. /\ DOMAIN frames = 1..Len(frames) /\ DOMAIN frames \subseteq DOMAIN frames'
      /\ \A i \in 1..Len(frames) : frames'[i] = frames[i]
  <2>1. frames \in Seq(Frames)
    BY <1>1 DEF TypeOK
  <2>2. QED
    BY <2>1, AppendFacts
<1>3. \A i \in 1..pos : i \in 1..Len(frames) /\ frames'[i] = frames[i]
  BY <1>1, <1>2, Positions
<1>4. pos > 0 => pos \in 1..pos
  BY <1>1, Positions
<1>5. ReceiverInStep'
  BY <1>1 DEF ReceiverInStep
<1>6. BufferIsPrefix'
  <2>1. \A p \in 1..pos : \A r \in (p + 1)..pos : frames'[r] = frames[r]
    BY <1>1, <1>3, Positions
  <2>2. SUFFICES ASSUME crashes = 0 \/ receiver = "batch" PROVE BufferIsPrefix'
    BY <1>1 DEF BufferIsPrefix
  <2>3. buf_id # 0 =>
            \E p \in 1..pos :
                /\ frames'[p].id = buf_id /\ frames'[p].index = Len(buf)
                /\ \A r \in (p + 1)..pos : frames'[r].id # buf_id
    BY <1>1, <1>3, <2>1, <2>2 DEF BufferIsPrefix
  <2>4. pos > 0 => frames'[pos] = frames[pos]
    BY <1>3, <1>4
  <2>5. pos \in Nat
    BY <1>1, Positions
  <2>6. QED
    BY <1>1, <2>2, <2>3, <2>4, <2>5 DEF BufferIsPrefix
<1>7. NothingSkipped'
  BY <1>1, <1>3, <1>4 DEF NothingSkipped, Delivered, MessageOf
<1>8. IntactUnlessRestarted'
  <2>1. ASSUME NEW d, Intact(d) PROVE Intact(d)'
    BY <1>2, <2>1 DEF Intact, Frame, MessageOf
  <2>2. QED
    BY <1>1, <2>1 DEF IntactUnlessRestarted, DeliveredIntact
<1>9. QED
  BY <1>5, <1>6, <1>7, <1>8

LEMMA StartKeepsTransport ==
    ASSUME TransportConsistent, NEW k \in 1..MaxFrames, StartMessage(k)
    PROVE  TransportConsistent'
<1>1. /\ TypeOK /\ FramesInOrder /\ SenderInStep
      /\ ~sending /\ msg_id < MaxMessages /\ msg_id' = msg_id + 1 /\ total' = k
      /\ index' = 0 /\ sending' = TRUE
      /\ UNCHANGED <<frames, acked, complete, abandoned, receiverVars, delivered, crashes>>
  BY DEF TransportConsistent, StartMessage
<1>2. msg_id \in Nat /\ msg_id' \in 0..MaxMessages /\ total' \in 0..MaxFrames
      /\ index' \in 0..total'
  BY <1>1, BoundsAssumption DEF TypeOK
<1>3. TypeOK'
  BY <1>1, <1>2 DEF TypeOK, receiverVars
<1>4. FramesInOrder'
  BY <1>1 DEF FramesInOrder
<1>5. SenderInStep'
  <2>1. \A i \in DOMAIN frames : frames[i].id < msg_id'
    BY <1>1, <1>2, Positions DEF SenderInStep
  <2>2. msg_id' > 0 /\ index' < total' /\ ~(index' > 0)
    BY <1>1, <1>2
  <2>3. QED
    BY <1>1, <2>1, <2>2 DEF SenderInStep
<1>6. ReceiverInStep' /\ BufferIsPrefix' /\ NothingSkipped' /\ IntactUnlessRestarted'
  <2>1. PICK f \in Frames : TRUE
    <3>1. [id |-> msg_id', index |-> k, first |-> TRUE, last |-> TRUE] \in Frames
      BY <1>1, <1>2 DEF Frames
    <3>2. QED
      BY <3>1
  <2>2. QED
    BY <1>1, <2>1, SenderKeepsReceiverPart
<1>7. QED
  BY <1>3, <1>4, <1>5, <1>6 DEF TransportConsistent

LEMMA WriteKeepsTransport ==
    ASSUME TransportConsistent, WriteFrame
    PROVE  TransportConsistent'
<1> DEFINE f == Frame(msg_id, index + 1, total)
           n == Len(frames) + 1
<1>1. /\ TypeOK /\ FramesInOrder /\ SenderInStep
      /\ sending /\ ~RingFull /\ frames' = Append(frames, f) /\ index' = index + 1
      /\ sending' = (index' < total)
      /\ complete' = IF sending' THEN complete ELSE complete \union {msg_id}
      /\ UNCHANGED <<acked, msg_id, total, abandoned, receiverVars, delivered, crashes>>
  BY DEF TransportConsistent, WriteFrame
<1>2. /\ msg_id \in 1..MaxMessages /\ index \in Nat /\ total \in 1..MaxFrames
      /\ index + 1 \in 1..total
  BY <1>1, BoundsAssumption DEF TypeOK, SenderInStep
<1>3. /\ f \in Frames
      /\ f.id = msg_id /\ f.index = index + 1 /\ (f.first <=> f.index = 1)
      /\ (f.last <=> index' = total)
  <2>1. /\ f.id = msg_id /\ f.index = index + 1
        /\ (f.first <=> index + 1 = 1) /\ (f.last <=> index + 1 = total)
    BY FrameFields
  <2>2. f \in Frames
    <3>1. msg_id \in 1..MaxMessages /\ index + 1 \in 1..MaxFrames
      BY <1>2, BoundsAssumption
    <3>2. (index + 1 = 1) \in BOOLEAN /\ (index + 1 = total) \in BOOLEAN
      OBVIOUS
    <3>3. QED
      BY <3>1, <3>2, Zenon DEF Frame, Frames
  <2> HIDE DEF f
  <2>3. f.first <=> f.index = 1
    BY <2>1
  <2>4. f.last <=> index' = total
    BY <1>1, <2>1
  <2>5. QED
    BY <2>1, <2>2, <2>3, <2>4
<1>4. /\ frames' \in Seq(Frames) /\ Len(frames') = n /\ frames' # <<>>
      /\ DOMAIN frames = 1..Len(frames) /\ DOMAIN frames' = 1..n
      /\ \A i \in 1..Len(frames) : frames'[i] = frames[i]
      /\ frames'[n] = f
  <2>1. frames \in Seq(Frames)
    BY <1>1 DEF TypeOK
  <2> HIDE DEF f
  <2>2. QED
    BY <1>1, <1>3, <2>1, AppendFacts
<1> HIDE DEF f
<1>5. Len(frames) \in Nat /\ \A i \in DOMAIN frames' : i \in DOMAIN frames \/ i = n
  BY <1>1, <1>4, Positions
<1>6. TypeOK'
  <2>1. /\ Len(frames') - acked <= Depth /\ pos \in 0..Len(frames')
        /\ upper \in 0..Len(frames')
    BY <1>1, <1>4, <1>5, BoundsAssumption, Positions DEF RingFull, TypeOK
  <2>2. index' \in 0..total /\ complete' \subseteq 1..MaxMessages /\ sending' \in BOOLEAN
    BY <1>1, <1>2 DEF TypeOK
  <2>3. QED
    BY <1>1, <1>4, <2>1, <2>2 DEF TypeOK, receiverVars
<1>7. \A i \in DOMAIN frames : frames[i].id \in Nat /\ frames[i].index \in Nat
                               /\ frames[i].id <= msg_id
                               /\ (index = 0 => frames[i].id < msg_id)
  BY <1>1, <1>2, <1>4, Positions DEF SenderInStep
<1>8. \/ /\ index > 0 /\ frames # <<>> /\ n > 1 /\ Len(frames) \in DOMAIN frames
         /\ frames[Len(frames)].id = msg_id /\ frames[Len(frames)].index = index
         /\ ~frames[Len(frames)].last
      \/ /\ index = 0 /\ f.index = 1
         /\ frames = <<>> \/ (/\ Len(frames) \in DOMAIN frames
                              /\ frames[Len(frames)].id < msg_id
                              /\ abandoned \/ frames[Len(frames)].last)
  <2>1. frames # <<>> => Len(frames) \in DOMAIN frames
    BY <1>1, <1>4, <1>5 DEF TypeOK
  <2>2. CASE index > 0
    <3>1. frames # <<>> /\ frames[Len(frames)] = Frame(msg_id, index, total)
      BY <1>1, <2>2 DEF SenderInStep
    <3>2. index # total /\ n > 1
      BY <1>1, <1>2, <1>4, <1>5, <2>1, <3>1 DEF SenderInStep
    <3>3. /\ frames[Len(frames)].id = msg_id /\ frames[Len(frames)].index = index
          /\ ~frames[Len(frames)].last
      BY <3>1, <3>2, FrameFields
    <3>4. QED
      BY <2>1, <2>2, <3>1, <3>2, <3>3
  <2>3. CASE index = 0
    BY <1>1, <1>3, <1>7, <2>1, <2>3 DEF SenderInStep
  <2>4. QED
    BY <1>2, <2>2, <2>3
<1>9. FramesInOrder'
  <2>1. \A i \in DOMAIN frames' : frames'[i].first <=> frames'[i].index = 1
    BY <1>1, <1>3, <1>4, <1>5 DEF FramesInOrder
  <2>2. ASSUME NEW i \in DOMAIN frames', NEW j \in DOMAIN frames', i < j
        PROVE  frames'[i].id <= frames'[j].id
    <3>1. i \in DOMAIN frames
      BY <1>4, <1>5, <2>2
    <3>2. CASE j \in DOMAIN frames
      BY <1>1, <1>4, <2>2, <3>1, <3>2 DEF FramesInOrder
    <3>3. CASE j = n
      BY <1>3, <1>4, <1>7, <3>1, <3>3
    <3>4. QED
      BY <1>5, <3>2, <3>3
  <2>3. ASSUME NEW i \in DOMAIN frames', i + 1 \in DOMAIN frames'
        PROVE  \/ /\ frames'[i + 1].id = frames'[i].id /\ ~frames'[i].last
                  /\ frames'[i + 1].index = frames'[i].index + 1
               \/ /\ frames'[i + 1].id > frames'[i].id /\ frames'[i + 1].index = 1
                  /\ abandoned \/ frames'[i].last
    <3>1. i \in DOMAIN frames
      BY <1>4, <1>5, <2>3
    <3>2. CASE i + 1 \in DOMAIN frames
      BY <1>1, <1>4, <3>1, <3>2 DEF FramesInOrder
    <3>3. CASE i + 1 = n
      <4>1. i = Len(frames) /\ frames'[i] = frames[i] /\ frames'[i + 1] = f /\ frames # <<>>
        BY <1>4, <1>5, <3>1, <3>3
      <4>2. QED
        BY <1>2, <1>3, <1>7, <1>8, <3>1, <4>1
    <3>4. QED
      BY <1>5, <2>3, <3>2, <3>3
  <2>4. 1 \in DOMAIN frames' => frames'[1].index = 1
    <3>1. CASE frames = <<>>
      <4>1. n = 1 /\ ~(index > 0)
        BY <1>8, <3>1
      <4>2. QED
        BY <1>4, <1>8, <4>1
    <3>2. CASE frames # <<>>
      <4>1. 1 \in DOMAIN frames
        BY <1>1, <1>4, <1>5, <3>2 DEF TypeOK
      <4>2. QED
        BY <1>1, <1>4, <4>1 DEF FramesInOrder
    <3>3. QED
      BY <3>1, <3>2
  <2>5. QED
    BY <1>1, <2>1, <2>2, <2>3, <2>4 DEF FramesInOrder
<1>10. SenderInStep'
  <2>1. (sending' <=> index' < total) /\ msg_id > 0
    <3>1. sending' <=> index' < total
      BY <1>1
    <3>2. msg_id > 0
      BY <1>2
    <3>3. QED
      BY <3>1, <3>2
  <2>2. index' > 0 /\ frames'[Len(frames')] = Frame(msg_id, index', total)
    BY <1>1, <1>2, <1>4 DEF f
  <2>3. \A i \in DOMAIN frames' : frames'[i].id <= msg_id
    BY <1>2, <1>3, <1>4, <1>5, <1>7
  <2>4. ~sending' => frames'[Len(frames')].last
    <3>1. index' \in Nat /\ index' <= total
      BY <1>1, <1>2
    <3>2. ~sending' => index' = total
      BY <1>2, <2>1, <3>1
    <3>3. QED
      BY <1>3, <1>4, <3>2
  <2>5. ASSUME NEW m \in complete' PROVE \E i \in DOMAIN frames' : frames'[i].id = m
                                                                 /\ frames'[i].last
    <3>1. CASE m \in complete
      <4>1. PICK i \in DOMAIN frames : frames[i].id = m /\ frames[i].last
        BY <1>1, <3>1 DEF SenderInStep
      <4>2. i \in DOMAIN frames' /\ frames'[i] = frames[i]
        BY <1>4, <1>5, <4>1
      <4>3. QED
        BY <4>1, <4>2
    <3>2. CASE m \notin complete
      <4>1. m = msg_id /\ ~sending'
        BY <1>1, <2>5, <3>2
      <4>2. n \in DOMAIN frames'
        BY <1>4, <1>5
      <4>3. QED
        BY <1>3, <1>4, <2>4, <4>1, <4>2
    <3>3. QED
      BY <3>1, <3>2
  <2>6. index' # 0
    BY <1>1, <1>2
  <2>7. QED
    BY <1>1, <1>4, <2>1, <2>2, <2>3, <2>4, <2>5, <2>6 DEF SenderInStep
<1>11. ReceiverInStep' /\ BufferIsPrefix' /\ NothingSkipped' /\ IntactUnlessRestarted'
  BY <1>1, <1>3, SenderKeepsReceiverPart
<1>12. QED
  BY <1>6, <1>9, <1>10, <1>11 DEF TransportConsistent

\* An abandoned message ends in the middle: the error of publish_managed.
LEMMA AbandonKeepsTransport ==
    ASSUME TransportConsistent, AbandonMessage
    PROVE  TransportConsistent'
<1>1. /\ TypeOK /\ FramesInOrder /\ SenderInStep
      /\ sending /\ sending' = FALSE /\ abandoned' = TRUE
      /\ UNCHANGED <<frames, acked, msg_id, total, index, complete, receiverVars, delivered,
                     crashes>>
  BY DEF TransportConsistent, AbandonMessage
<1>2. TypeOK' /\ FramesInOrder'
  BY <1>1 DEF TypeOK, FramesInOrder, receiverVars
<1>3. SenderInStep'
  <2>1. \A i \in DOMAIN frames : frames[i].id <= msg_id
    <3>1. \A i \in DOMAIN frames : frames[i].id < msg_id \/ frames[i].id <= msg_id
      BY <1>1 DEF SenderInStep
    <3>2. msg_id \in Int
      BY <1>1, BoundsAssumption DEF TypeOK
    <3>3. \A i \in DOMAIN frames : frames[i].id \in Int
      BY <1>1, BoundsAssumption, Positions
    <3>4. QED
      BY <3>1, <3>2, <3>3
  <2>2. QED
    BY <1>1, <2>1 DEF SenderInStep
<1>4. ReceiverInStep' /\ BufferIsPrefix' /\ NothingSkipped' /\ IntactUnlessRestarted'
  <2>1. /\ ReceiverInStep /\ BufferIsPrefix /\ NothingSkipped /\ IntactUnlessRestarted
    BY DEF TransportConsistent
  <2>2. QED
    BY <1>1, <2>1 DEF ReceiverInStep, BufferIsPrefix, NothingSkipped, Delivered, MessageOf,
                      IntactUnlessRestarted, DeliveredIntact, Intact, receiverVars
<1>5. QED
  BY <1>2, <1>3, <1>4 DEF TransportConsistent

-----------------------------------------------------------------------------
(* The receivers. *)

\* The frame a receiver looks at next, and how it follows the last one.
LEMMA NextFrameFacts ==
    ASSUME TypeOK, FramesInOrder, pos < Len(frames)
    PROVE  /\ pos + 1 \in DOMAIN frames /\ NextFrame \in Frames
           /\ NextFrame.id \in 1..MaxMessages /\ NextFrame.index \in 1..MaxFrames
           /\ NextFrame.first <=> NextFrame.index = 1
           /\ Payload(NextFrame) \in (1..MaxMessages) \X (1..MaxFrames)
           /\ pos = 0 => NextFrame.index = 1
           /\ pos > 0 =>
                 /\ pos \in DOMAIN frames
                 /\ \/ /\ NextFrame.id = frames[pos].id /\ ~frames[pos].last
                       /\ NextFrame.index = frames[pos].index + 1
                    \/ /\ NextFrame.id > frames[pos].id /\ NextFrame.index = 1
                       /\ abandoned \/ frames[pos].last
<1>1. /\ pos + 1 \in DOMAIN frames /\ pos \in Nat /\ pos + 1 \in 1..Len(frames)
      /\ pos > 0 => pos \in DOMAIN frames
  BY Positions
<1>2. /\ NextFrame \in Frames
      /\ NextFrame.id \in 1..MaxMessages /\ NextFrame.index \in 1..MaxFrames
  BY <1>1, Positions DEF NextFrame
<1>3. Payload(NextFrame) \in (1..MaxMessages) \X (1..MaxFrames)
  BY <1>2 DEF Payload
<1>4. NextFrame.first <=> NextFrame.index = 1
  BY <1>1 DEF FramesInOrder, NextFrame
<1>5. pos = 0 => NextFrame.index = 1
  BY <1>1 DEF FramesInOrder, NextFrame
<1>6. pos > 0 => \/ /\ NextFrame.id = frames[pos].id /\ ~frames[pos].last
                    /\ NextFrame.index = frames[pos].index + 1
                 \/ /\ NextFrame.id > frames[pos].id /\ NextFrame.index = 1
                    /\ abandoned \/ frames[pos].last
  BY <1>1 DEF FramesInOrder, NextFrame
<1>7. QED
  BY <1>1, <1>2, <1>3, <1>4, <1>5, <1>6

\* A frame of the message that is being collected is the one after those collected.
LEMMA Continues ==
    ASSUME TypeOK, FramesInOrder, BufferIsPrefix, crashes = 0 \/ receiver = "batch",
           pos < Len(frames), buf_id # 0, NextFrame.id = buf_id
    PROVE  /\ NextFrame.index = Len(buf) + 1
           /\ pos > 0 /\ frames[pos].id = buf_id /\ ~frames[pos].last
<1>1. PICK p \in 1..pos : /\ frames[p].id = buf_id /\ frames[p].index = Len(buf)
                          /\ \A r \in (p + 1)..pos : frames[r].id # buf_id
  BY DEF BufferIsPrefix
<1>2. pos \in Nat /\ DOMAIN frames = 1..Len(frames) /\ Len(frames) \in Nat
  BY Positions
<1>3. p = pos
  <2>1. SUFFICES ASSUME p < pos PROVE FALSE
    BY <1>2
  <2>2. p + 1 \in (p + 1)..pos /\ p \in DOMAIN frames /\ p + 1 \in DOMAIN frames
        /\ pos + 1 \in DOMAIN frames /\ p < p + 1 /\ p + 1 < pos + 1
    BY <1>2, <2>1
  <2>3. frames[p].id <= frames[p + 1].id /\ frames[p + 1].id <= frames[pos + 1].id
    BY <2>2 DEF FramesInOrder
  <2>4. frames[p].id \in Int /\ frames[p + 1].id \in Int
    BY <1>2, <2>2, Positions
  <2>5. frames[p + 1].id # buf_id
    BY <1>1, <2>2
  <2>6. QED
    BY <1>1, <2>3, <2>4, <2>5 DEF NextFrame
<1>4. pos > 0 /\ pos \in 1..Len(frames) /\ frames[pos].id \in Nat
  BY <1>2, <1>3, Positions
<1>5. QED
  BY <1>1, <1>3, <1>4, NextFrameFacts

\* A prefix that ends with a last frame is a whole message.
LEMMA WholeIsIntact ==
    ASSUME TypeOK, FramesInOrder,
           NEW q \in DOMAIN frames, NEW d \in Data, d # <<>>,
           frames[q].last, frames[q].index = Len(d),
           d = [j \in 1..Len(d) |-> <<frames[q].id, j>>]
    PROVE  Intact(d) /\ MessageOf(d) = frames[q].id
<1>1. Len(d) \in Nat /\ Len(d) >= 1 /\ 1 \in 1..Len(d)
  BY DEF Data
<1>2. d[1] = <<frames[q].id, 1>>
  BY <1>1
<1>3. MessageOf(d) = frames[q].id
  BY <1>2 DEF MessageOf
<1>4. frames[q] = Frame(frames[q].id, Len(d), Len(d))
  <2>1. /\ frames[q] = [id |-> frames[q].id, index |-> frames[q].index,
                        first |-> frames[q].first, last |-> frames[q].last]
        /\ frames[q].first \in BOOLEAN /\ frames[q].last \in BOOLEAN
    BY Positions DEF Frames
  <2>2. frames[q].first <=> frames[q].index = 1
    BY DEF FramesInOrder
  <2>3. frames[q].first = (Len(d) = 1) /\ frames[q].last = (Len(d) = Len(d))
    BY <2>1, <2>2
  <2>4. QED
    BY <2>1, <2>3, Zenon DEF Frame
<1>5. QED
  BY <1>3, <1>4 DEF Intact

\* The blocking receivers look at a frame: skip it, start with it, or append it.
LEMMA ReceiveKeepsTransport ==
    ASSUME TransportConsistent, ReceiveFrame
    PROVE  TransportConsistent'
<1> DEFINE f == NextFrame
<1>1. /\ TypeOK /\ FramesInOrder /\ SenderInStep /\ ReceiverInStep /\ BufferIsPrefix
      /\ NothingSkipped /\ IntactUnlessRestarted
      /\ receiver # "batch" /\ rpc = "ready" /\ pos < Len(frames) /\ pos' = pos + 1
      /\ buf' = Collected(f) /\ buf_id' = IF Skips(f) THEN buf_id ELSE f.id
      /\ collecting' = TRUE
      /\ rpc' = IF ~Finishes(f) THEN "ready"
                ELSE IF receiver = "owned" THEN "return" ELSE "lease"
      /\ acked' = IF rpc' = "lease" /\ (collecting \/ Single(f)) THEN acked ELSE pos + 1
      /\ UNCHANGED <<frames, senderVars, receiver, upper, delivered, crashes>>
  BY DEF TransportConsistent, ReceiveFrame
<1>2. /\ pos + 1 \in DOMAIN frames /\ f \in Frames
      /\ f.id \in 1..MaxMessages /\ f.index \in 1..MaxFrames
      /\ f.first <=> f.index = 1
      /\ Payload(f) \in (1..MaxMessages) \X (1..MaxFrames)
      /\ pos = 0 => f.index = 1
      /\ pos > 0 =>
            /\ pos \in DOMAIN frames
            /\ \/ /\ f.id = frames[pos].id /\ ~frames[pos].last
                  /\ f.index = frames[pos].index + 1
               \/ /\ f.id > frames[pos].id /\ f.index = 1
                  /\ abandoned \/ frames[pos].last
  BY <1>1, NextFrameFacts
<1>3. /\ DOMAIN frames = 1..Len(frames) /\ Len(frames) \in Nat /\ pos \in Nat
      /\ acked \in Nat /\ acked <= pos /\ frames[pos + 1] = f
  BY <1>1, Positions DEF NextFrame
<1> HIDE DEF f
<1>4. TypeOK'
  <2>1. buf' \in Data
    <3>1. Append(buf, Payload(f)) \in Data /\ <<Payload(f)>> \in Data /\ buf \in Data
      BY <1>1, <1>2 DEF TypeOK, Data
    <3>2. QED
      BY <1>1, <3>1 DEF Collected
  <2>2. acked' \in 0..pos' /\ Len(frames) - acked' <= Depth /\ pos' \in 0..Len(frames)
    <3>1. acked' \in {acked, pos + 1}
      BY <1>1
    <3>2. QED
      BY <1>1, <1>3, <3>1, BoundsAssumption DEF TypeOK
  <2>3. buf_id' \in 0..MaxMessages
    BY <1>1, <1>2, BoundsAssumption DEF TypeOK
  <2>4. rpc' \in {"ready", "return", "lease"} /\ collecting' \in BOOLEAN
    BY <1>1
  <2>5. QED
    BY <1>1, <2>1, <2>2, <2>3, <2>4 DEF TypeOK, senderVars
<1>5. FramesInOrder' /\ SenderInStep' /\ ReceiverInStep' /\ IntactUnlessRestarted'
  <2>1. FramesInOrder' /\ SenderInStep'
    BY <1>1 DEF FramesInOrder, SenderInStep, senderVars
  <2>2. ReceiverInStep'
    BY <1>1 DEF ReceiverInStep
  <2>3. IntactUnlessRestarted'
    BY <1>1 DEF IntactUnlessRestarted, DeliveredIntact, Intact
  <2>4. QED
    BY <2>1, <2>2, <2>3
<1>6. CASE crashes # 0
  BY <1>1, <1>4, <1>5, <1>6 DEF TransportConsistent, BufferIsPrefix, NothingSkipped
<1>7. CASE crashes = 0 /\ Skips(f)
  <2>1. collecting /\ f.id # buf_id
    BY <1>7 DEF Skips
  <2>2. /\ buf' = buf /\ buf_id' = buf_id /\ rpc' = "ready" /\ buf_id # 0
    BY <1>1, <1>7, <2>1 DEF Collected, Finishes, BufferIsPrefix
  <2>3. BufferIsPrefix'
    <3>1. PICK p \in 1..pos : /\ frames[p].id = buf_id /\ frames[p].index = Len(buf)
                              /\ \A r \in (p + 1)..pos : frames[r].id # buf_id
      BY <1>1, <1>7, <2>2 DEF BufferIsPrefix
    <3>2. p \in 1..pos' /\ \A r \in (p + 1)..pos' : r \in (p + 1)..pos \/ r = pos + 1
      BY <1>1, <1>3
    <3>3. \A r \in (p + 1)..pos' : frames[r].id # buf_id
      BY <1>3, <2>1, <3>1, <3>2
    <3>4. buf # <<>> /\ buf = [j \in 1..Len(buf) |-> <<buf_id, j>>]
      BY <1>1, <1>7, <2>2 DEF BufferIsPrefix
    <3>5. QED
      BY <1>1, <2>2, <3>1, <3>2, <3>3, <3>4 DEF BufferIsPrefix
  <2>4. NothingSkipped'
    <3>1. SUFFICES ASSUME ~abandoned PROVE FALSE
      BY <1>1, <1>7 DEF NothingSkipped, senderVars
    <3>2. /\ pos > 0 /\ ~frames[pos].last /\ buf_id = frames[pos].id
      BY <1>1, <1>7, <2>1, <3>1 DEF NothingSkipped
    <3>3. QED
      BY <1>2, <2>1, <3>1, <3>2
  <2>5. QED
    BY <1>4, <1>5, <2>3, <2>4 DEF TransportConsistent
<1>8. CASE crashes = 0 /\ ~Skips(f)
  <2>1. /\ buf_id' = f.id /\ f.id # 0
        /\ rpc' = IF ~f.last THEN "ready"
                  ELSE IF receiver = "owned" THEN "return" ELSE "lease"
    BY <1>1, <1>2, <1>8 DEF Finishes
  <2>2. /\ buf' # <<>> /\ Len(buf') = f.index
        /\ buf' = [j \in 1..Len(buf') |-> <<f.id, j>>]
    <3>1. CASE collecting
      <4>1. buf_id # 0 /\ f.id = buf_id /\ buf' = Append(buf, Payload(f))
        BY <1>1, <1>8, <3>1 DEF BufferIsPrefix, Skips, Collected
      <4>2. f.index = Len(buf) + 1
        BY <1>1, <1>8, <4>1, Continues DEF f
      <4>3. buf \in Data /\ buf = [j \in 1..Len(buf) |-> <<buf_id, j>>]
        BY <1>1, <1>8, <4>1 DEF TypeOK, BufferIsPrefix
      <4>4. buf' = Append(buf, <<f.id, Len(buf) + 1>>)
        BY <4>1, <4>2 DEF Payload
      <4>5. QED
        BY <1>2, <4>1, <4>2, <4>3, <4>4, PrefixGrows
    <3>2. CASE ~collecting
      <4>1. pos = 0 \/ frames[pos].last
        BY <1>1, <1>8, <3>2 DEF BufferIsPrefix
      <4>2. f.index = 1
        BY <1>2, <1>3, <4>1
      <4>3. buf' = <<<<f.id, 1>>>>
        BY <1>1, <1>8, <3>2, <4>2 DEF Collected, Payload
      <4>4. QED
        BY <1>2, <4>2, <4>3, PrefixStarts
    <3>3. QED
      BY <3>1, <3>2
  <2>3. BufferIsPrefix'
    <3>1. /\ pos' \in 1..pos' /\ pos' > 0 /\ frames[pos'] = f
          /\ \A r \in (pos' + 1)..pos' : FALSE
      BY <1>1, <1>3
    <3>2. rpc' \in {"return", "lease", "drop"} => f.last
      BY <2>1
    <3>3. QED
      BY <1>1, <2>1, <2>2, <3>1, <3>2 DEF BufferIsPrefix
  <2>4. NothingSkipped'
    <3>1. SUFFICES ASSUME ~abandoned PROVE NothingSkipped'
      BY <1>1 DEF NothingSkipped, senderVars
    <3>2. /\ frames[pos'] = f /\ \A i \in 1..pos' : i \in 1..pos \/ i = pos'
      BY <1>1, <1>3
    <3>3. ASSUME NEW i \in 1..pos', frames[i].last
          PROVE  \/ Delivered(frames[i].id)'
                 \/ rpc' \in {"return", "lease"} /\ buf_id' = frames[i].id
      <4>1. CASE i \in 1..pos
        <5>1. Delivered(frames[i].id)
          BY <1>1, <1>8, <3>1, <3>3, <4>1 DEF NothingSkipped
        <5>2. QED
          BY <1>1, <5>1 DEF Delivered, MessageOf
      <4>2. CASE i = pos'
        BY <2>1, <3>2, <3>3, <4>2
      <4>3. QED
        BY <3>2, <4>1, <4>2
    <3>4. rpc' = "ready" => ~frames[pos'].last
      BY <2>1, <3>2
    <3>5. rpc' = "lease" => acked' < pos'
      <4>1. SUFFICES ASSUME rpc' = "lease" PROVE collecting \/ Single(f)
        BY <1>1, <1>3
      <4>2. f.last
        BY <2>1, <4>1
      <4>3. ~collecting => f.index = 1
        BY <1>1, <1>2, <1>3, <1>8 DEF BufferIsPrefix
      <4>4. QED
        BY <1>2, <4>2, <4>3 DEF Single
    <3>6. pos' > 0
      BY <1>1, <1>3
    <3>7. QED
      BY <1>1, <2>1, <3>2, <3>3, <3>4, <3>5, <3>6 DEF NothingSkipped, Delivered
  <2>5. QED
    BY <1>4, <1>5, <2>3, <2>4 DEF TransportConsistent
<1>9. QED
  BY <1>6, <1>7, <1>8

\* Some message delivered in d is m.
DeliveredIn(d, m) == \E i \in DOMAIN d : MessageOf(d[i]) = m

\* More is delivered.
LEMMA DeliveryFacts ==
    ASSUME TypeOK, IntactUnlessRestarted, NEW d \in Data, delivered' = Append(delivered, d),
           UNCHANGED <<frames, crashes, receiver>>,
           crashes = 0 \/ receiver = "batch" => Intact(d)
    PROVE  /\ delivered' \in Seq(Data) /\ IntactUnlessRestarted'
           /\ DeliveredIn(delivered', MessageOf(d))
           /\ \A m : Delivered(m) => DeliveredIn(delivered', m)
<1>1. delivered \in Seq(Data)
  BY DEF TypeOK
<1>2. /\ delivered' \in Seq(Data) /\ DOMAIN delivered = 1..Len(delivered)
      /\ DOMAIN delivered' = 1..(Len(delivered) + 1)
      /\ \A i \in 1..Len(delivered) : delivered'[i] = delivered[i]
      /\ delivered'[Len(delivered) + 1] = d
  BY <1>1, AppendFacts
<1>3. /\ Len(delivered) \in Nat /\ Len(delivered) + 1 \in DOMAIN delivered'
      /\ \A i \in DOMAIN delivered' : i \in DOMAIN delivered \/ i = Len(delivered) + 1
  BY <1>1, <1>2
<1>4. IntactUnlessRestarted'
  <2>1. SUFFICES ASSUME crashes = 0 \/ receiver = "batch", NEW i \in DOMAIN delivered'
                 PROVE  Intact(delivered'[i])
    BY DEF IntactUnlessRestarted, DeliveredIntact, Intact
  <2>2. QED
    BY <1>2, <1>3, <2>1 DEF IntactUnlessRestarted, DeliveredIntact
<1>5. DeliveredIn(delivered', MessageOf(d))
  BY <1>2, <1>3 DEF DeliveredIn
<1>6. ASSUME NEW m, Delivered(m) PROVE DeliveredIn(delivered', m)
  BY <1>2, <1>3, <1>6 DEF Delivered, DeliveredIn, MessageOf
<1>7. QED
  BY <1>2, <1>4, <1>5, <1>6

\* The buffer of a finished message is that message.
LEMMA FinishedIsIntact ==
    ASSUME TransportConsistent, rpc \in {"return", "lease"}, crashes = 0 \/ receiver = "batch"
    PROVE  Intact(buf) /\ MessageOf(buf) = buf_id
<1>1. /\ TypeOK /\ FramesInOrder /\ pos > 0
      /\ frames[pos].last /\ frames[pos].id = buf_id /\ frames[pos].index = Len(buf)
  BY DEF TransportConsistent, BufferIsPrefix
<1>2. pos \in DOMAIN frames
  BY <1>1, Positions
<1>3. buf_id # 0 /\ buf \in Data
  <2>1. frames[pos].id \in 1..MaxMessages
    BY <1>1, <1>2, Positions
  <2>2. QED
    BY <1>1, <2>1 DEF TypeOK
<1>4. buf # <<>> /\ buf = [j \in 1..Len(buf) |-> <<buf_id, j>>]
  BY <1>3 DEF TransportConsistent, BufferIsPrefix
<1>5. QED
  BY <1>1, <1>2, <1>3, <1>4, WholeIsIntact

\* recv_message_blocking returns; the handler of the leased one is called.
LEMMA DeliverKeepsTransport ==
    ASSUME TransportConsistent, ReturnMessage \/ HandleLeased
    PROVE  TransportConsistent'
<1>1. /\ TypeOK /\ FramesInOrder /\ SenderInStep /\ ReceiverInStep /\ BufferIsPrefix
      /\ NothingSkipped /\ IntactUnlessRestarted
      /\ rpc \in {"return", "lease"} /\ delivered' = Append(delivered, buf)
      /\ UNCHANGED <<frames, acked, senderVars, receiver, pos, upper, crashes>>
      /\ \/ rpc' = "ready" /\ collecting' = FALSE /\ buf' = <<>> /\ buf_id' = 0
         \/ rpc' = "drop" /\ UNCHANGED <<collecting, buf, buf_id>>
  BY DEF TransportConsistent, ReturnMessage, HandleLeased
<1>2. /\ crashes = 0 \/ receiver = "batch" => Intact(buf) /\ MessageOf(buf) = buf_id
      /\ buf \in Data
  BY <1>1, FinishedIsIntact DEF TypeOK
<1>3. /\ delivered' \in Seq(Data) /\ IntactUnlessRestarted'
      /\ DeliveredIn(delivered', MessageOf(buf))
      /\ \A m : Delivered(m) => DeliveredIn(delivered', m)
  BY <1>1, <1>2, DeliveryFacts
<1>4. TypeOK'
  <2>1. <<>> \in Data /\ 0 \in 0..MaxMessages
    BY BoundsAssumption DEF Data
  <2>2. QED
    BY <1>1, <1>3, <2>1 DEF TypeOK, senderVars
<1>5. FramesInOrder' /\ SenderInStep'
  BY <1>1 DEF FramesInOrder, SenderInStep, senderVars
<1>6. ReceiverInStep'
  BY <1>1 DEF ReceiverInStep
<1>7. BufferIsPrefix'
  <2>1. CASE rpc' = "ready" /\ collecting' = FALSE /\ buf' = <<>> /\ buf_id' = 0
    <3>1. SUFFICES ASSUME crashes = 0 \/ receiver = "batch"
                   PROVE  pos = 0 \/ frames[pos].last
      BY <1>1, <2>1 DEF BufferIsPrefix
    <3>2. QED
      BY <1>1, <3>1 DEF BufferIsPrefix
  <2>2. CASE rpc' = "drop" /\ UNCHANGED <<collecting, buf, buf_id>>
    <3>1. UNCHANGED <<frames, pos, receiver, crashes, collecting, buf, buf_id>>
      BY <1>1, <2>2
    <3>2. QED
      BY <1>1, <2>2, <3>1 DEF BufferIsPrefix
  <2>3. QED
    BY <1>1, <2>1, <2>2
<1>8. NothingSkipped'
  <2>1. SUFFICES ASSUME crashes = 0, receiver = "batch" \/ ~abandoned PROVE NothingSkipped'
    BY <1>1 DEF NothingSkipped, senderVars
  <2>2. ASSUME NEW i \in 1..pos, frames[i].last
        PROVE  DeliveredIn(delivered', frames[i].id)
    <3>1. Delivered(frames[i].id) \/ buf_id = frames[i].id
      BY <1>1, <2>1, <2>2 DEF NothingSkipped
    <3>2. QED
      BY <1>2, <1>3, <2>1, <3>1
  <2>3. frames[pos].last
    BY <1>1, <2>1 DEF BufferIsPrefix
  <2>4. QED
    BY <1>1, <2>2, <2>3 DEF NothingSkipped, Delivered, DeliveredIn, MessageOf
<1>9. QED
  BY <1>3, <1>4, <1>5, <1>6, <1>7, <1>8 DEF TransportConsistent

\* What moves only the receiver's positions, or empties its buffer at the end of a
\* message.
LEMMA AcknowledgeKeepsTransport ==
    ASSUME TransportConsistent, DropLease \/ StartBatch \/ AcknowledgeBatch
    PROVE  TransportConsistent'
<1>1. /\ TypeOK /\ FramesInOrder /\ SenderInStep /\ ReceiverInStep /\ BufferIsPrefix
      /\ NothingSkipped /\ IntactUnlessRestarted
      /\ UNCHANGED <<frames, senderVars, receiver, pos, delivered, crashes>>
      /\ acked' \in {acked, pos} /\ upper' \in {upper, Len(frames)}
      /\ \/ rpc = "drop" /\ rpc' = "ready" /\ collecting' = FALSE /\ buf' = <<>> /\ buf_id' = 0
         \/ /\ rpc \in {"ready", "batch"} /\ rpc' \in {"ready", "batch"} /\ receiver = "batch"
            /\ UNCHANGED <<collecting, buf, buf_id>>
  BY DEF TransportConsistent, DropLease, StartBatch, AcknowledgeBatch, ReceiverInStep
<1>2. TypeOK'
  <2>1. acked' \in 0..pos /\ Len(frames) - acked' <= Depth /\ upper' \in 0..Len(frames)
    BY <1>1, BoundsAssumption, Positions DEF TypeOK
  <2>2. <<>> \in Data /\ 0 \in 0..MaxMessages
    BY BoundsAssumption DEF Data
  <2>3. QED
    BY <1>1, <2>1, <2>2 DEF TypeOK, senderVars
<1>3. FramesInOrder' /\ SenderInStep'
  BY <1>1 DEF FramesInOrder, SenderInStep, senderVars
<1>4. ReceiverInStep'
  BY <1>1 DEF ReceiverInStep
<1>5. BufferIsPrefix'
  BY <1>1 DEF BufferIsPrefix
<1>6. NothingSkipped'
  BY <1>1 DEF NothingSkipped, BufferIsPrefix, Delivered, MessageOf, senderVars
<1>7. IntactUnlessRestarted'
  BY <1>1 DEF IntactUnlessRestarted, DeliveredIntact, Intact
<1>8. QED
  BY <1>2, <1>3, <1>4, <1>5, <1>6, <1>7 DEF TransportConsistent

\* process_available_messages looks at a frame: deliver it, finish a message, start
\* one, add to it, or leave the frame.
LEMMA ProcessKeepsTransport ==
    ASSUME TransportConsistent, ProcessFrame
    PROVE  TransportConsistent'
<1> DEFINE f == NextFrame
           g == Gathered(f)
<1>1. /\ TypeOK /\ FramesInOrder /\ SenderInStep /\ ReceiverInStep /\ BufferIsPrefix
      /\ NothingSkipped /\ IntactUnlessRestarted
      /\ rpc = "batch" /\ receiver = "batch" /\ pos < upper /\ pos' = pos + 1
      /\ UNCHANGED <<frames, acked, senderVars, receiver, rpc, upper, collecting, crashes>>
  BY DEF TransportConsistent, ProcessFrame, ReceiverInStep
<1>1a. \/ /\ Single(f) /\ delivered' = Append(delivered, <<Payload(f)>>)
          /\ buf' = buf /\ buf_id' = buf_id
       \/ /\ ~Single(f) /\ f.last /\ g.id = f.id /\ delivered' = Append(delivered, g.data)
          /\ buf' = <<>> /\ buf_id' = 0
       \/ /\ ~Single(f) /\ ~(f.last /\ g.id = f.id) /\ delivered' = delivered
          /\ buf' = g.data /\ buf_id' = g.id
  BY DEF ProcessFrame
<1>2. pos < Len(frames)
  BY <1>1, Positions DEF TypeOK
<1>3. /\ pos + 1 \in DOMAIN frames /\ f \in Frames
      /\ f.id \in 1..MaxMessages /\ f.index \in 1..MaxFrames
      /\ f.first <=> f.index = 1
      /\ Payload(f) \in (1..MaxMessages) \X (1..MaxFrames)
      /\ pos = 0 => f.index = 1
      /\ pos > 0 =>
            /\ pos \in DOMAIN frames
            /\ \/ /\ f.id = frames[pos].id /\ ~frames[pos].last
                  /\ f.index = frames[pos].index + 1
               \/ /\ f.id > frames[pos].id /\ f.index = 1
                  /\ abandoned \/ frames[pos].last
  BY <1>1, <1>2, NextFrameFacts
<1>4. /\ DOMAIN frames = 1..Len(frames) /\ Len(frames) \in Nat /\ pos \in Nat
      /\ acked \in Nat /\ acked <= pos /\ frames[pos + 1] = f
  BY <1>1, Positions DEF NextFrame
<1>5. f.id = buf_id => f.index = Len(buf) + 1
  <2>1. buf_id = f.id => buf_id # 0
    BY <1>3
  <2>2. QED
    BY <1>1, <1>2, <2>1, Continues
<1> HIDE DEF f
<1>6. /\ g.id \in 0..MaxMessages /\ g.data \in Data
      /\ \/ /\ g.id = f.id /\ g.data # <<>> /\ Len(g.data) = f.index
            /\ g.data = [j \in 1..Len(g.data) |-> <<f.id, j>>]
         \/ ~f.first /\ f.id # buf_id /\ g.id = buf_id /\ g.data = buf
  <2>1. CASE f.first
    <3>1. g.id = f.id /\ g.data = <<<<f.id, 1>>>> /\ f.index = 1
      BY <1>3, <2>1 DEF Gathered, Payload
    <3>2. QED
      BY <1>3, <3>1, PrefixStarts
  <2>2. CASE ~f.first /\ f.id = buf_id
    <3>1. g.id = f.id /\ g.data = Append(buf, <<f.id, Len(buf) + 1>>)
      BY <1>5, <2>2 DEF Gathered, Payload
    <3>2. buf \in Data /\ buf = [j \in 1..Len(buf) |-> <<f.id, j>>]
      BY <1>1, <1>3, <2>2 DEF TypeOK, BufferIsPrefix
    <3>3. f.index = Len(buf) + 1 /\ Len(buf) + 1 \in 1..MaxFrames
      BY <1>3, <1>5, <2>2
    <3> DEFINE h == g.data
    <3>4. /\ f.id \in 1..MaxMessages
          /\ buf = [j \in 1..Len(buf) |-> <<f.id, j>>]
          /\ h = Append(buf, <<f.id, Len(buf) + 1>>)
      BY <1>3, <2>2, <3>1, <3>2
    <3> HIDE DEF h
    <3>5. h \in Data /\ h # <<>> /\ Len(h) = Len(buf) + 1 /\ h = [j \in 1..Len(h) |-> <<f.id, j>>]
      <4>1. buf \in Data /\ Len(buf) + 1 \in 1..MaxFrames /\ buf = Beginning(f.id, Len(buf))
        BY <3>2, <3>3 DEF Beginning
      <4>2. h \in Data /\ h # <<>> /\ Len(h) = Len(buf) + 1 /\ h = Beginning(f.id, Len(h))
        BY <3>4, <4>1, PrefixGrows
      <4>3. QED
        BY <4>2 DEF Beginning
    <3>6. g.id = f.id /\ g.id \in 0..MaxMessages /\ h = g.data
      BY <1>3, <3>1 DEF h
    <3>7. Len(h) = f.index
      BY <3>3, <3>5
    <3> HIDE DEF g
    <3>8. QED
      BY <3>5, <3>6, <3>7
  <2>3. CASE ~f.first /\ f.id # buf_id
    BY <1>1, <2>3 DEF Gathered, TypeOK
  <2>4. QED
    BY <2>1, <2>2, <2>3
<1> HIDE DEF g
<1>7. Single(f) => <<Payload(f)>> = <<<<f.id, 1>>>> /\ f.index = 1 /\ f.last
  BY <1>3 DEF Single, Payload
<1>8. ~Single(f) /\ f.last => ~f.first
  BY DEF Single
<1>9. /\ delivered' \in Seq(Data) /\ IntactUnlessRestarted'
      /\ \A m : Delivered(m) => DeliveredIn(delivered', m)
      /\ Single(f) \/ (f.last /\ g.id = f.id) => DeliveredIn(delivered', f.id)
  <2>1. CASE Single(f)
    <3> DEFINE d == <<Payload(f)>>
    <3>1. /\ d \in Data /\ d # <<>> /\ Len(d) = 1
          /\ d = [j \in 1..Len(d) |-> <<f.id, j>>]
      BY <1>3, <1>7, <2>1, PrefixStarts
    <3>2. delivered' = Append(delivered, d) /\ f.last /\ f.index = 1
      BY <1>1a, <1>7, <2>1
    <3> HIDE DEF d
    <3>3. Intact(d) /\ MessageOf(d) = f.id
      <4>1. pos + 1 \in DOMAIN frames /\ frames[pos + 1] = f
        BY <1>3, <1>4
      <4>2. /\ frames[pos + 1].last /\ frames[pos + 1].index = Len(d)
            /\ d = [j \in 1..Len(d) |-> <<frames[pos + 1].id, j>>]
        BY <3>1, <3>2, <4>1
      <4>3. TypeOK /\ FramesInOrder /\ d \in Data /\ d # <<>>
        BY <1>1, <3>1
      <4>4. Intact(d) /\ MessageOf(d) = frames[pos + 1].id
        BY <4>1, <4>2, <4>3, WholeIsIntact
      <4>5. QED
        BY <4>1, <4>4
    <3>4. QED
      BY <1>1, <2>1, <3>1, <3>2, <3>3, DeliveryFacts
  <2>2. CASE ~Single(f) /\ f.last /\ g.id = f.id
    <3>1. /\ g.data # <<>> /\ Len(g.data) = f.index
          /\ g.data = [j \in 1..Len(g.data) |-> <<f.id, j>>]
      BY <1>6, <2>2
    <3>2. Intact(g.data) /\ MessageOf(g.data) = f.id
      BY <1>1, <1>3, <1>4, <1>6, <2>2, <3>1, WholeIsIntact
    <3>3. delivered' = Append(delivered, g.data)
      BY <1>1a, <2>2
    <3>4. QED
      BY <1>1, <1>6, <3>2, <3>3, DeliveryFacts
  <2>3. CASE ~Single(f) /\ ~(f.last /\ g.id = f.id)
    <3>1. delivered' = delivered
      BY <1>1a, <2>3
    <3>2. QED
      BY <1>1, <2>3, <3>1 DEF TypeOK, IntactUnlessRestarted, DeliveredIntact, Intact,
                              Delivered, DeliveredIn, MessageOf
  <2>4. QED
    BY <2>1, <2>2, <2>3
<1>10. TypeOK'
  <2>1. acked \in 0..pos' /\ pos' \in 0..Len(frames)
    BY <1>1, <1>2, <1>4
  <2>2. buf' \in Data /\ buf_id' \in 0..MaxMessages
    <3>1. <<>> \in Data /\ 0 \in 0..MaxMessages
      BY BoundsAssumption DEF Data
    <3>2. QED
      BY <1>1, <1>1a, <1>6, <3>1 DEF TypeOK
  <2>3. QED
    BY <1>1, <1>9, <2>1, <2>2 DEF TypeOK, senderVars
<1>11. FramesInOrder' /\ SenderInStep'
  BY <1>1 DEF FramesInOrder, SenderInStep, senderVars
<1>12. ReceiverInStep'
  BY <1>1 DEF ReceiverInStep
<1>13. BufferIsPrefix'
  <2>1. CASE buf' = <<>> /\ buf_id' = 0
    BY <1>1, <2>1 DEF BufferIsPrefix
  <2>2. CASE /\ buf' = g.data /\ buf_id' = f.id /\ g.data # <<>> /\ Len(g.data) = f.index
             /\ g.data = [j \in 1..Len(g.data) |-> <<f.id, j>>]
    <3>1. pos' \in 1..pos' /\ frames[pos'] = f /\ \A r \in (pos' + 1)..pos' : FALSE
      BY <1>1, <1>4
    <3>2. f.id # 0
      BY <1>3
    <3>3. QED
      BY <1>1, <2>2, <3>1, <3>2 DEF BufferIsPrefix
  <2>3. CASE buf' = buf /\ buf_id' = buf_id /\ f.id # buf_id
    <3>1. CASE buf_id = 0
      BY <1>1, <2>3, <3>1 DEF BufferIsPrefix
    <3>2. CASE buf_id # 0
      <4>1. PICK p \in 1..pos : /\ frames[p].id = buf_id /\ frames[p].index = Len(buf)
                                /\ \A r \in (p + 1)..pos : frames[r].id # buf_id
        BY <1>1, <3>2 DEF BufferIsPrefix
      <4>2. p \in 1..pos' /\ \A r \in (p + 1)..pos' : r \in (p + 1)..pos \/ r = pos + 1
        BY <1>1, <1>4
      <4>3. \A r \in (p + 1)..pos' : frames[r].id # buf_id
        BY <1>4, <2>3, <4>1, <4>2
      <4>4. buf # <<>> /\ buf = [j \in 1..Len(buf) |-> <<buf_id, j>>]
        BY <1>1, <3>2 DEF BufferIsPrefix
      <4>5. QED
        BY <1>1, <2>3, <3>2, <4>1, <4>2, <4>3, <4>4 DEF BufferIsPrefix
    <3>3. QED
      BY <3>1, <3>2
  <2>4. Single(f) => f.id # buf_id
    <3>1. SUFFICES ASSUME Single(f), f.id = buf_id PROVE FALSE
      OBVIOUS
    <3>2. Len(buf) + 1 = 1 /\ buf \in Data /\ buf # <<>>
      BY <1>1, <1>3, <1>5, <1>7, <3>1 DEF TypeOK, BufferIsPrefix
    <3>3. QED
      BY <3>2 DEF Data
  <2>5. QED
    BY <1>1a, <1>6, <2>1, <2>2, <2>3, <2>4
<1>14. NothingSkipped'
  <2>1. SUFFICES ASSUME crashes = 0 PROVE NothingSkipped'
    BY <1>1 DEF NothingSkipped
  <2>2. ~f.first => f.id = buf_id
    <3>1. SUFFICES ASSUME ~f.first PROVE f.id = buf_id
      OBVIOUS
    <3>2. pos > 0 /\ f.id = frames[pos].id /\ ~frames[pos].last
      BY <1>3, <1>4, <3>1
    <3>3. QED
      BY <1>1, <2>1, <3>2 DEF NothingSkipped
  <2>3. g.id = f.id
    BY <1>6, <2>2
  <2>4. f.last => DeliveredIn(delivered', f.id)
    BY <1>9, <2>3
  <2>5. ~f.last => buf_id' = f.id
    BY <1>1a, <2>3 DEF Single
  <2>6. frames[pos'] = f /\ \A i \in 1..pos' : i \in 1..pos \/ i = pos'
    BY <1>1, <1>4
  <2>7. ASSUME NEW i \in 1..pos', frames[i].last
        PROVE  DeliveredIn(delivered', frames[i].id)
    <3>1. CASE i \in 1..pos
      BY <1>1, <1>9, <2>1, <2>7, <3>1 DEF NothingSkipped
    <3>2. CASE i = pos'
      BY <2>4, <2>6, <2>7, <3>2
    <3>3. QED
      BY <2>6, <3>1, <3>2
  <2>8. QED
    BY <1>1, <2>5, <2>6, <2>7 DEF NothingSkipped, Delivered, DeliveredIn, MessageOf
<1>15. QED
  BY <1>9, <1>10, <1>11, <1>12, <1>13, <1>14 DEF TransportConsistent

\* A receiver that comes back has lost its buffer.
LEMMA RestartKeepsTransport ==
    ASSUME TransportConsistent, Restart
    PROVE  TransportConsistent'
<1>1. /\ TypeOK /\ FramesInOrder /\ SenderInStep /\ IntactUnlessRestarted
      /\ crashes < MaxCrashes /\ crashes' = crashes + 1
      /\ pos' = acked /\ upper' = acked
      /\ rpc' = "ready" /\ collecting' = FALSE /\ buf' = <<>> /\ buf_id' = 0
      /\ UNCHANGED <<frames, acked, senderVars, receiver, delivered>>
  BY DEF TransportConsistent, Restart
<1>2. crashes' \in 0..MaxCrashes /\ crashes' # 0
  BY <1>1, BoundsAssumption DEF TypeOK
<1>3. TypeOK'
  <2>1. acked \in 0..acked /\ acked \in 0..Len(frames)
    BY <1>1, Positions
  <2>2. <<>> \in Data /\ 0 \in 0..MaxMessages
    BY BoundsAssumption DEF Data
  <2>3. QED
    BY <1>1, <1>2, <2>1, <2>2 DEF TypeOK, senderVars
<1>4. FramesInOrder' /\ SenderInStep'
  BY <1>1 DEF FramesInOrder, SenderInStep, senderVars
<1>5. ReceiverInStep' /\ BufferIsPrefix' /\ NothingSkipped'
  BY <1>1, <1>2 DEF ReceiverInStep, BufferIsPrefix, NothingSkipped
<1>6. IntactUnlessRestarted'
  BY <1>1, <1>2 DEF IntactUnlessRestarted, DeliveredIntact, Intact
<1>7. QED
  BY <1>3, <1>4, <1>5, <1>6 DEF TransportConsistent

LEMMA StepKeepsTransport ==
    ASSUME TransportConsistent, [Next]_vars
    PROVE  TransportConsistent'
<1>1. CASE Next
  BY <1>1, StartKeepsTransport, WriteKeepsTransport, AbandonKeepsTransport,
     ReceiveKeepsTransport, DeliverKeepsTransport, AcknowledgeKeepsTransport,
     ProcessKeepsTransport, RestartKeepsTransport
  DEF Next, ReceiverStep
<1>2. CASE UNCHANGED vars
  BY <1>2 DEF TransportConsistent, TypeOK, FramesInOrder, SenderInStep, ReceiverInStep,
              BufferIsPrefix, NothingSkipped, IntactUnlessRestarted, DeliveredIntact, Intact,
              Delivered, MessageOf, vars, senderVars, receiverVars
<1>3. QED
  BY <1>1, <1>2

-----------------------------------------------------------------------------
(* What a receiver collects, also after a restart. *)

LEMMA InitQueue == Init => QueueInStep
<1> SUFFICES ASSUME Init PROVE QueueInStep
  OBVIOUS
<1>1. DOMAIN frames = {}
  BY DEF Init
<1>2. QED
  BY <1>1 DEF Init, QueueInStep

\* The sender completes a message with its last frame.
LEMMA SenderKeepsQueue ==
    ASSUME IInv, WriteFrame
    PROVE  QueueInStep'
<1> DEFINE f == Frame(msg_id, index + 1, total)
           n == Len(frames)
<1>1. /\ TypeOK /\ QueueInStep /\ frames \in Seq(Frames)
      /\ frames' = Append(frames, f) /\ index' = index + 1
      /\ complete' = IF index + 1 < total THEN complete ELSE complete \union {msg_id}
      /\ UNCHANGED <<acked, receiverVars>>
  BY DEF IInv, TransportConsistent, TypeOK, WriteFrame
<1>2. /\ DOMAIN frames = 1..n /\ DOMAIN frames' = 1..(n + 1) /\ n \in Nat /\ pos \in 0..n
      /\ \A i \in 1..n : frames'[i] = frames[i]
      /\ frames'[n + 1] = f
  BY <1>1 DEF TypeOK
<1>3. f.id = msg_id /\ (f.last <=> index + 1 = total)
  BY FrameFields
<1>4. ASSUME NEW i \in DOMAIN frames', frames'[i].last PROVE frames'[i].id \in complete'
  <2>1. CASE i \in 1..n
    BY <1>1, <1>2, <1>4, <2>1 DEF QueueInStep
  <2>2. CASE i = n + 1
    <3>1. index + 1 = total /\ total \in Nat
      BY <1>1, <1>2, <1>3, <1>4, <2>2, BoundsAssumption DEF TypeOK
    <3>2. QED
      BY <1>1, <1>2, <1>3, <2>2, <3>1
  <2>3. QED
    BY <1>2, <2>1, <2>2
<1>5. pos > 0 => frames'[pos] = frames[pos]
  BY <1>2
<1>6. QED
  BY <1>1, <1>4, <1>5 DEF QueueInStep, MessageOf, receiverVars

\* A frame of the message in the buffer is appended, any other starts one or is skipped.
LEMMA ReceiveKeepsQueue ==
    ASSUME IInv, ReceiveFrame
    PROVE  QueueInStep'
<1> DEFINE f == NextFrame
<1>1. /\ TypeOK /\ FramesInOrder /\ QueueInStep /\ receiver # "batch" /\ rpc = "ready"
      /\ pos < Len(frames) /\ pos' = pos + 1 /\ collecting' = TRUE
      /\ buf' = Collected(f) /\ buf_id' = IF Skips(f) THEN buf_id ELSE f.id
      /\ rpc' = IF ~Finishes(f) THEN "ready"
                ELSE IF receiver = "owned" THEN "return" ELSE "lease"
      /\ acked' = IF rpc' = "lease" /\ (collecting \/ Single(f)) THEN acked ELSE pos + 1
      /\ UNCHANGED <<frames, complete, receiver>>
  BY DEF IInv, TransportConsistent, ReceiveFrame, senderVars
<1>2. pos \in Nat /\ buf \in Data /\ Payload(f) \in (1..MaxMessages) \X (1..MaxFrames)
  BY <1>1, Positions, NextFrameFacts DEF TypeOK
<1> HIDE DEF f
<1>3. buf' # <<>> /\ MessageOf(buf') = buf_id'
  <2>1. CASE Skips(f)
    BY <1>1, <2>1 DEF QueueInStep, Collected, Skips
  <2>2. CASE ~Skips(f) /\ collecting
    <3>1. buf # <<>> /\ MessageOf(buf) = buf_id /\ f.id = buf_id
      BY <1>1, <2>2 DEF QueueInStep, Skips
    <3>2. buf' = Append(buf, Payload(f))
      BY <1>1, <2>2 DEF Collected
    <3>3. buf' # <<>> /\ buf'[1] = buf[1]
      BY <1>2, <3>1, <3>2 DEF Data
    <3>4. QED
      BY <1>1, <2>2, <3>1, <3>3 DEF MessageOf
  <2>3. CASE ~Skips(f) /\ ~collecting
    <3>1. buf' = <<Payload(f)>> /\ buf_id' = f.id
      BY <1>1, <2>3 DEF Collected
    <3>2. QED
      BY <3>1 DEF MessageOf, Payload
  <2>4. QED
    BY <2>1, <2>2, <2>3
<1>4. rpc' \in {"return", "lease"} => frames[pos + 1].last /\ frames[pos + 1].id = buf_id'
  BY <1>1 DEF Finishes, f, NextFrame
<1>5. QED
  BY <1>1, <1>2, <1>3, <1>4 DEF QueueInStep

LEMMA StepKeepsQueue ==
    ASSUME IInv, [Next]_vars
    PROVE  QueueInStep'
<1>1. TypeOK /\ QueueInStep /\ ReceiverInStep
  BY DEF IInv, TransportConsistent
<1>2. ASSUME UNCHANGED <<frames, complete, acked, receiverVars>> PROVE QueueInStep'
  BY <1>1, <1>2 DEF QueueInStep, MessageOf, receiverVars
<1>3. \A k \in 1..MaxFrames : StartMessage(k) => UNCHANGED <<frames, complete, acked, receiverVars>>
  BY DEF StartMessage
<1>4. AbandonMessage \/ UNCHANGED vars => UNCHANGED <<frames, complete, acked, receiverVars>>
  BY DEF AbandonMessage, vars, senderVars
<1>5. CASE ReturnMessage \/ DropLease
  BY <1>1, <1>5 DEF QueueInStep, ReturnMessage, DropLease, senderVars, ReceiverInStep
<1>6. CASE HandleLeased
  BY <1>1, <1>6 DEF QueueInStep, HandleLeased, senderVars, MessageOf
<1>7. CASE StartBatch \/ ProcessFrame \/ AcknowledgeBatch
  BY <1>1, <1>7 DEF QueueInStep, StartBatch, ProcessFrame, AcknowledgeBatch, senderVars,
                    ReceiverInStep
<1>8. CASE Restart
  BY <1>1, <1>8 DEF QueueInStep, Restart, senderVars
<1>9. QED
  BY <1>2, <1>3, <1>4, <1>5, <1>6, <1>7, <1>8, SenderKeepsQueue, ReceiveKeepsQueue
     DEF Next, ReceiverStep

-----------------------------------------------------------------------------
(* The messages that end within a number of frames. *)

LEMMA LatestIsGreatest ==
    ASSUME NEW S, S # {}, S \subseteq 1..MaxMessages
    PROVE  Latest(S) \in S /\ \A s \in S : s <= Latest(S)
<1> DEFINE Domain == 1..MaxMessages
           From(s) == s..MaxMessages
           R == StrictSubsetOrdering(Domain)
           T == {From(s) : s \in S}
<1>1. T \subseteq SUBSET Domain /\ T # {}
  <2>1. ASSUME NEW s \in S PROVE From(s) \subseteq Domain
    BY BoundsAssumption
  <2>2. QED
    BY <2>1
<1>2. PICK X \in T : \A Y \in T : ~ (<<Y, X>> \in R)
  <2>1. IsFiniteSet(Domain)
    BY BoundsAssumption, FS_Interval
  <2>2. T \subseteq FiniteSubsetsOf(Domain)
    BY <1>1, <2>1, FS_FiniteSubsetsOfFinite
  <2>3. IsWellFoundedOn(R, FiniteSubsetsOf(Domain))
    BY FS_StrictSubsetOrderingWellFounded
  <2> HIDE DEF R, T, Domain
  <2>4. QED
    BY <1>1, <2>2, <2>3, WFMin
<1>3. PICK m \in S : X = From(m)
  OBVIOUS
<1>4. \A s \in S : s <= m
  <2>1. SUFFICES ASSUME NEW s \in S, s > m PROVE FALSE
    BY BoundsAssumption
  <2>2. From(s) \subseteq From(m) /\ From(s) # From(m)
    BY <2>1, BoundsAssumption
  <2>3. From(s) \in SUBSET Domain /\ From(m) \in SUBSET Domain
    BY <1>1
  <2>4. <<From(s), From(m)>> \in R
    BY <2>2, <2>3 DEF StrictSubsetOrdering
  <2>5. QED
    BY <1>2, <1>3, <2>4
<1>5. QED
  BY <1>4 DEF Latest

\* The last of the messages that end within n frames is one that was completed.
LEMMA LatestEnded ==
    ASSUME IInv, NEW n \in 0..Len(frames)
    PROVE  /\ Ended(n) \subseteq 1..MaxMessages /\ Ended(n) \subseteq complete
           /\ Latest(Ended(n)) \in Nat
           /\ \A s \in Ended(n) : s <= Latest(Ended(n))
           /\ Latest(Ended(n)) > 0 => Latest(Ended(n)) \in Ended(n)
<1>1. /\ DOMAIN frames = 1..Len(frames) /\ Len(frames) \in Nat
      /\ \A i \in 1..Len(frames) : frames[i].id \in 1..MaxMessages
      /\ \A i \in 1..Len(frames) : frames[i].last => frames[i].id \in complete
  BY Positions DEF IInv, TransportConsistent, QueueInStep
<1>2. Ended(n) \subseteq 1..MaxMessages /\ Ended(n) \subseteq complete
  BY <1>1 DEF Ended
<1>3. CASE Ended(n) = {}
  BY <1>2, <1>3 DEF Latest
<1>4. CASE Ended(n) # {}
  <2>1. Latest(Ended(n)) \in Ended(n) /\ \A s \in Ended(n) : s <= Latest(Ended(n))
    BY <1>2, <1>4, LatestIsGreatest
  <2>2. QED
    BY <1>2, <2>1
<1>5. QED
  BY <1>3, <1>4

\* A message that ends within n frames is older than the frame after them.
LEMMA EndedBefore ==
    ASSUME IInv, NEW n \in Nat, n + 1 \in DOMAIN frames, NEW m \in Ended(n)
    PROVE  m < frames[n + 1].id
<1>1. PICK i \in 1..n : frames[i].last /\ frames[i].id = m
  BY DEF Ended
<1>2. /\ DOMAIN frames = 1..Len(frames) /\ Len(frames) \in Nat
      /\ i \in DOMAIN frames /\ i + 1 \in DOMAIN frames
      /\ frames[i].id \in Nat /\ frames[i + 1].id \in Nat /\ frames[n + 1].id \in Nat
  <2>1. DOMAIN frames = 1..Len(frames) /\ Len(frames) \in Nat
    BY Positions DEF IInv, TransportConsistent
  <2>2. i \in DOMAIN frames /\ i + 1 \in DOMAIN frames
    BY <2>1
  <2>3. QED
    BY <2>1, <2>2, Positions DEF IInv, TransportConsistent
<1>3. frames[i + 1].id > frames[i].id
  BY <1>1, <1>2 DEF IInv, TransportConsistent, FramesInOrder
<1>4. frames[i + 1].id <= frames[n + 1].id
  <2>1. CASE i = n
    BY <1>2, <2>1
  <2>2. CASE i # n
    <3>1. i + 1 < n + 1
      BY <2>2
    <3>2. QED
      BY <1>2, <3>1 DEF IInv, TransportConsistent, FramesInOrder
  <2>3. QED
    BY <2>1, <2>2
<1>5. QED
  BY <1>1, <1>2, <1>3, <1>4

\* The frame after n frames ends no message, or the next message.
LEMMA NextEnded ==
    ASSUME IInv, NEW n \in 0..Len(frames), n < Len(frames)
    PROVE  /\ ~frames[n + 1].last => Ended(n + 1) = Ended(n)
           /\ frames[n + 1].last =>
                 /\ Latest(Ended(n + 1)) = frames[n + 1].id
                 /\ frames[n + 1].id \in complete /\ frames[n + 1].id > Latest(Ended(n))
                 /\ \A s \in complete : s > Latest(Ended(n)) => s >= frames[n + 1].id
<1> DEFINE f == frames[n + 1]
           last == Latest(Ended(n))
<1>1. /\ n \in Nat /\ n + 1 \in DOMAIN frames /\ DOMAIN frames = 1..Len(frames)
      /\ Len(frames) \in Nat /\ n + 1 \in 0..Len(frames) /\ f.id \in Nat \ {0}
  BY Positions DEF IInv, TransportConsistent
<1>2. Ended(n + 1) = IF f.last THEN Ended(n) \cup {f.id} ELSE Ended(n)
  <2>1. 1..(n + 1) = (1..n) \cup {n + 1}
    BY <1>1
  <2>2. QED
    BY <2>1 DEF Ended
<1>3. ASSUME f.last
      PROVE  /\ Latest(Ended(n + 1)) = f.id /\ f.id \in complete /\ f.id > last
             /\ \A s \in complete : s > last => s >= f.id
  <2>1. /\ last \in Nat /\ \A s \in Ended(n) : s <= last
        /\ last > 0 => last \in Ended(n)
    BY LatestEnded
  <2>2. /\ f.id \in Ended(n + 1) /\ f.id \in complete
        /\ Latest(Ended(n + 1)) \in Nat
        /\ \A s \in Ended(n + 1) : s <= Latest(Ended(n + 1))
        /\ Latest(Ended(n + 1)) > 0 => Latest(Ended(n + 1)) \in Ended(n + 1)
    BY <1>1, <1>2, <1>3, LatestEnded
  <2>3. \A s \in Ended(n) : s < f.id
    BY <1>1, EndedBefore
  <2> HIDE DEF f, last
  <2>4. f.id > last
    BY <1>1, <2>1, <2>3
  <2>5. Latest(Ended(n + 1)) = f.id
    <3>1. Latest(Ended(n + 1)) >= f.id
      BY <2>2
    <3>2. Latest(Ended(n + 1)) \in Ended(n) \cup {f.id}
      BY <1>1, <1>2, <1>3, <2>2, <3>1
    <3>3. QED
      BY <1>1, <2>2, <2>3, <3>1, <3>2
  <2>6. ASSUME NEW s \in complete, s > last PROVE s >= f.id
    <3>1. PICK i \in DOMAIN frames : frames[i].id = s /\ frames[i].last
      BY DEF IInv, TransportConsistent, SenderInStep
    <3>2. ~(i \in 1..n)
      <4>1. i \in 1..n => s \in Ended(n)
        BY <3>1 DEF Ended
      <4>2. s \in Nat
        BY <1>1, <3>1, Positions DEF IInv, TransportConsistent
      <4>3. QED
        BY <2>1, <2>6, <4>1, <4>2
    <3>3. i = n + 1 \/ n + 1 < i
      BY <1>1, <3>2
    <3>4. frames[i].id \in Nat /\ f.id \in Nat
      BY <1>1, <3>1, Positions DEF IInv, TransportConsistent
    <3>5. n + 1 < i => f.id <= frames[i].id
      BY <1>1 DEF IInv, TransportConsistent, FramesInOrder, f
    <3>6. QED
      BY <3>1, <3>3, <3>4, <3>5 DEF f
  <2>7. QED
    BY <2>2, <2>4, <2>5, <2>6
<1>4. QED
  BY <1>2, <1>3

\* The further a receiver is, the later is the last message it is past.
LEMMA LatestGrows ==
    ASSUME IInv, NEW a \in 0..Len(frames), NEW b \in 0..Len(frames), a <= b
    PROVE  Latest(Ended(a)) <= Latest(Ended(b))
<1>1. Ended(a) \subseteq Ended(b)
  <2>1. 1..a \subseteq 1..b /\ Len(frames) \in Nat
    BY Positions DEF IInv, TransportConsistent
  <2>2. QED
    BY <2>1 DEF Ended
<1>2. QED
  BY <1>1, LatestEnded

-----------------------------------------------------------------------------
(* The transport implements the queue, step by step. *)

\* The receiver moves: its places are looked up among the same frames.
LEMMA SameFrames ==
    ASSUME frames' = frames
    PROVE  Handed' = Latest(Ended(Past')) /\ Acknowledged' = Latest(Ended(acked'))
  BY DEF Handed, Acknowledged, Ended, Latest

LEMMA PastInRange ==
    ASSUME IInv
    PROVE  /\ Past \in 0..Len(frames) /\ Past <= pos /\ Len(frames) \in Nat
           /\ pos \in 0..Len(frames) /\ acked \in 0..Len(frames) /\ acked <= pos
           /\ rpc \in {"return", "lease"} => receiver # "batch" /\ pos > 0
<1>1. /\ TypeOK /\ pos \in Nat /\ Len(frames) \in Nat /\ pos <= Len(frames)
      /\ acked \in Nat /\ acked <= pos
  BY Positions DEF IInv, TransportConsistent
<1>2. rpc \in {"return", "lease"} => receiver # "batch" /\ pos > 0
  BY DEF IInv, TransportConsistent, ReceiverInStep, QueueInStep
<1>3. QED
  BY <1>1, <1>2 DEF Past

\* Nothing the queue knows of changes.
LEMMA QuietStep ==
    ASSUME UNCHANGED <<frames, complete, delivered>>, Failed' = Failed,
           Latest(Ended(Past')) = Handed, Latest(Ended(acked')) = Acknowledged
    PROVE  UNCHANGED Queue!queueVars
<1>1. HandedOver' = HandedOver
  BY DEF HandedOver, MessageOf
<1>2. QED
  BY <1>1, SameFrames DEF Queue!queueVars

\* The receiver gets past the last frame of a message with the message in its hands.
LEMMA DeliverStep ==
    ASSUME IInv, UNCHANGED <<frames, complete, acked>>, Failed' = Failed,
           Past < Len(frames), Past' = Past + 1, frames[Past + 1].last,
           NEW d \in Data, delivered' = Append(delivered, d),
           MessageOf(d) = frames[Past + 1].id
    PROVE  Queue!Deliver
<1> DEFINE m == frames[Past + 1].id
<1>1. /\ Handed' = m /\ m \in complete /\ m > Handed
      /\ \A s \in complete : s > Handed => s >= m
  BY PastInRange, NextEnded, SameFrames DEF Handed
<1>2. HandedOver' = Append(HandedOver, m)
  <2> DEFINE Ids == {MessageOf(e) : e \in Data}
  <2>1. delivered \in Seq(Data)
    BY DEF IInv, TransportConsistent, TypeOK
  <2>2. /\ delivered' \in Seq(Data) /\ Len(delivered) \in Nat
        /\ DOMAIN delivered = 1..Len(delivered) /\ DOMAIN delivered' = 1..(Len(delivered) + 1)
        /\ \A i \in 1..Len(delivered) : delivered'[i] = delivered[i] /\ delivered[i] \in Data
        /\ delivered'[Len(delivered) + 1] = d
    BY <2>1, AppendFacts
  <2>3. HandedOver' = [i \in 1..(Len(delivered) + 1) |-> MessageOf(delivered'[i])]
    BY <2>2 DEF HandedOver, MessageOf
  <2>4. HandedOver \in Seq(Ids) /\ Len(HandedOver) = Len(delivered)
    BY <2>2 DEF HandedOver
  <2>5. \A i \in 1..Len(delivered) : HandedOver[i] = MessageOf(delivered'[i])
    BY <2>2 DEF HandedOver
  <2>6. MessageOf(delivered'[Len(delivered) + 1]) = m /\ m \in Ids
    BY <2>2
  <2> HIDE DEF m, Ids
  <2> DEFINE longer == Append(HandedOver, m)
             k == Len(delivered)
  <2>7. /\ longer \in Seq(Ids) /\ DOMAIN longer = 1..(k + 1) /\ longer[k + 1] = m
        /\ \A i \in 1..k : longer[i] = HandedOver[i]
    BY <2>4, <2>6, AppendFacts
  <2> HIDE DEF longer, k
  <2>8. longer = [i \in 1..(k + 1) |-> longer[i]]
    <3>1. longer = [i \in DOMAIN longer |-> longer[i]]
      BY <2>7
    <3>2. QED
      BY <2>7, <3>1
  <2>9. \A i \in 1..(k + 1) : longer[i] = MessageOf(delivered'[i])
    <3>1. k \in Nat /\ \A i \in 1..(k + 1) : i \in 1..k \/ i = k + 1
      BY <2>2 DEF k
    <3>2. MessageOf(delivered'[k + 1]) = m /\ \A i \in 1..k : HandedOver[i] = MessageOf(delivered'[i])
      BY <2>5, <2>6 DEF k
    <3>3. QED
      BY <2>7, <3>1, <3>2
  <2>10. HandedOver' = [i \in 1..(k + 1) |-> MessageOf(delivered'[i])]
    BY <2>3 DEF k
  <2>11. HandedOver' = longer
    BY <2>8, <2>9, <2>10
  <2>12. QED
    BY <2>11 DEF longer
<1>3. UNCHANGED <<complete, Acknowledged, Failed>>
  BY SameFrames DEF Acknowledged
<1> HIDE DEF m
<1>4. QED
  BY <1>1, <1>2, <1>3 DEF Queue!Deliver, Queue!IsNext

\* The receiver gets past the last frame of a message it does not have.
LEMMA LoseStep ==
    ASSUME IInv, UNCHANGED <<frames, complete, delivered>>, Failed, Failed' = Failed,
           Past < Len(frames), Past' = Past + 1, frames[Past + 1].last,
           acked' \in {acked, Past + 1}
    PROVE  Queue!Lose
<1> DEFINE m == frames[Past + 1].id
<1>1. /\ Latest(Ended(Past + 1)) = m /\ m \in complete /\ m > Handed
      /\ \A s \in complete : s > Handed => s >= m
  BY PastInRange, NextEnded DEF Handed
<1>2. Handed' = m /\ Acknowledged' \in {Acknowledged, m}
  BY <1>1, SameFrames DEF Acknowledged
<1>3. HandedOver' = HandedOver
  BY DEF HandedOver, MessageOf
<1> HIDE DEF m
<1>4. QED
  BY <1>1, <1>2, <1>3 DEF Queue!Lose, Queue!IsNext

\* The receiver acknowledges frames of messages it has handed over, or of the next.
LEMMA AcknowledgeStep ==
    ASSUME IInv, UNCHANGED <<frames, complete, delivered>>, Failed' = Failed, Past' = Past,
           acked' \in 0..Len(frames), acked <= acked', acked' <= Past + 1
    PROVE  Queue!Acknowledge \/ UNCHANGED Queue!queueVars
<1> DEFINE m == Latest(Ended(acked'))
<1>1. /\ Past \in 0..Len(frames) /\ acked \in 0..Len(frames) /\ Len(frames) \in Nat
      /\ Acknowledged \in Nat /\ Handed \in Nat
      /\ Acknowledged <= m /\ m \in Nat /\ (m > 0 => m \in complete)
  BY PastInRange, LatestEnded, LatestGrows DEF Acknowledged, Handed
<1>2. Handed' = Handed /\ Acknowledged' = m /\ HandedOver' = HandedOver
  BY SameFrames DEF Handed, HandedOver, MessageOf
<1>3. m <= Handed \/ (m > Handed /\ \A s \in complete : s > Handed => s >= m)
  <2>1. CASE acked' <= Past
    BY <1>1, <2>1, LatestGrows DEF Handed
  <2>2. CASE acked' = Past + 1 /\ frames[Past + 1].last
    BY <1>1, <2>2, NextEnded DEF Handed
  <2>3. CASE acked' = Past + 1 /\ ~frames[Past + 1].last
    BY <1>1, <2>3, NextEnded DEF Handed
  <2>4. QED
    BY <1>1, <2>1, <2>2, <2>3
<1> HIDE DEF m
<1>4. CASE m = Acknowledged
  BY <1>2, <1>4 DEF Queue!queueVars
<1>5. CASE m > Acknowledged
  BY <1>1, <1>2, <1>3, <1>5 DEF Queue!Acknowledge, Queue!IsNext
<1>6. QED
  BY <1>1, <1>4, <1>5

\* Writing the last frame of a message sends it; no other frame does.
LEMMA WriteRefines ==
    ASSUME IInv, WriteFrame
    PROVE  Queue!Send \/ UNCHANGED Queue!queueVars
<1> DEFINE n == Len(frames)
<1>1. /\ TypeOK /\ SenderInStep /\ QueueInStep /\ TransportConsistent' /\ QueueInStep'
      /\ frames' = Append(frames, Frame(msg_id, index + 1, total)) /\ sending
      /\ complete' = IF index + 1 < total THEN complete ELSE complete \union {msg_id}
      /\ UNCHANGED <<acked, msg_id, total, abandoned, receiverVars, delivered, crashes>>
  BY WriteKeepsTransport, SenderKeepsQueue
     DEF IInv, TransportConsistent, WriteFrame
<1>2. /\ frames \in Seq(Frames) /\ n \in Nat /\ DOMAIN frames' = 1..(n + 1)
      /\ \A i \in 1..n : frames'[i] = frames[i]
      /\ frames'[n + 1] = Frame(msg_id, index + 1, total)
      /\ DOMAIN frames = 1..n
  BY <1>1 DEF TypeOK
<1>3. Past \in 0..n /\ acked \in 0..n /\ Past' = Past
  BY <1>1, PastInRange DEF Past, receiverVars
<1>4. ASSUME NEW k \in 0..n
      PROVE  {frames'[i].id : i \in {j \in 1..k : frames'[j].last}} = Ended(k)
  BY <1>2 DEF Ended
<1>5. Handed' = Handed /\ Acknowledged' = Acknowledged
  <2>1. Handed' = Latest({frames'[i].id : i \in {j \in 1..Past : frames'[j].last}})
    BY <1>3 DEF Handed, Ended, Latest
  <2>2. Acknowledged' = Latest({frames'[i].id : i \in {j \in 1..acked : frames'[j].last}})
    BY <1>1 DEF Acknowledged, Ended, Latest
  <2>3. QED
    BY <1>3, <1>4, <2>1, <2>2 DEF Handed, Acknowledged
<1>6. HandedOver' = HandedOver /\ Failed' = Failed
  BY <1>1 DEF HandedOver, MessageOf, Failed, receiverVars
<1>7. CASE index + 1 < total
  BY <1>1, <1>5, <1>6, <1>7 DEF Queue!queueVars
<1>8. CASE ~(index + 1 < total)
  <2>1. msg_id \in 1..MaxMessages
    BY <1>1, BoundsAssumption DEF TypeOK, SenderInStep
  <2>2. ASSUME NEW s \in complete PROVE s < msg_id
    <3>1. PICK i \in DOMAIN frames : frames[i].id = s /\ frames[i].last
      BY <1>1 DEF SenderInStep
    <3>2. i \in 1..n /\ i \in DOMAIN frames' /\ i + 1 \in DOMAIN frames'
          /\ frames'[i].id = s /\ frames'[i].last
      BY <1>2, <3>1
    <3>3. frames'[i + 1].id > s
      BY <1>1, <3>2 DEF TransportConsistent, FramesInOrder
    <3>4. frames'[n + 1].id = msg_id
      BY <1>2, FrameFields
    <3>5. i + 1 < n + 1 => frames'[i + 1].id <= frames'[n + 1].id
      BY <1>1, <1>2, <3>2 DEF TransportConsistent, FramesInOrder
    <3>6. i + 1 = n + 1 \/ i + 1 < n + 1
      BY <1>2, <3>2
    <3>7. frames'[i + 1].id \in Nat /\ s \in Nat
      <4>1. frames' \in Seq(Frames) /\ DOMAIN frames' = 1..Len(frames')
        BY <1>1 DEF TransportConsistent, TypeOK
      <4>2. frames'[i + 1] \in Frames /\ frames'[i] \in Frames
        BY <3>2, <4>1
      <4>3. QED
        BY <3>2, <4>2, BoundsAssumption DEF Frames
    <3>8. QED
      BY <2>1, <3>3, <3>4, <3>5, <3>6, <3>7
  <2>3. complete' = complete \cup {msg_id}
    BY <1>1, <1>8
  <2>4. QED
    BY <1>5, <1>6, <2>1, <2>2, <2>3 DEF Queue!Send
<1>9. QED
  BY <1>7, <1>8

\* A blocking receiver looks at a frame.
LEMMA ReceiveRefines ==
    ASSUME IInv, ReceiveFrame
    PROVE  Queue!Next \/ UNCHANGED Queue!queueVars
<1> DEFINE f == NextFrame
<1>1. /\ TypeOK /\ FramesInOrder /\ NothingSkipped /\ QueueInStep
      /\ receiver # "batch" /\ rpc = "ready" /\ pos < Len(frames) /\ pos' = pos + 1
      /\ rpc' = IF ~Finishes(f) THEN "ready"
                ELSE IF receiver = "owned" THEN "return" ELSE "lease"
      /\ acked' = IF rpc' = "lease" /\ (collecting \/ Single(f)) THEN acked ELSE pos + 1
      /\ UNCHANGED <<frames, complete, abandoned, receiver, delivered, crashes>>
  BY DEF IInv, TransportConsistent, ReceiveFrame, senderVars
<1>2. /\ Past = pos /\ acked = pos /\ pos \in 0..Len(frames) /\ Len(frames) \in Nat
      /\ frames[pos + 1] = f
  BY <1>1, PastInRange DEF Past, QueueInStep, NextFrame
<1>3. Failed' = Failed
  BY <1>1 DEF Failed
<1> HIDE DEF f
<1>4. CASE Finishes(f)
  <2>1. Past' = Past
    BY <1>1, <1>2, <1>4 DEF Past
  <2>2. acked' \in {pos, pos + 1}
    BY <1>1, <1>2
  <2>3. QED
    BY <1>1, <1>2, <1>3, <2>1, <2>2, AcknowledgeStep DEF Queue!Next
<1>5. CASE ~Finishes(f) /\ ~f.last
  <2>1. Past' = pos + 1 /\ acked' = pos + 1
    BY <1>1, <1>5 DEF Past
  <2>2. Ended(pos + 1) = Ended(pos)
    BY <1>1, <1>2, <1>5, NextEnded
  <2>3. QED
    BY <1>1, <1>2, <1>3, <2>1, <2>2, QuietStep DEF Handed, Acknowledged
<1>6. CASE ~Finishes(f) /\ f.last
  <2>1. Past' = pos + 1 /\ acked' = pos + 1
    BY <1>1, <1>6 DEF Past
  <2>2. collecting /\ f.id # buf_id
    BY <1>6 DEF Finishes, Skips
  <2>3. Failed
    <3>1. SUFFICES ASSUME crashes = 0, ~abandoned PROVE FALSE
      BY <1>1, BoundsAssumption DEF Failed, TypeOK
    <3>2. pos > 0 /\ ~frames[pos].last /\ buf_id = frames[pos].id
      BY <1>1, <2>2, <3>1 DEF NothingSkipped
    <3>3. f.id = frames[pos].id
      BY <1>1, <3>1, <3>2, NextFrameFacts DEF f
    <3>4. QED
      BY <2>2, <3>2, <3>3
  <2>4. QED
    BY <1>1, <1>2, <1>3, <1>6, <2>1, <2>3, LoseStep DEF Queue!Next
<1>7. QED
  BY <1>4, <1>5, <1>6

\* recv_message_blocking returns; the handler of the leased receive is called.
LEMMA ReturnRefines ==
    ASSUME IInv, ReturnMessage \/ HandleLeased
    PROVE  Queue!Deliver
<1>1. /\ rpc \in {"return", "lease"} /\ rpc' \in {"ready", "drop"}
      /\ delivered' = Append(delivered, buf) /\ buf \in Data
      /\ UNCHANGED <<frames, acked, complete, abandoned, receiver, pos, crashes>>
  BY DEF IInv, TransportConsistent, TypeOK, ReturnMessage, HandleLeased, senderVars
<1>2. /\ receiver # "batch" /\ pos > 0 /\ pos \in 0..Len(frames) /\ Len(frames) \in Nat
  BY <1>1, PastInRange
<1>3. Past = pos - 1 /\ Past' = pos /\ Failed' = Failed
  BY <1>1 DEF Past, Failed
<1>4. frames[pos].last /\ MessageOf(buf) = frames[pos].id
  BY <1>1, <1>2 DEF IInv, QueueInStep
<1>5. Past < Len(frames) /\ Past' = Past + 1 /\ Past + 1 = pos
  BY <1>2, <1>3
<1>6. QED
  BY <1>1, <1>3, <1>4, <1>5, DeliverStep

\* process_available_messages looks at a frame.
LEMMA ProcessRefines ==
    ASSUME IInv, ProcessFrame
    PROVE  Queue!Next \/ UNCHANGED Queue!queueVars
<1> DEFINE f == NextFrame
           g == Gathered(f)
<1>1. /\ TypeOK /\ FramesInOrder /\ NothingSkipped /\ BufferIsPrefix
      /\ receiver = "batch" /\ rpc = "batch" /\ pos < upper /\ pos' = pos + 1
      /\ UNCHANGED <<frames, complete, acked, abandoned, receiver, rpc, crashes>>
      /\ \/ Single(f) /\ delivered' = Append(delivered, <<Payload(f)>>)
         \/ ~Single(f) /\ f.last /\ g.id = f.id /\ delivered' = Append(delivered, g.data)
         \/ ~Single(f) /\ ~(f.last /\ g.id = f.id) /\ delivered' = delivered
  BY DEF IInv, TransportConsistent, ReceiverInStep, ProcessFrame, senderVars
<1>2. /\ Past = pos /\ Past' = Past + 1 /\ pos \in 0..Len(frames) /\ Len(frames) \in Nat
      /\ pos < Len(frames) /\ frames[pos + 1] = f /\ Failed' = Failed
  BY <1>1, PastInRange DEF Past, NextFrame, Failed, TypeOK
<1>3. /\ f.id \in 1..MaxMessages /\ Payload(f) \in (1..MaxMessages) \X (1..MaxFrames)
      /\ MessageOf(<<Payload(f)>>) = f.id /\ (f.first <=> f.index = 1)
      /\ pos = 0 => f.index = 1
      /\ pos > 0 => \/ f.id = frames[pos].id /\ ~frames[pos].last
                    \/ f.index = 1
  BY <1>1, <1>2, NextFrameFacts DEF MessageOf, Payload
<1> HIDE DEF f
<1>4. CASE Single(f)
  <2>1. f.last /\ <<Payload(f)>> \in Data
    BY <1>3, <1>4 DEF Single, Data
  <2>2. delivered' = Append(delivered, <<Payload(f)>>)
    BY <1>1, <1>4
  <2>3. QED
    BY <1>1, <1>2, <1>3, <2>1, <2>2, DeliverStep DEF Queue!Next
<1>5. CASE ~Single(f) /\ f.last /\ g.id = f.id
  <2>1. ~f.first
    BY <1>5 DEF Single
  <2>2. f.id = buf_id /\ g.data = Append(buf, Payload(f))
    BY <1>5, <2>1 DEF Gathered
  <2>3. buf \in Data /\ buf # <<>> /\ buf = [j \in 1..Len(buf) |-> <<buf_id, j>>]
    <3>1. buf_id # 0
      BY <1>3, <2>2, BoundsAssumption
    <3> HIDE DEF g
    <3>2. buf # <<>> /\ buf = [j \in 1..Len(buf) |-> <<buf_id, j>>]
      BY <1>1, <3>1, Zenon DEF BufferIsPrefix
    <3>3. QED
      BY <1>1, <3>2 DEF TypeOK
  <2>4. g.data \in Data /\ g.data[1] = buf[1] /\ 1 \in 1..Len(buf)
    <3>1. \A b \in Data : b # <<>> => /\ Append(b, Payload(f)) \in Data
                                     /\ Append(b, Payload(f))[1] = b[1] /\ 1 \in 1..Len(b)
      BY <1>3 DEF Data
    <3>2. QED
      BY <2>2, <2>3, <3>1
  <2>5. MessageOf(g.data) = f.id
    <3>1. buf[1] = <<buf_id, 1>>
      BY <2>3, <2>4
    <3>2. QED
      BY <2>2, <2>4, <3>1 DEF MessageOf
  <2> HIDE DEF g
  <2>6. delivered' = Append(delivered, g.data)
    BY <1>1, <1>5
  <2>7. QED
    BY <1>1, <1>2, <1>5, <2>4, <2>5, <2>6, DeliverStep DEF Queue!Next
<1>6. CASE ~f.last
  <2>1. Ended(pos + 1) = Ended(pos) /\ ~Single(f)
    BY <1>2, <1>6, NextEnded DEF Single
  <2> HIDE DEF g
  <2>2. delivered' = delivered
    BY <1>1, <1>6, <2>1
  <2>3. QED
    BY <1>1, <1>2, <2>1, <2>2, QuietStep DEF Handed, Acknowledged
<1>7. CASE ~Single(f) /\ f.last /\ g.id # f.id
  <2>1. Failed
    <3>1. SUFFICES ASSUME crashes = 0 PROVE FALSE
      BY <1>1, BoundsAssumption DEF Failed, TypeOK
    <3>2. ~f.first
      BY <1>7 DEF Single
    <3>3. pos > 0 /\ f.id = frames[pos].id /\ ~frames[pos].last
      BY <1>2, <1>3, <3>2
    <3>4. buf_id = f.id
      BY <1>1, <3>1, <3>3 DEF NothingSkipped
    <3>5. QED
      BY <1>7, <3>2, <3>4 DEF Gathered
  <2> HIDE DEF g
  <2>2. delivered' = delivered
    BY <1>1, <1>7
  <2>3. QED
    BY <1>1, <1>2, <1>7, <2>1, <2>2, LoseStep DEF Queue!Next
<1>8. QED
  BY <1>4, <1>5, <1>6, <1>7

\* The receiver comes back behind its cursor.
LEMMA RestartRefines ==
    ASSUME IInv, Restart
    PROVE  Queue!Resume
<1>1. /\ TypeOK /\ crashes' = crashes + 1 /\ pos' = acked /\ rpc' = "ready"
      /\ UNCHANGED <<frames, acked, complete, delivered>>
  BY DEF IInv, TransportConsistent, Restart, senderVars
<1>2. Failed'
  BY <1>1, BoundsAssumption DEF Failed, TypeOK
<1>3. Past' = acked
  BY <1>1 DEF Past
<1>4. Handed' = Acknowledged /\ Acknowledged' = Acknowledged /\ HandedOver' = HandedOver
  BY <1>1, <1>3, SameFrames DEF Acknowledged, HandedOver, MessageOf
<1>5. QED
  BY <1>1, <1>2, <1>4 DEF Queue!Resume

\* The sender starts or abandons a message; the receiver begins or ends a batch, or
\* drops its lease.
LEMMA OtherStepRefines ==
    ASSUME IInv,
           \/ \E k \in 1..MaxFrames : StartMessage(k)
           \/ AbandonMessage \/ StartBatch \/ DropLease \/ AcknowledgeBatch \/ UNCHANGED vars
    PROVE  Queue!Next \/ UNCHANGED Queue!queueVars
<1>1. /\ UNCHANGED <<frames, complete, delivered, receiver, crashes>>
      /\ abandoned' = abandoned \/ abandoned' = TRUE
      /\ \/ UNCHANGED <<rpc, pos, acked>>
         \/ rpc \in {"ready", "batch", "drop"} /\ rpc' \in {"ready", "batch"} /\ pos' = pos
  BY DEF StartMessage, AbandonMessage, StartBatch, DropLease, AcknowledgeBatch, vars,
         senderVars, receiverVars
<1>2. Past' = Past
  BY <1>1 DEF Past
<1>3. CASE UNCHANGED <<abandoned, acked>>
  <2>1. Failed' = Failed
    BY <1>1, <1>3 DEF Failed
  <2>2. QED
    BY <1>1, <1>2, <1>3, <2>1, QuietStep DEF Handed, Acknowledged
<1>4. CASE AbandonMessage
  <2>1. acked' = acked
    BY <1>4 DEF AbandonMessage
  <2>2. Failed' = Failed \/ Failed' = TRUE
    BY <1>1, <1>4 DEF Failed, AbandonMessage
  <2>3. CASE Failed' = Failed
    BY <1>1, <1>2, <2>1, <2>3, QuietStep DEF Handed, Acknowledged
  <2>4. CASE Failed' = TRUE
    <3>1. UNCHANGED <<Handed, Acknowledged, HandedOver>>
      BY <1>1, <1>2, <2>1, SameFrames DEF Handed, Acknowledged, HandedOver, MessageOf
    <3>2. QED
      BY <1>1, <2>4, <3>1 DEF Queue!Fail, Queue!Next
  <2>5. QED
    BY <2>2, <2>3, <2>4
<1>5. CASE DropLease \/ AcknowledgeBatch
  <2>1. abandoned' = abandoned /\ acked' = pos /\ Past = pos
    BY <1>5 DEF DropLease, AcknowledgeBatch, Past, senderVars
  <2>2. Failed' = Failed
    BY <1>1, <2>1 DEF Failed
  <2>3. acked' \in 0..Len(frames) /\ acked <= acked' /\ acked' <= Past + 1
    BY <2>1, PastInRange
  <2>4. QED
    BY <1>1, <1>2, <2>2, <2>3, AcknowledgeStep DEF Queue!Next
<1>6. QED
  <2>1. \/ \E k \in 1..MaxFrames : StartMessage(k)
        \/ StartBatch \/ UNCHANGED vars
        => UNCHANGED <<abandoned, acked>>
    BY DEF StartMessage, StartBatch, vars, senderVars
  <2>2. QED
    BY <1>3, <1>4, <1>5, <2>1

-----------------------------------------------------------------------------
(* The theorems. *)

\* Frames follow each other, and what a receiver has collected is the beginning of one
\* message (publish_managed, recv_framed_message, process_available_messages).
THEOREM InvariantHolds == Spec => []IInv
<1>1. Init => IInv
  BY InitTransport, InitQueue DEF IInv
<1>2. IInv /\ [Next]_vars => IInv'
  BY StepKeepsTransport, StepKeepsQueue DEF IInv
<1>3. QED
  BY <1>1, <1>2, PTL DEF Spec

\* "Reassemble a complete framed message": what reaches the application is one whole
\* message, unless a blocking receiver was restarted.
THEOREM OnlyWholeMessages == Spec => []IntactUnlessRestarted
<1>1. IInv => IntactUnlessRestarted
  BY DEF IInv, TransportConsistent
<1>2. QED
  BY <1>1, InvariantHolds, PTL

\* The acknowledgement of a last frame comes after the delivery of its message, but
\* for the one recv_message_blocking is about to return.
THEOREM AcknowledgedAfterDelivery == Spec => []AcknowledgedIsDelivered
<1>1. IInv => AcknowledgedIsDelivered
  <2>1. SUFFICES ASSUME IInv, crashes = 0, receiver = "batch" \/ ~abandoned,
                        NEW m \in complete
                 PROVE  \/ Delivered(m)
                        \/ \E i \in (acked + 1)..Len(frames) : frames[i].id = m
                        \/ rpc = "return" /\ buf_id = m
    BY DEF AcknowledgedIsDelivered
  <2>2. PICK i \in DOMAIN frames : frames[i].id = m /\ frames[i].last
    BY <2>1 DEF IInv, TransportConsistent, SenderInStep
  <2>3. /\ DOMAIN frames = 1..Len(frames) /\ Len(frames) \in Nat /\ pos \in Nat
        /\ acked \in Nat /\ acked <= pos /\ pos <= Len(frames)
    BY <2>1, Positions DEF IInv, TransportConsistent
  <2>4. CASE i > acked
    BY <2>2, <2>3, <2>4
  <2>5. CASE i <= acked
    <3>1. i \in 1..pos
      BY <2>3, <2>5
    <3>2. Delivered(m) \/ (rpc \in {"return", "lease"} /\ buf_id = m)
      BY <2>1, <2>2, <3>1 DEF IInv, TransportConsistent, NothingSkipped
    <3>3. rpc = "lease" /\ buf_id = m => /\ pos \in (acked + 1)..Len(frames)
                                         /\ frames[pos].id = m
      BY <2>1, <2>3 DEF IInv, TransportConsistent, NothingSkipped, BufferIsPrefix
    <3>4. QED
      BY <3>2, <3>3
  <2>6. QED
    BY <2>3, <2>4, <2>5
<1>2. QED
  BY <1>1, InvariantHolds, PTL

\* Whatever the depth of the ring and however long the messages, the framed transport
\* is a queue of whole messages (publish_managed, recv_message_blocking and its leased
\* variant, process_available_messages).
THEOREM TransportImplementsQueue == Spec => ImplementsQueue
<1>1. Init => Queue!Init
  <2>1. SUFFICES ASSUME Init PROVE Queue!Init
    OBVIOUS
  <2>2. Ended(0) = {} /\ Latest({}) = 0
    BY DEF Ended, Latest
  <2>3. pos = 0 /\ acked = 0 /\ rpc = "ready" /\ delivered = <<>> /\ complete = {} /\ ~Failed
    BY <2>1 DEF Init, Failed
  <2>4. Handed = 0 /\ Acknowledged = 0
    BY <2>2, <2>3 DEF Handed, Acknowledged, Past
  <2>5. HandedOver = <<>>
    BY <2>3 DEF HandedOver
  <2>6. QED
    BY <2>3, <2>4, <2>5 DEF Queue!Init
<1>2. IInv /\ [Next]_vars => [Queue!Next]_(Queue!queueVars)
  <2> SUFFICES ASSUME IInv, [Next]_vars
               PROVE  Queue!Next \/ UNCHANGED Queue!queueVars
    OBVIOUS
  <2>1. CASE WriteFrame
    BY <2>1, WriteRefines DEF Queue!Next
  <2>2. CASE ReceiveFrame \/ ProcessFrame
    BY <2>2, ReceiveRefines, ProcessRefines
  <2>3. CASE ReturnMessage \/ HandleLeased
    BY <2>3, ReturnRefines DEF Queue!Next
  <2>4. CASE Restart
    BY <2>4, RestartRefines DEF Queue!Next
  <2>5. CASE \/ \E k \in 1..MaxFrames : StartMessage(k)
             \/ AbandonMessage \/ StartBatch \/ DropLease \/ AcknowledgeBatch
             \/ UNCHANGED vars
    BY <2>5, OtherStepRefines
  <2>6. QED
    BY <2>1, <2>2, <2>3, <2>4, <2>5 DEF Next, ReceiverStep
<1>3. QED
  BY <1>1, <1>2, InvariantHolds, PTL DEF Spec, ImplementsQueue, Queue!Spec
=================================================================================
