---------------------------- MODULE FramedTransport ----------------------------
(***************************************************************************)
(* The framed transport of the myelon crate: a message is cut into frames  *)
(* that carry its id and first/last flags, published one event each on the *)
(* ring, and put together again by the receiver.                           *)
(*                                                                         *)
(* The ring is what DisruptorRing shows it to be for a consumer that gates *)
(* the producer: a queue of Depth events, read in order from the last one  *)
(* acknowledged.  A frame's data is abstracted to the message it belongs   *)
(* to and its place in it.                                                 *)
(***************************************************************************)
EXTENDS Integers, Sequences

CONSTANTS
    Depth,         \* slots of the ring
    MaxFrames,     \* bound on the frames of a message
    MaxMessages,   \* bound on the messages ever sent
    Receivers,     \* the receive calls the application may use
    MayFail,       \* publish_managed may report an error while the ring is full
    MaxCrashes     \* bound on the crashes of the receiver

ASSUME BoundsAssumption ==
    /\ Depth \in Nat \ {0} /\ MaxFrames \in Nat \ {0}
    /\ MaxMessages \in Nat /\ MaxCrashes \in Nat
ASSUME KindAssumption ==
    /\ Receivers # {} /\ Receivers \subseteq {"owned", "leased", "batch"}
    /\ MayFail \in BOOLEAN

VARIABLES
    frames,      \* the frames published so far, as a sequence
    acked,       \* frames the receiver's cursor acknowledges
    msg_id,      \* id of the message being sent, or of the last one
    total,       \* its number of frames
    index,       \* frames of it written so far
    sending,     \* a publish call is under way
    complete,    \* history: messages whose last frame was published
    receiver,    \* which receive call this application uses: recv_message_blocking
                 \* ("owned"), its leased variant or process_available_messages
    rpc,         \* "ready", "return", "lease", "drop" or "batch"
    pos,         \* frames it has looked at
    upper,       \* end of the snapshot of the batch receiver
    collecting,  \* a blocking receive has met the first frame of a long message
    buf,         \* the frames collected
    buf_id,      \* the message they belong to, 0 for none
    delivered,   \* history: what the receiver has returned or handed out
    abandoned,   \* history: some message was abandoned
    crashes

senderVars == <<msg_id, total, index, sending, complete, abandoned>>
receiverVars == <<receiver, rpc, pos, upper, collecting, buf, buf_id>>
vars == <<frames, acked, senderVars, receiverVars, delivered, crashes>>

Frame(m, i, k) == [id |-> m, index |-> i, first |-> i = 1, last |-> i = k]

Init ==
    /\ frames = <<>> /\ acked = 0
    /\ msg_id = 0 /\ total = 0 /\ index = 0 /\ sending = FALSE /\ complete = {}
    /\ abandoned = FALSE /\ receiver \in Receivers
    /\ rpc = "ready" /\ pos = 0 /\ upper = 0
    /\ collecting = FALSE /\ buf = <<>> /\ buf_id = 0
    /\ delivered = <<>> /\ crashes = 0

-----------------------------------------------------------------------------
(***************************************************************************)
(* The sender: publish and publish_managed.                                *)
(***************************************************************************)

StartMessage(k) ==
    /\ ~sending /\ msg_id < MaxMessages
    /\ msg_id' = msg_id + 1 /\ total' = k /\ index' = 0 /\ sending' = TRUE
    /\ UNCHANGED <<frames, acked, complete, abandoned, receiverVars, delivered, crashes>>

RingFull_OneMore == Len(frames) - acked > Depth
RingFull == Len(frames) - acked >= Depth

WriteFrame ==
    /\ sending /\ ~RingFull
    /\ frames' = Append(frames, Frame(msg_id, index + 1, total))
    /\ index' = index + 1
    /\ sending' = (index' < total)
    /\ complete' = IF sending' THEN complete ELSE complete \union {msg_id}
    /\ UNCHANGED <<acked, msg_id, total, abandoned, receiverVars, delivered, crashes>>

\* publish_managed forwards the error of a frame that found the ring full; the
\* frames written before it stay in the ring.
AbandonMessage ==
    /\ MayFail /\ sending /\ RingFull
    /\ sending' = FALSE /\ abandoned' = TRUE
    /\ UNCHANGED <<frames, acked, msg_id, total, index, complete, receiverVars,
                   delivered, crashes>>

-----------------------------------------------------------------------------
(***************************************************************************)
(* The blocking receivers, one frame at a time.                            *)
(***************************************************************************)

Payload(f) == <<f.id, f.index>>
Single(f) == f.first /\ f.last
NextFrame == frames[pos + 1]

\* What a blocking receive has after frame f: the first frame it meets starts a
\* message, whatever its flags; later ones are appended or skipped by id.
Skips_Never(f) == FALSE
Skips(f) == collecting /\ f.id # buf_id
Collected(f) ==
    IF Skips(f) THEN buf
    ELSE IF collecting THEN Append(buf, Payload(f)) ELSE <<Payload(f)>>
Finishes_Single(f) == Single(f)
Finishes(f) == f.last /\ ~Skips(f)

\* recv_message_blocking: the frame is acknowledged before it is looked at.
\* The leased receive acknowledges it once it is appended, or, for the frame
\* that completes the message, after the handler.
ReceiveFrame ==
    /\ receiver # "batch" /\ rpc = "ready" /\ pos < Len(frames)
    /\ pos' = pos + 1
    /\ buf' = Collected(NextFrame)
    /\ buf_id' = IF Skips(NextFrame) THEN buf_id ELSE NextFrame.id
    /\ collecting' = TRUE
    /\ rpc' = IF ~Finishes(NextFrame) THEN "ready"
              ELSE IF receiver = "owned" THEN "return" ELSE "lease"
    /\ acked' = IF rpc' = "lease" /\ (collecting \/ Single(NextFrame))
                THEN acked ELSE pos + 1
    /\ UNCHANGED <<frames, senderVars, receiver, upper, delivered, crashes>>

\* The complete message goes to the caller, or to the handler.
ReturnMessage ==
    /\ rpc = "return"
    /\ delivered' = Append(delivered, buf)
    /\ rpc' = "ready" /\ collecting' = FALSE /\ buf' = <<>> /\ buf_id' = 0
    /\ UNCHANGED <<frames, acked, senderVars, receiver, pos, upper, crashes>>

HandleLeased ==
    /\ rpc = "lease"
    /\ delivered' = Append(delivered, buf)
    /\ rpc' = "drop"
    /\ UNCHANGED <<frames, acked, senderVars, receiver, pos, upper, collecting, buf,
                   buf_id, crashes>>

DropLease ==
    /\ rpc = "drop"
    /\ acked' = pos
    /\ rpc' = "ready" /\ collecting' = FALSE /\ buf' = <<>> /\ buf_id' = 0
    /\ UNCHANGED <<frames, senderVars, receiver, pos, upper, delivered, crashes>>

-----------------------------------------------------------------------------
(***************************************************************************)
(* process_available_messages: all available frames, acknowledged at the   *)
(* end; the caller's reassembly buffer lives from one call to the next.    *)
(***************************************************************************)

StartBatch ==
    /\ receiver = "batch" /\ rpc = "ready" /\ pos < Len(frames)
    /\ rpc' = "batch" /\ upper' = Len(frames)
    /\ UNCHANGED <<frames, acked, senderVars, receiver, pos, collecting, buf, buf_id,
                   delivered, crashes>>

\* The buffer after frame f: start, append, or leave it.
Gathered_KeepsPartial(f) ==
    IF f.first /\ buf_id = 0 THEN [id |-> f.id, data |-> <<Payload(f)>>]
    ELSE IF f.id = buf_id THEN [id |-> buf_id, data |-> Append(buf, Payload(f))]
    ELSE [id |-> buf_id, data |-> buf]

Gathered(f) ==
    IF f.first THEN [id |-> f.id, data |-> <<Payload(f)>>]
    ELSE IF f.id = buf_id THEN [id |-> buf_id, data |-> Append(buf, Payload(f))]
    ELSE [id |-> buf_id, data |-> buf]

ProcessFrame ==
    /\ rpc = "batch" /\ pos < upper
    /\ pos' = pos + 1
    /\ LET f == NextFrame
           g == Gathered(f)
       IN IF Single(f)
          THEN /\ delivered' = Append(delivered, <<Payload(f)>>)
               /\ UNCHANGED <<buf, buf_id>>
          ELSE IF f.last /\ g.id = f.id
          THEN /\ delivered' = Append(delivered, g.data)
               /\ buf' = <<>> /\ buf_id' = 0
          ELSE /\ buf' = g.data /\ buf_id' = g.id
               /\ UNCHANGED delivered
    /\ UNCHANGED <<frames, acked, senderVars, receiver, rpc, upper, collecting, crashes>>

AcknowledgeBatch ==
    /\ rpc = "batch" /\ pos = upper
    /\ acked' = upper
    /\ rpc' = "ready"
    /\ UNCHANGED <<frames, senderVars, receiver, pos, upper, collecting, buf, buf_id,
                   delivered, crashes>>

\* The receiver dies and comes back under its id: it resumes behind its cursor,
\* with an empty buffer.
Restart ==
    /\ crashes < MaxCrashes
    /\ crashes' = crashes + 1
    /\ pos' = acked /\ upper' = acked
    /\ rpc' = "ready" /\ collecting' = FALSE /\ buf' = <<>> /\ buf_id' = 0
    /\ UNCHANGED <<frames, acked, senderVars, receiver, delivered>>

-----------------------------------------------------------------------------
ReceiverStep == ReceiveFrame \/ ReturnMessage \/ HandleLeased \/ DropLease
                    \/ StartBatch \/ ProcessFrame \/ AcknowledgeBatch

Next ==
    \/ \E k \in 1..MaxFrames : StartMessage(k)
    \/ WriteFrame \/ AbandonMessage
    \/ ReceiverStep
    \/ Restart

Spec == Init /\ [][Next]_vars

\* The sender's call goes on while the ring has room; the receiver keeps polling.
FairSpec == Spec /\ WF_vars(WriteFrame) /\ WF_vars(ReceiverStep)

-----------------------------------------------------------------------------
(***************************************************************************)
(* What must hold.                                                         *)
(***************************************************************************)

Frames == [id: 1..MaxMessages, index: 1..MaxFrames, first: BOOLEAN, last: BOOLEAN]
Data == Seq((1..MaxMessages) \X (1..MaxFrames))

TypeOK ==
    /\ frames \in Seq(Frames)
    /\ acked \in 0..pos /\ pos \in 0..Len(frames) /\ Len(frames) - acked <= Depth
    /\ msg_id \in 0..MaxMessages /\ total \in 0..MaxFrames /\ index \in 0..total
    /\ sending \in BOOLEAN /\ complete \subseteq 1..MaxMessages
    /\ abandoned \in BOOLEAN /\ receiver \in Receivers
    /\ rpc \in {"ready", "return", "lease", "drop", "batch"}
    /\ upper \in 0..Len(frames) /\ collecting \in BOOLEAN
    /\ buf \in Data /\ buf_id \in 0..MaxMessages
    /\ delivered \in Seq(Data)
    /\ crashes \in 0..MaxCrashes

MessageOf(d) == d[1][1]

\* d is a message that was sent to its last frame, with all its frames in order and
\* none of another message.
Intact(d) ==
    /\ d = [j \in 1..Len(d) |-> <<MessageOf(d), j>>]
    /\ \E i \in DOMAIN frames : frames[i] = Frame(MessageOf(d), Len(d), Len(d))

\* "Reassemble a complete framed message": whatever reaches the application is one
\* complete message.
DeliveredIntact == \A i \in DOMAIN delivered : Intact(delivered[i])

\* It is, although senders abandon messages half-way, unless a blocking receiver has
\* been restarted: only process_available_messages looks for a first frame.
IntactUnlessRestarted ==
    (crashes = 0 \/ receiver = "batch") => DeliveredIntact

Delivered(m) == \E i \in DOMAIN delivered : MessageOf(delivered[i]) = m

\* While nothing fails, a receiver that has acknowledged the last frame of a message
\* has delivered the message, but for the one recv_message_blocking is about to
\* return; process_available_messages, also when senders abandon messages.
AcknowledgedIsDelivered ==
    (crashes = 0 /\ (receiver = "batch" \/ ~abandoned)) =>
        \A m \in complete :
            \/ Delivered(m)
            \/ \E i \in (acked + 1)..Len(frames) : frames[i].id = m
            \/ rpc = "return" /\ buf_id = m

\* The frames of a message follow each other, and messages come in order; only an
\* abandoned one ends without its last frame.
FramesInOrder ==
    /\ \A i \in DOMAIN frames : frames[i].first <=> frames[i].index = 1
    /\ \A i, j \in DOMAIN frames : i < j => frames[i].id <= frames[j].id
    /\ \A i \in DOMAIN frames :
          i + 1 \in DOMAIN frames =>
              \/ /\ frames[i + 1].id = frames[i].id /\ ~frames[i].last
                 /\ frames[i + 1].index = frames[i].index + 1
              \/ /\ frames[i + 1].id > frames[i].id /\ frames[i + 1].index = 1
                 /\ abandoned \/ frames[i].last
    /\ 1 \in DOMAIN frames => frames[1].index = 1

\* What the sender is about to write continues what it has written.
SenderInStep ==
    /\ sending => msg_id > 0 /\ index < total
    /\ sending /\ index > 0 =>
          frames # <<>> /\ frames[Len(frames)] = Frame(msg_id, index, total)
    /\ \A i \in DOMAIN frames :
          IF sending /\ index = 0 THEN frames[i].id < msg_id ELSE frames[i].id <= msg_id
    /\ (~sending \/ index = 0) /\ frames # <<>> => abandoned \/ frames[Len(frames)].last
    /\ \A m \in complete : \E i \in DOMAIN frames : frames[i].id = m /\ frames[i].last

\* What is collected is the beginning of one message, up to the latest of its frames
\* the receiver has looked at; a message that is complete ends at the frame looked
\* at last, and a blocking receiver starts at the frame after such a one.
BufferIsPrefix ==
    (crashes = 0 \/ receiver = "batch") =>
        /\ buf_id = 0 => buf = <<>>
        /\ buf_id # 0 =>
              /\ buf # <<>> /\ buf = [j \in 1..Len(buf) |-> <<buf_id, j>>]
              /\ \E p \in 1..pos :
                    /\ frames[p].id = buf_id /\ frames[p].index = Len(buf)
                    /\ \A r \in (p + 1)..pos : frames[r].id # buf_id
        /\ rpc \in {"return", "lease", "drop"} =>
              /\ collecting /\ pos > 0
              /\ frames[pos].last /\ frames[pos].id = buf_id /\ frames[pos].index = Len(buf)
        /\ receiver # "batch" =>
              /\ (collecting <=> buf_id # 0)
              /\ ~collecting => pos = 0 \/ frames[pos].last

\* Which receiver is at which place.
ReceiverInStep ==
    /\ rpc = "batch" => receiver = "batch"
    /\ rpc \in {"return", "lease", "drop"} => receiver # "batch"

\* While nothing fails, every last frame the receiver has looked at belongs to a
\* message it has delivered or is about to, and what it has of an unfinished message
\* is in its buffer.  A leased frame is not acknowledged.
NothingSkipped ==
    (crashes = 0 /\ (receiver = "batch" \/ ~abandoned)) =>
        /\ \A i \in 1..pos :
              frames[i].last => \/ Delivered(frames[i].id)
                               \/ (rpc \in {"return", "lease"} /\ buf_id = frames[i].id)
        /\ pos > 0 /\ ~frames[pos].last => buf_id = frames[pos].id
        /\ receiver # "batch" /\ rpc = "ready" /\ collecting =>
              pos > 0 /\ ~frames[pos].last
        /\ rpc = "lease" => acked < pos

\* Frames, buffers and deliveries belong together.
TransportConsistent ==
    /\ TypeOK /\ FramesInOrder /\ SenderInStep
    /\ ReceiverInStep /\ BufferIsPrefix /\ NothingSkipped
    /\ IntactUnlessRestarted

\* Also after a restart: what a blocking receiver collects is all of one message, it
\* finishes with the last frame it has looked at, and it acknowledges every frame
\* before it looks at the next.
QueueInStep ==
    /\ \A i \in DOMAIN frames : frames[i].last => frames[i].id \in complete
    /\ receiver # "batch" =>
          /\ rpc \in {"ready", "return"} => acked = pos
          /\ collecting => buf # <<>> /\ MessageOf(buf) = buf_id
          /\ rpc \in {"return", "lease"} =>
                collecting /\ pos > 0 /\ frames[pos].last /\ frames[pos].id = buf_id

\* The inductive invariant (the code it is about: publish_managed,
\* recv_message_blocking and its leased variant, process_available_messages).
IInv == TransportConsistent /\ QueueInStep

-----------------------------------------------------------------------------
(***************************************************************************)
(* The transport is a queue of messages.  A message ends with its last     *)
(* frame; the receiver is past it when it is past that frame and is not    *)
(* about to hand the message over.                                         *)
(***************************************************************************)

Ended(n) == {frames[i].id : i \in {k \in 1..n : frames[k].last}}
Latest(S) == IF S = {} THEN 0 ELSE CHOOSE m \in S : \A s \in S : s <= m

Past == IF rpc \in {"return", "lease"} THEN pos - 1 ELSE pos

Handed == Latest(Ended(Past))
Acknowledged == Latest(Ended(acked))
HandedOver == [i \in DOMAIN delivered |-> MessageOf(delivered[i])]
Failed == crashes > 0 \/ (receiver # "batch" /\ abandoned)

Queue == INSTANCE MessageQueue WITH
    Messages <- 1..MaxMessages, sent <- complete, handed <- Handed,
    acked <- Acknowledged, delivered <- HandedOver, failed <- Failed

\* Messages come in the order they were sent and each once, none is passed over
\* while nothing fails, and the acknowledgement a restarted receiver resumes from
\* (the cursor of next_frame, of the lease or of the batch) is at most one message
\* ahead of what the application got.
ImplementsQueue == Queue!Spec

\* "Block until a complete message has been reassembled, then return": a message
\* sent to its last frame is delivered.
CompleteIsDelivered == \A m \in 1..MaxMessages : m \in complete ~> Delivered(m)

\* It is, as long as the receiver does not die with a message in its buffer and a
\* blocking receiver meets no abandoned message: process_available_messages delivers
\* in spite of those.
DeliveredUnlessFailed ==
    \A m \in 1..MaxMessages :
        m \in complete ~>
            \/ Delivered(m)
            \/ crashes > 0
            \/ receiver # "batch" /\ abandoned

================================================================================
