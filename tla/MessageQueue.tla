------------------------------ MODULE MessageQueue ------------------------------
(***************************************************************************)
(* What the framed transport promises to an application, with no frames,   *)
(* no ring and no reassembly: a queue of numbered messages.                *)
(*                                                                         *)
(*   - messages are handed over in the order they were sent, each once:    *)
(*     none is passed over while nothing has failed, and none comes twice  *)
(*     but by a restart;                                                   *)
(*   - the acknowledgement runs at most one message ahead of what has been *)
(*     handed over, and a restarted receiver resumes right after it: it    *)
(*     repeats messages, or misses one;                                    *)
(*   - after a failure a message may be passed over, still none comes out  *)
(*     of order.                                                           *)
(***************************************************************************)
EXTENDS Naturals, Sequences

CONSTANT Messages   \* the numbers of the messages that may be sent

VARIABLES
    sent,        \* the messages sent to their end
    handed,      \* the last one the receiver got past, 0 for none
    acked,       \* the last one it acknowledged
    delivered,   \* history: the messages handed over
    failed       \* the sender or the receiver has failed the other

queueVars == <<sent, handed, acked, delivered, failed>>

Init ==
    /\ sent = {} /\ handed = 0 /\ acked = 0
    /\ delivered = <<>> /\ failed = FALSE

IsNext(m) == m \in sent /\ m > handed /\ \A s \in sent : s > handed => s >= m

Send ==
    /\ \E m \in Messages :
          /\ \A s \in sent : s < m
          /\ sent' = sent \cup {m}
    /\ UNCHANGED <<handed, acked, delivered, failed>>

Deliver ==
    /\ \E m \in sent :
          IsNext(m) /\ handed' = m /\ delivered' = Append(delivered, m)
    /\ UNCHANGED <<sent, acked, failed>>

Acknowledge ==
    /\ \E m \in sent : m > acked /\ (m <= handed \/ IsNext(m)) /\ acked' = m
    /\ UNCHANGED <<sent, handed, delivered, failed>>

\* A message is passed over.
Lose ==
    /\ failed
    /\ \E m \in sent : IsNext(m) /\ handed' = m /\ acked' \in {acked, m}
    /\ UNCHANGED <<sent, delivered, failed>>

\* The sender breaks off in the middle of a message.
Fail ==
    /\ failed' = TRUE
    /\ UNCHANGED <<sent, handed, acked, delivered>>

\* The receiver is restarted.
Resume ==
    /\ failed' = TRUE /\ handed' = acked
    /\ UNCHANGED <<sent, acked, delivered>>

Next == Send \/ Deliver \/ Acknowledge \/ Lose \/ Fail \/ Resume

Spec == Init /\ [][Next]_queueVars
=================================================================================
