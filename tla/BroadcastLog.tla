----------------------------- MODULE BroadcastLog -----------------------------
(***************************************************************************)
(* What the single-producer, multi-consumer transport promises, with no    *)
(* ring, no cursors and no local copies: one log of events 0, 1, 2, ...    *)
(* that every consumer reads from the beginning.                           *)
(*                                                                         *)
(*   - the log never runs more than Capacity events ahead of what any      *)
(*     consumer has acknowledged (the slowest consumer gates the producer);*)
(*   - each incarnation of a consumer is handed consecutive events: none   *)
(*     is skipped, none is replaced by a later one, none comes twice;      *)
(*   - an acknowledgement runs at most one event ahead of what has been    *)
(*     handed over, so a crash repeats events or loses at most one;        *)
(*   - a restarted consumer resumes right after its acknowledgement.       *)
(***************************************************************************)
EXTENDS Integers

CONSTANTS Consumers, Capacity

VARIABLES
    published,   \* last event of the log, -1 when it is empty
    acked,       \* consumer -> last event it acknowledged
    delivered    \* consumer -> last event its current incarnation was handed

logVars == <<published, acked, delivered>>

Init ==
    /\ published = -1
    /\ acked = [c \in Consumers |-> -1]
    /\ delivered = [c \in Consumers |-> -1]

\* A batch becomes visible at once, and only where every consumer leaves room.
Append ==
    /\ published' \in (published + 1)..(published + Capacity)
    /\ \A c \in Consumers : published' <= acked[c] + Capacity
    /\ UNCHANGED <<acked, delivered>>

Deliver(c) ==
    /\ delivered[c] < published
    /\ delivered' = [delivered EXCEPT ![c] = @ + 1]
    /\ UNCHANGED <<published, acked>>

Acknowledge(c) ==
    /\ \E s \in (acked[c] + 1)..published :
          /\ s <= delivered[c] + 1
          /\ acked' = [acked EXCEPT ![c] = s]
    /\ UNCHANGED <<published, delivered>>

Resume(c) ==
    /\ delivered' = [delivered EXCEPT ![c] = acked[c]]
    /\ UNCHANGED <<published, acked>>

Next ==
    \/ Append
    \/ \E c \in Consumers : Deliver(c) \/ Acknowledge(c) \/ Resume(c)

Spec == Init /\ [][Next]_logVars
===============================================================================
