----------------------------- MODULE MCTimeline -----------------------------
(***************************************************************************)
(* Timeline for TLC: the ring as the FIFO it implements, and the liveness  *)
(* of events.                                                              *)
(***************************************************************************)
EXTENDS Timeline

\* The actions in the ring, oldest first, and the one being dispatched.
RingCount == IF begin <= end THEN end - begin ELSE end + ActionMax - begin
RingAt(i) == IF begin + i < ActionMax THEN begin + i ELSE begin + i - ActionMax
Pending == [i \in 1..RingCount |-> ring[RingAt(i - 1)]]
Current == IF running = "action" THEN ring[begin] ELSE None
Fifo == INSTANCE ActionFifo WITH
    Capacity <- ActionMax - 1, pending <- Pending, current <- Current

\* Actions are dispatched once each and in the order they were added, also when
\* the ring is wrapped, when a tick stops in the middle of it, and when the
\* dispatcher of an action adds others.
FifoSpec == Fifo!Spec

\* An event that is due is dispatched or freed, as long as the actions leave
\* something of the count to the events again and again: events do not starve
\* each other, however often the others repeat or are sent anew.
EventsGetTurns == at = "events" /\ running = None /\ left > 0 /\ begin = end
DueServed ==
    []<>EventsGetTurns =>
        \A e \in Event :
            (node[e] # NoNode /\ node[e].state = "queued" /\ node[e].time <= now) ~>
            (node[e] = NoNode \/ node[e].state # "queued")
=============================================================================
