------------------------------ MODULE Timeline ------------------------------
(***************************************************************************)
(* The timeline manager of src/cpe/tl: a ring of pending actions and a     *)
(* queue of timed events, both dispatched by tl_manage_tick.               *)
(*                                                                         *)
(* The dispatcher of a timeline is application code that calls the library *)
(* again.  tl_manage_tick is therefore cut at the call of a dispatcher:    *)
(* at says where it stands, running whose dispatcher is being called.      *)
(*                                                                         *)
(* Left out: interceptors (an intercepted event stays as it is), refused   *)
(* arguments (no effect), clones, tl_manage_free.                          *)
(***************************************************************************)
EXTENDS Integers, FiniteSets, TailQueue

CONSTANTS
    Tl,          \* slots for timelines (tl_t)
    Event,       \* slots for event nodes
    None,        \* NULL
    Mute,        \* timelines without a dispatcher
    ActionMax,   \* CPE_TL_ACTION_MAX
    Asserts,     \* the build has assertions (no NDEBUG)
    MaxTime,     \* bound: readings of the time source
    MaxSpan,     \* bound: delays and spans
    MaxRepeat,   \* bound: repeat counts
    MaxCount,    \* bound: count of a tick
    MaxCalls     \* bound: library calls of one dispatcher, or between two ticks

ASSUME SlotAssumption ==
    None \notin Tl \cup Event \cup {"action"} /\ "action" \notin Event
ASSUME MuteAssumption == Mute \subseteq Tl /\ Asserts \in BOOLEAN
ASSUME RingAssumption == ActionMax \in Nat /\ ActionMax > 1
ASSUME BoundAssumption ==
    /\ MaxTime \in Nat /\ MaxSpan \in Nat /\ MaxRepeat \in Nat \ {0}
    /\ MaxCount \in Nat /\ MaxCalls \in Nat

VARIABLES
    tls,       \* the timelines that exist
    ring,      \* m_action_queue: the timeline of the action in each slot
    begin,     \* m_action_begin_pos
    end,       \* m_action_end_pos
    node,      \* the event nodes
    queue,     \* m_event_queue
    now,       \* m_time_current
    eaten,     \* m_time_pause_eat
    paused,    \* m_state is tl_manage_state_pause
    at,        \* where tl_manage_tick stands
    left,      \* the count it may still dispatch
    any,       \* it dispatched something in this round
    running,   \* "action", an event, or None: the dispatcher being called
    calls      \* calls made by this dispatcher, or since the last tick

ringVars  == <<ring, begin, end>>
eventVars == <<node, queue>>
timeVars  == <<now, eaten, paused>>
tickVars  == <<at, left, any, running>>
vars == <<tls, ringVars, eventVars, timeVars, tickVars, calls>>

Slot == 0..(ActionMax - 1)
Forever == -1      \* repeatCount < 0
Repeat == {Forever} \cup 1..MaxRepeat

Node ==
    [state : {"building", "queued", "running", "deleting"},
     tl : Tl,
     time : Nat, span : 0..MaxSpan, repeat : Repeat \cup {0},
     first : Nat, asked : Repeat, fired : Nat]   \* history: as sent, and dispatches
NoNode == [state |-> "free"]

TypeOK ==
    /\ tls \subseteq Tl
    /\ ring \in [Slot -> Tl \cup {None}] /\ begin \in Slot /\ end \in Slot
    /\ node \in [Event -> Node \cup {NoNode}]
    /\ queue \in Seq(Event)
    /\ now \in Nat /\ eaten \in Nat /\ paused \in BOOLEAN
    /\ at \in {"idle", "wrapped", "plain", "events", "aborted"}
    /\ left \in 0..MaxCount /\ any \in BOOLEAN
    /\ running \in Event \cup {None, "action"}
    /\ calls \in 0..MaxCalls

-----------------------------------------------------------------------------
(* Calls of the application *)

MayCall == (at = "idle" \/ running # None) /\ calls < MaxCalls /\ calls' = calls + 1

After(pos) == IF pos + 1 >= ActionMax THEN 0 ELSE pos + 1

\* Mutant: the last free slot is used too, and full looks like empty.
AddActionFull(t) ==
    /\ MayCall /\ t \in tls
    /\ ring' = [ring EXCEPT ![end] = t]
    /\ end' = After(end)
    /\ UNCHANGED <<tls, begin, eventVars, timeVars, tickVars>>

\* tl_action_add; refused when the ring is full.
AddAction(t) ==
    /\ MayCall /\ t \in tls
    /\ After(end) # begin
    /\ ring' = [ring EXCEPT ![end] = t]
    /\ end' = After(end)
    /\ UNCHANGED <<tls, begin, eventVars, timeVars, tickVars>>

CreateEvent(e, t) ==
    /\ MayCall /\ t \in tls /\ node[e] = NoNode
    /\ node' = [node EXCEPT ![e] =
          [state |-> "building", tl |-> t, time |-> 0, span |-> 0, repeat |-> 0,
           first |-> 0, asked |-> 1, fired |-> 0]]
    /\ UNCHANGED <<tls, ringVars, queue, timeVars, tickVars>>

\* Mutant: the new event comes before those of the same time.
InsertedBeforeEqual(q, nodes, e) ==
    InsertAt(q, Cardinality({i \in 1..Len(q) : nodes[q[i]].time < nodes[e].time}) + 1, e)

\* tl_event_node_insert: behind all events that are not later.
Inserted(q, nodes, e) ==
    InsertAt(q, Cardinality({i \in 1..Len(q) : nodes[q[i]].time <= nodes[e].time}) + 1, e)

\* tl_event_send_ex with tl_event_enqueue_local, for arguments it accepts.
SendEvent(e, delay, span, repeat) ==
    /\ MayCall /\ node[e] # NoNode /\ node[e].state = "building"
    /\ repeat # 1 => span > 0
    /\ node' = [node EXCEPT ![e] =
          [@ EXCEPT !.state = "queued", !.time = now + delay, !.span = span, !.repeat = repeat,
                    !.first = now + delay, !.asked = repeat]]
    /\ queue' = Inserted(queue, node', e)
    /\ UNCHANGED <<tls, ringVars, timeVars, tickVars>>

\* Mutant: a node is freed while its dispatcher is being called.
FreeEventAtOnce(e) ==
    /\ MayCall /\ node[e] # NoNode
    /\ node' = [node EXCEPT ![e] = NoNode]
    /\ queue' = Removed(queue, e)
    /\ UNCHANGED <<tls, ringVars, timeVars, tickVars>>

\* tl_event_node_free in the states of living nodes.
FreeEvent(e) ==
    /\ MayCall /\ node[e] # NoNode
    /\ node' = [node EXCEPT ![e] =
          IF node[e].state \in {"running", "deleting"} THEN [@ EXCEPT !.state = "deleting"] ELSE NoNode]
    /\ queue' = Removed(queue, e)
    /\ UNCHANGED <<tls, ringVars, timeVars, tickVars>>

CreateTl(t) ==
    /\ MayCall /\ t \notin tls
    /\ tls' = tls \cup {t}
    /\ UNCHANGED <<ringVars, eventVars, timeVars, tickVars>>

\* The queue without these events; the others keep their order.
Unlink(gone) ==
    \E n \in 0..Len(queue) : \E kept \in [1..n -> 1..Len(queue)] :
        /\ \A i, j \in 1..n : i < j => kept[i] < kept[j]
        /\ \A i \in 1..Len(queue) : queue[i] \notin gone <=> \E j \in 1..n : kept[j] = i
        /\ queue' = [i \in 1..n |-> queue[kept[i]]]

EventsOf(t) == {e \in Event : node[e] # NoNode /\ node[e].tl = t}

\* tl_free.  Client obligations: none of its actions is pending (their slots
\* would keep the pointer), none of its events is being dispatched (the loop
\* over its events would not end).
FreeTl(t) ==
    /\ MayCall /\ t \in tls
    /\ \A i \in Slot : ring[i] # t
    /\ \A e \in EventsOf(t) : node[e].state \in {"building", "queued"}
    /\ tls' = tls \ {t}
    /\ node' = [e \in Event |-> IF e \in EventsOf(t) THEN NoNode ELSE node[e]]
    /\ Unlink(EventsOf(t))
    /\ UNCHANGED <<ringVars, timeVars, tickVars>>

\* tl_manage_update_time with the reading t of the time source.
Updated(t) == IF t - eaten > now THEN t - eaten ELSE now

Pause(t) ==
    /\ MayCall /\ ~paused
    /\ now' = Updated(t) /\ paused' = TRUE
    /\ UNCHANGED <<tls, ringVars, eventVars, eaten, tickVars>>

\* Mutant: all the paused time is taken off again.
ResumeTwice(t) ==
    /\ MayCall /\ paused
    /\ eaten' = eaten + (Updated(t) - now)
    /\ now' = Updated(t) - eaten'
    /\ paused' = FALSE
    /\ UNCHANGED <<tls, ringVars, eventVars, tickVars>>

\* The time that passed during the pause is eaten: now stands where it was.
Resume(t) ==
    /\ MayCall /\ paused
    /\ eaten' = eaten + (Updated(t) - now)
    /\ now' = Updated(t) - (Updated(t) - now)
    /\ paused' = FALSE
    /\ UNCHANGED <<tls, ringVars, eventVars, tickVars>>

-----------------------------------------------------------------------------
(* tl_manage_tick *)

Dispatching == at \in {"wrapped", "plain", "events"} /\ running = None

\* tl_manage_dispatch_action starts in its first loop if the ring is wrapped.
FirstLoop == IF begin > end THEN "wrapped" ELSE "plain"

Tick(t, count) ==
    /\ at = "idle"
    /\ now' = IF paused THEN now ELSE Updated(t)
    /\ at' = FirstLoop /\ left' = count /\ any' = FALSE
    /\ UNCHANGED <<tls, ringVars, eventVars, eaten, paused, running, calls>>

\* tl_event_queue_clear of the building queue.
Cleared(nodes) ==
    [e \in Event |-> IF nodes[e] # NoNode /\ nodes[e].state = "building" THEN NoNode ELSE nodes[e]]

ActionReady == Dispatching /\ left > 0 /\ (at = "wrapped" \/ (at = "plain" /\ begin < end))

DispatchAction ==
    /\ ActionReady /\ ring[begin] \notin Mute
    /\ running' = "action" /\ calls' = 0
    /\ UNCHANGED <<tls, ringVars, eventVars, timeVars, at, left, any>>

\* The first loop ends at the end of the array, where the second one starts.
LoopAfter == IF at = "wrapped" /\ After(begin) = 0 THEN "plain" ELSE at

\* Mutant: the position runs out of the array.
NextBeginOut == begin + 1
NextBegin == IF at = "wrapped" THEN After(begin) ELSE begin + 1

\* What the loops do after the dispatcher: the slot is given back.
ActionDone ==
    /\ ring' = [ring EXCEPT ![begin] = None]
    /\ begin' = NextBegin
    /\ node' = Cleared(node)
    /\ UNCHANGED <<tls, end, queue, timeVars>>

ActionReturns ==
    /\ running = "action"
    /\ ActionDone
    /\ running' = None /\ left' = left - 1 /\ any' = TRUE /\ calls' = 0
    /\ at' = LoopAfter

\* The assertion between the loops: m_action_begin_pos <= m_action_end_pos.
Asserted(loop, next) == IF Asserts /\ loop = "wrapped" THEN "aborted" ELSE next

\* An action without dispatcher is dropped and the tick returns an error.
DropAction ==
    /\ ActionReady /\ ring[begin] \in Mute
    /\ ActionDone
    /\ at' = Asserted(LoopAfter, "idle")
    /\ left' = 0 /\ any' = FALSE /\ calls' = 0
    /\ UNCHANGED running

EndWrapped ==
    /\ Dispatching /\ at = "wrapped" /\ left = 0
    /\ at' = Asserted(at, "plain")
    /\ UNCHANGED <<tls, ringVars, eventVars, timeVars, left, any, running, calls>>

EndActions ==
    /\ Dispatching /\ at = "plain" /\ (left = 0 \/ begin >= end)
    /\ at' = "events"
    /\ UNCHANGED <<tls, ringVars, eventVars, timeVars, left, any, running, calls>>

EventReady ==
    /\ Dispatching /\ at = "events" /\ left > 0 /\ begin = end
    /\ queue # <<>> /\ node[queue[1]].time <= now

\* An event taken from the queue.
Fires(n) == [n EXCEPT !.state = "running", !.fired = n.fired + 1]
Taken(e) == [node EXCEPT ![e] = Fires(@)]

DispatchEvent ==
    /\ EventReady /\ node[queue[1]].tl \notin Mute
    /\ node' = Taken(queue[1]) /\ queue' = Tail(queue)
    /\ running' = queue[1]
    /\ calls' = 0
    /\ UNCHANGED <<tls, ringVars, timeVars, at, left, any>>

\* The repeat count after one dispatch, and the next time of the event.
Rest(n) == IF n.repeat > 0 THEN n.repeat - 1 ELSE n.repeat
\* Mutant: the next time is counted from the dispatch.
NextTimeNow(n) == now + n.span
NextTime(n) == n.time + n.span

Again(n) == [n EXCEPT !.state = "queued", !.repeat = Rest(n), !.time = NextTime(n)]

\* What the loop does with e, taken from the queue, after the dispatcher:
\* free it, or insert it again.
EventDone(e, nodes, q) ==
    IF nodes[e].state = "deleting" \/ Rest(nodes[e]) = 0
    THEN node' = Cleared([nodes EXCEPT ![e] = NoNode]) /\ queue' = q
    ELSE LET again == [nodes EXCEPT ![e] = Again(@)]
         IN  node' = Cleared(again) /\ queue' = Inserted(q, again, e)

EventReturns ==
    /\ running \in Event
    /\ EventDone(running, node, queue)
    /\ running' = None /\ left' = left - 1 /\ any' = TRUE /\ calls' = 0
    /\ UNCHANGED <<tls, ringVars, timeVars, at>>

\* An event without dispatcher counts as dispatched and the tick returns an error.
DropEvent ==
    /\ EventReady /\ node[queue[1]].tl \in Mute
    /\ EventDone(queue[1], Taken(queue[1]), Tail(queue))
    /\ at' = "idle" /\ left' = 0 /\ any' = FALSE /\ calls' = 0
    /\ UNCHANGED <<tls, ringVars, timeVars, running>>

\* Another round if this one dispatched something and there is count left.
EndRound ==
    /\ Dispatching /\ at = "events" /\ ~EventReady
    /\ IF any /\ left > 0
       THEN at' = FirstLoop /\ UNCHANGED <<node, left, calls>>
       ELSE at' = "idle" /\ node' = Cleared(node) /\ left' = 0 /\ calls' = 0
    /\ any' = FALSE
    /\ UNCHANGED <<tls, ringVars, queue, timeVars, running>>

-----------------------------------------------------------------------------
Init ==
    /\ tls = {}
    /\ ring = [i \in Slot |-> None] /\ begin = 0 /\ end = 0
    /\ node = [e \in Event |-> NoNode] /\ queue = <<>>
    /\ now = 0 /\ eaten = 0 /\ paused = FALSE
    /\ at = "idle" /\ left = 0 /\ any = FALSE /\ running = None /\ calls = 0

Call ==
    \/ \E t \in Tl : CreateTl(t) \/ FreeTl(t) \/ AddAction(t)
    \/ \E e \in Event :
          \/ \E t \in Tl : CreateEvent(e, t)
          \/ \E delay, span \in 0..MaxSpan, repeat \in Repeat : SendEvent(e, delay, span, repeat)
          \/ FreeEvent(e)
    \/ \E t \in 0..MaxTime : Pause(t) \/ Resume(t)

TickStep ==
    \/ DispatchAction \/ ActionReturns \/ DropAction \/ EndWrapped \/ EndActions
    \/ DispatchEvent \/ EventReturns \/ DropEvent \/ EndRound

Next ==
    \/ Call
    \/ \E t \in 0..MaxTime, count \in 1..MaxCount : Tick(t, count)
    \/ TickStep

Spec == Init /\ [][Next]_vars

\* gd_app calls the tick again and again, and dispatchers return.
FairSpec ==
    /\ Spec
    /\ WF_vars(\E t \in 0..MaxTime, count \in 1..MaxCount : Tick(t, count))
    /\ WF_vars(TickStep)

-----------------------------------------------------------------------------
(* Properties *)

\* The queue of events is the list of the nodes in the queued state, each once,
\* in the order of their times, all of timelines that exist; and a node is in
\* the running or deleting state while its dispatcher is being called and at no
\* other time.
EventsLinked ==
    /\ IsInjective(queue)
    /\ Members(queue) = {e \in Event : node[e] # NoNode /\ node[e].state = "queued"}
    /\ \A i, j \in 1..Len(queue) : i < j => node[queue[i]].time <= node[queue[j]].time
    /\ \A e \in Event : node[e] # NoNode =>
          /\ node[e].tl \in tls
          /\ (running = e) = (node[e].state \in {"running", "deleting"})
    /\ running \in Event => node[running] # NoNode

\* Events keep their places: of two that stay queued the order does not change,
\* and one that comes, or was taken and comes again, is behind all that have its
\* time or an earlier one.
Stays(e) == e \in Members(queue) /\ e \in Members(queue') /\ node'[e] = node[e]
QueueIsStable ==
    [][\A e \in Event, f \in Members(queue') : Stays(e) =>
          IF Stays(f) THEN Before(queue, e, f) => Before(queue', e, f)
          ELSE node[e].time <= node'[f].time => Before(queue', e, f)]_vars

\* An event fires as often as it was asked to, at times that do not drift with
\* the lateness of the ticks.
ScheduleKept ==
    \A e \in Event : node[e] # NoNode /\ node[e].state = "queued" =>
        /\ node[e].asked # Forever => node[e].repeat > 0 /\ node[e].fired + node[e].repeat = node[e].asked
        /\ node[e].time = node[e].first + node[e].fired * node[e].span

\* m_time_current never goes back, whatever the time source does and however
\* often the manager is paused.
TimeNeverGoesBack == [][now' >= now]_vars

\* tl_dispatch.c:47: the ring is not wrapped any more after the first loop.
AssertHolds == at # "aborted"
=============================================================================
