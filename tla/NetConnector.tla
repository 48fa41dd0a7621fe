---------------------------- MODULE NetConnector ----------------------------
(***************************************************************************)
(* A connector of src/cpe/net with its endpoint: net_connector.c keeps a   *)
(* connection alive (it connects, and tries again some time after every    *)
(* failure), net_endpoint.c moves bytes between the socket and the two     *)
(* channels of net_chanel_queue.c.  Both share one libev watcher, which is *)
(* the connector's until the connection is up and the endpoint's from then *)
(* on; the events it asks for follow the fill levels of the channels.      *)
(*                                                                         *)
(* A channel is a number of units, Capacity of them at most; where a       *)
(* package in it ends is for the decoder to say, any way it may come out.  *)
(* The libev calls that must not be made on an active watcher (init), a    *)
(* watcher turned to other data behind its callback's back, and a          *)
(* descriptor that is overwritten while it is open set fault: nothing      *)
(* after that is followed.                                                 *)
(***************************************************************************)
EXTENDS Naturals

CONSTANTS
    Capacity,    \* of the channels, in units
    MaxDisables  \* bound: calls of net_connector_disable

ASSUME CapacityAssumption == Capacity \in Nat \ {0}
ASSUME DisablesAssumption == MaxDisables \in Nat

VARIABLES
    conn,      \* m_state of the connector
    fd,        \* the endpoint has a descriptor (m_fd >= 0)
    retry,     \* the reconnect timer is active
    watch,     \* m_watcher: whose callback it has, and the events it waits for
    rsize,     \* m_size of the read channel
    wsize,     \* m_size of the write channel
    cb,        \* the call of net_ep_cb in progress
    disables,  \* calls of net_connector_disable so far
    leftover,  \* history: the timer was left active by net_connector_disable
    fault

connVars == <<conn, fd, retry, watch, rsize, wsize, cb, disables, leftover, fault>>

Off         == [of |-> "none", events |-> {}]
Connecting  == [of |-> "connector", events |-> {"w"}]
EpWatch(ev) == IF ev = {} THEN Off ELSE [of |-> "ep", events |-> ev]

\* at: "read" before the first package is decoded, "told" after one was
\* dispatched; old: old_events; write: EV_WRITE came in as well.
Quiet == [at |-> "none", old |-> {}, write |-> FALSE]

ConnTypeOK ==
    /\ conn \in {"disable", "connecting", "connected", "error"}
    /\ fd \in BOOLEAN /\ retry \in BOOLEAN
    /\ watch \in [of : {"none", "connector", "ep"}, events : SUBSET {"r", "w"}]
    /\ rsize \in 0..Capacity /\ wsize \in 0..Capacity
    /\ cb \in [at : {"none", "read", "told"}, old : SUBSET {"r", "w"}, write : BOOLEAN]
    /\ disables \in 0..MaxDisables
    /\ leftover \in BOOLEAN /\ fault \in BOOLEAN

\* The event loop has control, or code of the client does (the event loop
\* again, or a responder that is being handed a package).
InLoop     == ~fault /\ cb.at = "none"
ClientTurn == ~fault /\ cb.at \in {"none", "told"}

-----------------------------------------------------------------------------
(* The endpoint's interest: net_ep_calc_ev_events, net_ep_update_events *)

Calc(r, w) == (IF r < Capacity THEN {"r"} ELSE {}) \cup (IF w > 0 THEN {"w"} ELSE {})

\* Mutant: the watcher is restarted only to take events away.
UpdateFewer(old, new) == IF fd /\ ~(old \subseteq new) THEN EpWatch(new) ELSE watch
Update(old, new) == IF fd /\ new # old THEN EpWatch(new) ELSE watch
\* While the connect is in progress this turns the watcher, which has the
\* connector's callback, to the endpoint's data: the callback takes one for the other.
Redirects(old, new) == conn = "connecting" /\ new # old

-----------------------------------------------------------------------------
(* The connector's steps *)

\* Mutant: the timer is not started.
RetryNever(armed) == retry' = armed /\ fault' = FALSE

\* net_connector_cb_prepaire in state error: ev_timer_init of the timer.
\* armed says whether the timer is active at that point.
Prepare(armed) ==
    /\ retry' = TRUE
    /\ fault' = armed

\* net_connector_do_connect_i and what follows it in do_connect and in the
\* timer's callback; the timer is not active any more if armed is FALSE.
Connect(armed) ==
    \/ /\ fd  \* a second descriptor takes the place of the first
       /\ fault' = TRUE
       /\ UNCHANGED <<conn, fd, retry, watch>>
    \/ /\ ~fd  \* no socket, or connect fails at once
       /\ conn' = "error" /\ Prepare(armed)
       /\ UNCHANGED <<fd, watch>>
    \/ /\ ~fd  \* EINPROGRESS: ev_io_init of the watcher
       /\ conn' = "connecting" /\ fd' = TRUE
       /\ watch' = Connecting /\ fault' = (watch # Off)
       /\ retry' = armed
    \/ /\ ~fd  \* net_connector_on_connected
       /\ conn' = "connected" /\ fd' = TRUE
       /\ watch' = EpWatch(Calc(rsize, wsize)) /\ fault' = (watch # Off)
       /\ retry' = armed

\* Mutant: a closed connection keeps its watcher.
CloseWatched(state) == fd /\ fd' = FALSE /\ conn' = state /\ Prepare(retry) /\ UNCHANGED watch

\* net_ep_close_i and net_connector_on_disconnect, which do nothing to an
\* endpoint that is not open.
CloseTo(state) ==
    /\ fd /\ fd' = FALSE
    /\ watch' = Off
    /\ conn' = state
    /\ Prepare(retry)

Close == CloseTo("error")

Enable ==
    /\ ClientTurn /\ conn = "disable"
    /\ Connect(retry)
    /\ UNCHANGED <<rsize, wsize, cb, disables, leftover>>

\* net_connector_io_cb_connect, with the result of getsockopt.
ConnectDone ==
    /\ InLoop /\ watch = Connecting
    /\ \/ conn' = "connected" /\ watch' = EpWatch(Calc(rsize, wsize)) /\ UNCHANGED <<fd, retry, fault>>
       \/ conn' = "error" /\ fd' = FALSE /\ watch' = Off /\ Prepare(retry)
    /\ UNCHANGED <<rsize, wsize, cb, disables, leftover>>

\* net_connector_timer_cb_reconnect: whatever the state is.
Reconnect ==
    /\ InLoop /\ retry
    /\ Connect(FALSE)
    /\ leftover' = FALSE
    /\ UNCHANGED <<rsize, wsize, cb, disables>>

\* net_connector_disable: closing an open endpoint goes through
\* net_connector_on_disconnect, which starts the timer after
\* net_connector_cb_clear has looked for it; nobody stops it again.
Disable ==
    /\ ClientTurn /\ conn # "disable" /\ disables < MaxDisables
    /\ disables' = disables + 1 /\ leftover' = fd
    /\ \/ CloseTo("disable")
       \/ ~fd /\ conn' = "disable" /\ retry' = FALSE /\ UNCHANGED <<fd, watch, fault>>
    /\ UNCHANGED <<rsize, wsize, cb>>

-----------------------------------------------------------------------------
(* The endpoint's steps *)

\* The rest of net_ep_cb, once its read is dealt with: the write, if the event
\* was among those that came in, and the update of the events against those of
\* the beginning (old).  A send on a closed descriptor fails and returns.
Finish(old, write) ==
    \/ /\ write /\ conn = "connected" /\ wsize > 0
       /\ \E n \in 1..wsize : wsize' = wsize - n
       /\ watch' = Update(old, Calc(rsize, wsize'))
       /\ fault' = Redirects(old, Calc(rsize, wsize'))
       /\ UNCHANGED <<conn, fd, retry>>
    \/ /\ write /\ wsize > 0
       /\ Close /\ UNCHANGED wsize
    \/ /\ ~(write /\ fd /\ wsize > 0)
       /\ watch' = Update(old, Calc(rsize, wsize))
       /\ fault' = Redirects(old, Calc(rsize, wsize))
       /\ UNCHANGED <<conn, fd, retry, wsize>>

\* net_ep_cb begins with a read: its error or the end of the stream closes the
\* endpoint and returns.
ReadBegins(events) ==
    /\ InLoop /\ watch.of = "ep" /\ "r" \in events /\ events \subseteq watch.events
    /\ \/ /\ \E n \in 1..(Capacity - rsize) : rsize' = rsize + n
          /\ cb' = [at |-> "read", old |-> Calc(rsize, wsize), write |-> "w" \in events]
          /\ UNCHANGED <<conn, fd, retry, watch, fault>>
       \/ Close /\ UNCHANGED <<rsize, cb>>
    /\ UNCHANGED <<wsize, disables, leftover>>

\* The socket can be written to, and nothing was received.
WriteOnly ==
    /\ InLoop /\ watch.of = "ep" /\ "w" \in watch.events
    /\ Finish(Calc(rsize, wsize), TRUE)
    /\ UNCHANGED <<rsize, cb, disables, leftover>>

Reading == ~fault /\ cb.at \in {"read", "told"}

\* The loop of bpg_net_client_on_read: a package is taken out and dispatched,
Decode ==
    /\ Reading
    /\ \E n \in 1..rsize :
        /\ rsize' = rsize - n
        /\ watch' = Update(Calc(rsize, wsize), Calc(rsize', wsize))
        /\ fault' = Redirects(Calc(rsize, wsize), Calc(rsize', wsize))
    /\ cb' = [cb EXCEPT !.at = "told"]
    /\ UNCHANGED <<conn, fd, retry, wsize, disables, leftover>>

\* ... until there is nothing left, or not a whole package,
DecodeEnds ==
    /\ Reading /\ cb' = Quiet
    /\ Finish(cb.old, cb.write)
    /\ UNCHANGED <<rsize, disables, leftover>>

\* ... or it cannot be decoded, which closes the connection but leaves the bytes
\* where they are; nothing is written or updated then.
DecodeFails ==
    /\ Reading /\ rsize > 0 /\ cb' = Quiet
    /\ \/ Close
       \/ ~fd /\ UNCHANGED <<conn, fd, retry, watch, fault>>
    /\ UNCHANGED <<rsize, wsize, disables, leftover>>

\* Mutant: the room that is left is not asked for.
SendUnchecked(n) ==
    /\ ClientTurn /\ conn # "connecting"
    /\ wsize' = wsize + n
    /\ watch' = Update(Calc(rsize, wsize), Calc(rsize, wsize'))
    /\ UNCHANGED <<conn, fd, retry, rsize, cb, disables, leftover, fault>>

\* net_ep_send of n units: refused when the channel has no room for them.
\* Client obligation: not while the connect is in progress (see Redirects);
\* bpg_net_client_send, the caller in src, asks for the state first.
Send(n) ==
    /\ ClientTurn /\ conn # "connecting" /\ n <= Capacity - wsize
    /\ wsize' = wsize + n
    /\ watch' = Update(Calc(rsize, wsize), Calc(rsize, wsize'))
    /\ UNCHANGED <<conn, fd, retry, rsize, cb, disables, leftover, fault>>

\* net_ep_close by the client.
UserClose ==
    /\ ClientTurn /\ Close
    /\ UNCHANGED <<rsize, wsize, cb, disables, leftover>>

-----------------------------------------------------------------------------
ConnInit ==
    /\ conn = "disable" /\ fd = FALSE /\ retry = FALSE /\ watch = Off
    /\ rsize = 0 /\ wsize = 0 /\ cb = Quiet
    /\ disables = 0 /\ leftover = FALSE /\ fault = FALSE

ConnNext ==
    \/ Enable \/ Disable \/ UserClose \/ \E n \in 1..Capacity : Send(n)
    \/ ConnectDone \/ Reconnect
    \/ \E events \in SUBSET {"r", "w"} : ReadBegins(events)
    \/ WriteOnly \/ Decode \/ DecodeEnds \/ DecodeFails

ConnSpec == ConnInit /\ [][ConnNext]_connVars

-----------------------------------------------------------------------------
(* Properties *)

\* Whenever the event loop has control the watcher waits for what is needed:
\* the end of the connect, or the events the channels call for (all those
\* computations of old_events before a callback, compared after it), and it is
\* off when there is no descriptor.
WatcherAgrees ==
    InLoop =>
        CASE conn = "connecting" -> fd /\ watch = Connecting
          [] conn = "connected"  -> fd /\ watch = EpWatch(Calc(rsize, wsize))
          [] OTHER               -> ~fd /\ watch = Off

\* A connection that failed or was lost is tried again, and no timer is active
\* otherwise, but for one that net_connector_disable left behind.
RetriesAfterError ==
    ~fault => /\ (conn = "error" => retry)
              /\ (retry => conn = "error" \/ leftover)

\* No watcher is initialised while it is active or turned away from the
\* connector, and no descriptor overwritten, however connects, failures, reads,
\* sends and closes follow each other, unless the connector was disabled before.
SoundUnlessDisabled == fault => disables > 0
=============================================================================
