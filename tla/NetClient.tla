------------------------------ MODULE NetClient ------------------------------
(***************************************************************************)
(* The client end of the package protocol (src/usf/bpg_net,                *)
(* bpg_net_client*.c): it sends the request a require stands for, under    *)
(* the identifier of the require, over a connection of NetConnector, keeps *)
(* a table of the requests on their way, hands responses to the requires,  *)
(* and fails every require of the table when the connection is lost.  The  *)
(* requires and their timers are those of GdTimer.                         *)
(*                                                                         *)
(* Identifiers of requires come from a counter (m_require_id): a member of *)
(* Req is used once, in increasing order.                                  *)
(***************************************************************************)
EXTENDS GdTimer, NetConnector

ASSUME ReqAssumption == Req \subseteq Nat

VARIABLES
    stage,   \* history of the request of each require
    table    \* m_runing_requires: sorted there, so that it is a set

clientVars == <<stage, table>>
vars == <<timerVars, connVars, clientVars>>

\* none: not created; new: not sent yet; sent: accepted by the endpoint, no
\* response seen; heard: a response was seen; refused: not accepted.
Stages == {"none", "new", "sent", "heard", "refused"}

TypeOK ==
    /\ TimerTypeOK /\ ConnTypeOK
    /\ stage \in [Req -> Stages]
    /\ table \subseteq Req

-----------------------------------------------------------------------------
(* Steps the operations share *)

\* bpg_net_client_notify_all_require_disconnect.  Late errors of requires that
\* are over change nothing, those that are gone are not found.
NotifyAll ==
    /\ Resolve({r \in table : life[r] = "live"})
    /\ table' = {}
    /\ UNCHANGED stage

\* A step of the connection that may close it (bpg_net_client_on_close).
ClosedOrNot ==
    \/ fd /\ ~fd' /\ NotifyAll
    \/ ~(fd /\ ~fd') /\ UNCHANGED <<timerVars, clientVars>>

\* Mutant: what the check keeps is what is gone.
CheckedGone == {r \in table : ~Alive(r)}
\* bpg_net_client_check_requires drops what no require answers to any more.
Checked == {r \in table : Alive(r)}

\* bpg_net_client_save_require_id; the check comes before every 20000th save
\* (m_runing_require_op_count), here before any.
Save(r) == \E before \in {table, Checked} : table' = before \cup {r}

-----------------------------------------------------------------------------
(* The client's requests *)

NewContext(c) ==
    /\ ClientTurn
    /\ CreateContext(c)
    /\ UNCHANGED <<connVars, clientVars>>

NewRequire(r) ==
    /\ ClientTurn /\ stage[r] = "none"
    /\ \A p \in Req : p < r => stage[p] # "none"
    /\ \E c \in Ctx, t \in Id : CreateRequire(r, c, t)
    /\ stage' = [stage EXCEPT ![r] = "new"]
    /\ UNCHANGED <<connVars, table>>

\* bpg_net_client_send.  Without a connection the require fails at once,
SendUnconnected(r) ==
    /\ ClientTurn /\ stage[r] = "new" /\ Alive(r) /\ conn # "connected"
    /\ Resolve({r} \cap {s \in Req : life[s] = "live"})
    /\ stage' = [stage EXCEPT ![r] = "refused"]
    /\ UNCHANGED <<connVars, table>>

\* ... a package that cannot be encoded is dropped,
SendUnencoded(r) ==
    /\ ClientTurn /\ stage[r] = "new" /\ Alive(r) /\ conn = "connected"
    /\ stage' = [stage EXCEPT ![r] = "refused"]
    /\ UNCHANGED <<timerVars, connVars, table>>

\* ... one the endpoint takes is saved in the table,
SendAccepted(r) ==
    /\ stage[r] = "new" /\ Alive(r) /\ conn = "connected"
    /\ \E n \in 1..Capacity : Send(n)
    /\ Save(r)
    /\ stage' = [stage EXCEPT ![r] = "sent"]
    /\ UNCHANGED timerVars

\* ... and one it has no room for closes the connection, which fails the
\* requires in the table: this one is not among them.
SendOverflows(r) ==
    /\ stage[r] = "new" /\ Alive(r) /\ conn = "connected"
    /\ wsize > 0
    /\ UserClose
    /\ Resolve({q \in table : life[q] = "live"})
    /\ table' = {}
    /\ stage' = [stage EXCEPT ![r] = "refused"]

CancelRequire(r) == ClientTurn /\ Cancel(r) /\ UNCHANGED <<connVars, clientVars>>
DropRequire(r)   == ClientTurn /\ FreeRequire(r) /\ UNCHANGED <<connVars, clientVars>>
DropContext(c)   == ClientTurn /\ FreeContext(c) /\ UNCHANGED <<connVars, clientVars>>

-----------------------------------------------------------------------------
(* The connection, the responses and the timers *)

EnableClient  == Enable /\ UNCHANGED <<timerVars, clientVars>>
DisableClient == Disable /\ ClosedOrNot
ConnectEnds   == ~Dispatching /\ ConnectDone /\ UNCHANGED <<timerVars, clientVars>>
TryAgain      == ~Dispatching /\ Reconnect /\ UNCHANGED <<timerVars, clientVars>>
BeginRead(events) == ~Dispatching /\ ReadBegins(events) /\ ClosedOrNot
WriteEvent    == ~Dispatching /\ WriteOnly /\ ClosedOrNot

\* One turn of the loop of bpg_net_client_on_read.  The response is that of any
\* request sent before, also one that was answered or whose connection was lost;
\* the responder resolves the require if it still waits, or does not find its
\* way to it (bpg_pkg_dsp_dispatch fails).
Response(r) ==
    /\ Decode
    /\ stage[r] \in {"sent", "heard"}
    /\ table' = table \ {r}
    /\ stage' = [stage EXCEPT ![r] = "heard"]
    /\ \/ Resolve({r} \cap {s \in Req : life[s] = "live"})
       \/ UNCHANGED timerVars

\* A package of the server's own, which answers nothing.
Push == Decode /\ UNCHANGED <<timerVars, clientVars>>

ReadEnds  == DecodeEnds /\ ClosedOrNot
ReadFails == DecodeFails /\ ClosedOrNot

TimerFires(t)   == InLoop /\ Fire(t) /\ UNCHANGED <<connVars, clientVars>>
TimerReturns(t) == Return(t) /\ UNCHANGED <<connVars, clientVars>>

-----------------------------------------------------------------------------
Init ==
    /\ TimerInit /\ ConnInit
    /\ stage = [r \in Req |-> "none"] /\ table = {}

RequestStep(r) ==
    \/ NewRequire(r) \/ SendUnconnected(r) \/ SendUnencoded(r) \/ SendAccepted(r)
    \/ SendOverflows(r) \/ Response(r) \/ CancelRequire(r) \/ DropRequire(r)
ConnStep ==
    \/ EnableClient \/ DisableClient \/ ConnectEnds \/ TryAgain
    \/ \E events \in SUBSET {"r", "w"} : BeginRead(events)
    \/ WriteEvent \/ Push \/ ReadEnds \/ ReadFails

Next ==
    \/ \E r \in Req : RequestStep(r)
    \/ \E c \in Ctx : NewContext(c) \/ DropContext(c)
    \/ ConnStep
    \/ \E t \in Id : TimerFires(t) \/ TimerReturns(t)

Spec == Init /\ [][Next]_vars

-----------------------------------------------------------------------------
(* Properties *)

\* A request on its way whose require still waits is in the table and has its
\* connection: losing the connection, in whatever step, fails every such require.
Told ==
    ~fault => \A r \in Req : stage[r] = "sent" /\ life[r] = "live" => r \in table /\ conn = "connected"
=============================================================================
