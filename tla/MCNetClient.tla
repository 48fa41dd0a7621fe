----------------------------- MODULE MCNetClient -----------------------------
(***************************************************************************)
(* NetClient for TLC: the fairness of the main loop and what follows.      *)
(***************************************************************************)
EXTENDS NetClient

\* gd_app's main loop serves the timers and the sockets over and over: a timer
\* fires, a callback returns, libev (level-triggered) reports a socket that can
\* be written again and again until it is, and the end of a connect.
\* Assumed of others: the peer reads in the end what was sent to it (or its socket
\* would never become writable again), one attempt to connect succeeds in the end, and
\* require-timeout-ms is configured (NewRequire gives every require its timer;
\* with the default 0 of logic_manage.c:43 there is none).
Fairness ==
    /\ SF_vars(\E t \in Id : TimerFires(t))
    /\ WF_vars(Push \/ ReadEnds \/ ReadFails \/ \E t \in Id : TimerReturns(t))
    /\ SF_vars(WriteEvent)
    /\ WF_vars(ConnectEnds)
    /\ SF_vars(TryAgain /\ conn' = "connected")
FairSpec == Spec /\ Fairness

\* A require does not wait for ever: whatever became of its request, its
\* response or its connection, it ends, if only by its timer (see lost).
RequireEnds == \A r \in Req : life[r] = "live" ~> (life[r] # "live" \/ r \in lost \/ fault)

\* Bytes that were accepted are sent, or the connection is closed.
Flushed == conn = "connected" /\ wsize > 0 ~> (wsize = 0 \/ conn # "connected" \/ fault)

\* A connection that was lost or could not be made comes back, or is disabled.
Reconnects == conn = "error" ~> (conn \in {"connected", "disable"} \/ fault)
=============================================================================
