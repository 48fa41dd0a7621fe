------------------------------ MODULE MCBpgRsp ------------------------------
(***************************************************************************)
(* BpgRsp for TLC: liveness of the scheduler under its requests, and what  *)
(* the documentation says of them.                                         *)
(***************************************************************************)
EXTENDS BpgRsp

(***************************************************************************)
(* Fairness.  The process goes on: the main loop of gd_app calls the tick  *)
(* over and over (each turn makes at most MaxCalls other calls), actions   *)
(* and callbacks return (at any time one of the three is what is left to   *)
(* do).  No action waits again for ever.  Every require times out in the   *)
(* end: this assumes that require-timeout-ms is configured, because        *)
(* logic_require_create starts no timer for the default 0                  *)
(* (logic_manage.c:43), and then a require nobody answers waits for ever.  *)
(***************************************************************************)
Fair(A) == A /\ History
RspFairness ==
    /\ WF_rspVars(Fair(Tick \/ CommitReturns \/ \E c \in Ctx : OpReturns(c)))
    /\ \A c \in Ctx : SF_rspVars(Fair(OpEnds(c)))
    /\ \A r \in Req : SF_rspVars(Fair(RequireTimeout(r)))
RspFairSpec == RspSpec /\ RspFairness

\* A pending context is executed, or leaves the list, after finitely many ticks:
\* the tick takes a bounded number from the head and all others queue behind.
PendingServed == \A c \in Ctx : c \in Members(pending) ~> c \notin Members(pending)

\* A request that waits behind another one in a queue is begun in the end, unless it is
\* canceled, times out or gets an error code before: no way in which the one in front
\* ends forgets the one behind, and none is answered that nobody worked on.
QueueServed ==
    \A c \in Ctx :
        (\E q \in Queue : \E i \in 2..Len(queues[q]) : queues[q][i] = c) ~>
        (c \in begun \/ ctx[c].state \in {"cancel", "timeout"} \/ ctx[c].errno)

\* Every request is answered in the end that its queue had room for (the others: see
\* OverflowIgnored), whatever it waits for and whatever happens to those in front of it.
RequestEnds == \A c \in Ctx : (Alive(c) /\ c \notin overflowed) ~> ~Alive(c)

-----------------------------------------------------------------------------
(* What the documentation says *)

\* include/usf/bpg_rsp/README.md:37: a request beyond the max-count of its queue is
\* ignored directly, so no action is ever called for it.
OverflowIgnored == overflowed \cap begun = {}
=============================================================================
