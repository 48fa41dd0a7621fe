----------------------------- MODULE ContextLife -----------------------------
(***************************************************************************)
(* What src/usf/logic promises about a context: the life its owner sees,   *)
(* without lists, queues, ticks and re-entrant calls.                      *)
(*   none       the context does not exist                                 *)
(*   new        created, no executor bound                                 *)
(*   ready      bound, and nothing to wait for: it will be executed        *)
(*   running    logic_context_execute is in progress                       *)
(*   waiting    its current action waits for requires                      *)
(*   failed     an error code was set from outside before the next run     *)
(*   committed  its result was handed to the commit callback               *)
(***************************************************************************)
CONSTANT Ctx

VARIABLE phase

Phases == {"none", "new", "ready", "running", "waiting", "failed", "committed"}

TypeOK == phase \in [Ctx -> Phases]

Init == phase = [c \in Ctx |-> "none"]

Move(c, from, to) ==
    /\ phase[c] \in from
    /\ \E p \in to : phase' = [phase EXCEPT ![c] = p]

Create(c) == Move(c, {"none"}, {"new"})
Bind(c)   == Move(c, {"new"}, {"ready"})

\* A run starts from where there is something to execute,
Start(c)  == Move(c, {"ready", "waiting", "failed"}, {"running"})
\* and ends with requires to wait for, with a commit, or unnoticed if the
\* context had failed before the run.
Finish(c) == Move(c, {"running"}, {"waiting", "committed", "failed"})

\* The last require is resolved.
Wake(c)   == Move(c, {"waiting"}, {"ready"})
\* logic_context_errno_set from outside.
Fail(c)   == Move(c, {"new", "ready", "waiting"}, {"failed"})
\* Canceled or timed out.
Leave(c)  == Move(c, {"new", "ready", "waiting"}, {"committed"})

Free(c)   == Move(c, Phases \ {"none"}, {"none"})

Next ==
    \E c \in Ctx :
        \/ Create(c) \/ Bind(c) \/ Start(c) \/ Finish(c)
        \/ Wake(c) \/ Fail(c) \/ Leave(c) \/ Free(c)

Spec == Init /\ [][Next]_phase
=============================================================================
