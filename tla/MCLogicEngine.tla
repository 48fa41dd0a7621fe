--------------------------- MODULE MCLogicEngine ---------------------------
(***************************************************************************)
(* LogicEngine for TLC, and what the documentation says of it.             *)
(***************************************************************************)
EXTENDS LogicEngine, TLC

Slots == Permutations(Ctx)
Requires == Permutations(Req)

-----------------------------------------------------------------------------
(* What the documentation and the comments say *)

\* include/usf/logic/README.md:15: cancel sets the state of the whole flow and
\* leaves the tree, whatever the tree is doing.
CancelStays ==
    [][\A c \in Ctx : ctx[c].state = "cancel" => ctx'[c].state \notin {"done", "error"}]_vars

\* include/usf/logic/README.md:19: an error code does not change the flow, it
\* runs as it would without one.
ErrnoKeepsFlow ==
    \A c \in Ctx : ctx[c].commits > 0 /\ ctx[c].state = "idle" => ctx[c].left = 0
=============================================================================
