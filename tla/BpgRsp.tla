------------------------------- MODULE BpgRsp -------------------------------
(***************************************************************************)
(* The responders of src/usf/bpg_rsp on top of the scheduler: every        *)
(* request package gets a context, which is queued as the responder's      *)
(* logic-queue says, run, and committed by bpg_rsp_commit, which sends the *)
(* response and frees it.  bpg_rsp_execute.c makes the contexts,           *)
(* bpg_rsp_commit.c ends them.                                             *)
(*                                                                         *)
(* A request is named by the slot of its context.  Requests come from the  *)
(* network (the main loop calls), and from actions and commits that        *)
(* dispatch packages to responders of their own process.  What the         *)
(* response says, and whether one is sent at all (no_response, no carry    *)
(* information, no commit-to), changes no state here: bpg_rsp_commit frees *)
(* the context on every path.                                              *)
(***************************************************************************)
EXTENDS LogicEngine

CONSTANT Bounded  \* the queues configured with a max-count, which is MaxCount

ASSUME CommitAssumption == CommitFrees
ASSUME BoundedAssumption == Bounded \subseteq Queue

VARIABLES
    begun,       \* history: the requests whose first action was called
    overflowed   \* history: the requests their queue had no room for

rspVars == <<vars, begun, overflowed>>

RspTypeOK == TypeOK /\ begun \subseteq Ctx /\ overflowed \subseteq Ctx

\* The histories after a step.
Begins     == begun' = {c \in Ctx : (c \in begun \/ RunsIn(frames', c)) /\ ctx'[c].state # "absent"}
NoRoom(cs) == overflowed' = {c \in overflowed \cup cs : ctx'[c].state # "absent"}
History    == Begins /\ NoRoom({})

-----------------------------------------------------------------------------
(* A request arrives: bpg_rsp_execute *)

\* The context of the request after logic_context_bind.
Bound(c, n) == [ctx EXCEPT ![c] = [Absent EXCEPT !.state = "idle", !.left = n]]
HasRoom(q)  == q \in Bounded => Len(queues[q]) < MaxCount

\* bpg_rsp_commit_error: the package cannot be copied, the executor not bound,
\* the queue not made.  bpg_rsp_commit is called as the engine would.
Refused(c) ==
    /\ \E x \in {[Absent EXCEPT !.state = "init"]} \cup
                {[Absent EXCEPT !.state = "idle", !.left = n] : n \in 1..MaxActions} :
          ctx' = [ctx EXCEPT ![c] = [x EXCEPT !.errno = TRUE, !.commits = 1]]
    /\ pending' = Append(pending, c)
    /\ frames' = Append(Called, CommitFrame(c))
    /\ UNCHANGED queues /\ History

\* Executed inside the call: a responder without a queue, or the first of its queue.
RunAtOnce(c, n) == ctx' = Bound(c, n) /\ Begin(c, Bound(c, n), Called, Append(pending, c))
RunUnqueued(c, n) == RunAtOnce(c, n) /\ UNCHANGED queues /\ History
RunFirst(c, n, q) ==
    /\ HasRoom(q) /\ queues[q] = <<>>
    /\ RunAtOnce(c, n)
    /\ queues' = [queues EXCEPT ![q] = <<c>>] /\ History

\* Mutant: whatever is in the queue is executed.
RunBehind(c, n, q) ==
    /\ HasRoom(q) /\ queues[q] # <<>>
    /\ RunAtOnce(c, n)
    /\ queues' = [queues EXCEPT ![q] = Append(@, c)] /\ History

\* It waits behind the others,
WaitBehind(c, n, q) ==
    /\ HasRoom(q) /\ queues[q] # <<>>
    /\ ctx' = Bound(c, n)
    /\ queues' = [queues EXCEPT ![q] = Append(@, c)]
    /\ frames' = Called
    /\ UNCHANGED pending /\ History

\* ... or the queue is full: logic_queue_enqueue_tail fails, nobody looks, and
\* the context stays in the pending list.
Overflow(c, n, q) ==
    /\ ~HasRoom(q)
    /\ ctx' = Bound(c, n)
    /\ pending' = Append(pending, c)
    /\ frames' = Called
    /\ UNCHANGED queues /\ Begins /\ NoRoom({c})

RspExecute(c) ==
    /\ MayCall /\ ~Alive(c)
    /\ \/ Refused(c)
       \/ \E n \in 1..MaxActions :
            \/ RunUnqueued(c, n)
            \/ \E q \in Queue : RunFirst(c, n, q) \/ WaitBehind(c, n, q) \/ Overflow(c, n, q)
    /\ UNCHANGED <<req, tickLeft>>

-----------------------------------------------------------------------------
(* Operations the program starts itself, which are answered like requests *)

\* Left to the tick: an operation without a queue, or the first of its queue.
Later(c, n) == ctx' = Bound(c, n) /\ pending' = Append(pending, c) /\ frames' = Called

\* bpg_rsp_manage_create_op_by_name (by an action rsp_execute_late, for one):
\* queued like a request, but never executed at once.
LateOp(c) ==
    /\ MayCall /\ ~Alive(c)
    /\ \E n \in 1..MaxActions :
        \/ Later(c, n) /\ UNCHANGED queues /\ History
        \/ \E q \in Queue :
            \/ WaitBehind(c, n, q)
            \/ Overflow(c, n, q)
            \/ /\ queues[q] = <<>> /\ HasRoom(q) /\ Later(c, n)
               /\ queues' = [queues EXCEPT ![q] = <<c>>] /\ History
    /\ UNCHANGED <<req, tickLeft>>

\* bpg_rsp_manage_create_follow_op_by_name: right behind the context whose
\* action asks for it; one there is no room for is freed again in the call.
FollowOp(c) ==
    /\ MayCall /\ Top.kind = "op" /\ ~Alive(c)
    /\ \E n \in 1..MaxActions : ctx' = Bound(c, n)
    /\ \/ /\ \A q \in Queue : Top.ctx \notin Members(queues[q])
          /\ pending' = Append(pending, c) /\ UNCHANGED queues
       \/ \E q \in Queue :
            /\ Top.ctx \in Members(queues[q]) /\ HasRoom(q)
            /\ queues' = [queues EXCEPT ![q] = InsertedAfter(@, Top.ctx, c)]
            /\ UNCHANGED pending
    /\ frames' = Called
    /\ UNCHANGED <<req, tickLeft>> /\ History

-----------------------------------------------------------------------------
\* What actions, callbacks and the main loop do to the contexts there are.
EngineStep ==
    /\ \/ \E c \in Ctx : Cancel(c) \/ Timeout(c) \/ ErrnoSet(c) \/ OpReturns(c)
       \/ RequireCall \/ CommitReturns \/ Tick
    /\ History

RspInit == Init /\ begun = {} /\ overflowed = {}
RspNext ==
    \/ \E c \in Ctx : RspExecute(c) \/ LateOp(c) \/ FollowOp(c)
    \/ EngineStep

RspSpec == RspInit /\ [][RspNext]_rspVars

-----------------------------------------------------------------------------
(* Properties *)

\* Requests of a queue are worked on one after the other: none is begun before
\* those in front of it have been committed and freed, however often they wait
\* in between (bpg_rsp_queue_context, logic_queue_dequeue).
OneAtATime ==
    \A q \in Queue : \A i \in 2..Len(queues[q]) : queues[q][i] \notin begun

\* A request does not go away unanswered, nor answered twice: its context is
\* freed after one call of bpg_rsp_commit.
AnsweredOnce ==
    [][\A c \in Ctx : Alive(c) /\ ctx'[c].state = "absent" => ctx[c].commits = 1]_rspVars
=============================================================================
