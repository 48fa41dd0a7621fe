----------------------------- MODULE LogicEngine -----------------------------
(***************************************************************************)
(* The scheduler of src/usf/logic: contexts (logic_context.c), the         *)
(* requires their actions wait for (logic_require.c), the named queues     *)
(* that serialise contexts (logic_queue.c), and the tick that executes the *)
(* pending ones (logic_manage.c).                                          *)
(*                                                                         *)
(* Everything runs on one thread.  What makes it hard is re-entrancy: an   *)
(* action, or a commit callback, may call any function of the library, and *)
(* some of those execute or commit a context before they return.  frames   *)
(* is the C call stack seen from that side: its bottom is the main loop of *)
(* gd_app, above it are the actions and commit callbacks being run.  The   *)
(* frame on top is the one that calls the library.                         *)
(*                                                                         *)
(* The executor tree of a context is module LogicStack's subject; here it  *)
(* is the number of actions that may still be popped.  All the waiting     *)
(* requires of a context hang on its current action (OnlyTopWaits of       *)
(* LogicStack), so the count of the stack node and that of the context are *)
(* one number.                                                             *)
(***************************************************************************)
EXTENDS Naturals, FiniteSets, TailQueue

CONSTANTS
    Ctx, Req, Queue,   \* slots for contexts and requires; the named queues
    None,              \* NULL
    Immediate,         \* contexts with logic_context_flag_execute_immediately
    TickMax,           \* the largest max_process_count of logic_manage_tick
    MaxCount,          \* m_max_count of the queues, 0 for no limit
    MaxActions,        \* bound: actions of an executor tree
    MaxCalls,          \* bound: library calls of one action, callback or main-loop turn
    OpCalls,           \* calls made on contexts other than the caller's own: by actions
                       \* and callbacks, and for "errno" by the main loop too
    Inserts,           \* the places the clients insert at in a queue; bpg_rsp has "tail" only
    CommitFrees        \* a commit callback ends by freeing its context, as bpg_rsp_commit does

ASSUME NoneAssumption == None \notin Ctx
ASSUME RequireAssumption == IsFiniteSet(Req)
ASSUME FlagAssumption == Immediate \subseteq Ctx /\ CommitFrees \in BOOLEAN
ASSUME LimitAssumption ==
    /\ TickMax \in Nat \ {0} /\ MaxCount \in Nat
    /\ MaxActions \in Nat \ {0} /\ MaxCalls \in Nat
ASSUME CallsAssumption == OpCalls \subseteq {"free", "execute", "cancel", "enqueue", "errno"}
ASSUME InsertsAssumption == Inserts \subseteq {"tail", "head", "after"}

VARIABLES
    ctx,       \* the contexts
    req,       \* the requires
    pending,   \* m_pending_contexts
    queues,    \* m_contexts of every logic_queue
    frames,    \* the calls in progress; <<>> once the process has crashed
    tickLeft   \* contexts logic_manage_tick has still to execute

vars == <<ctx, req, pending, queues, frames, tickLeft>>

-----------------------------------------------------------------------------
(* States *)

Terminal == {"error", "done", "cancel", "timeout"}
Resolved == {"done", "error", "timeout", "canceled"}

\* The order init < waiting < idle < error < ... of logic_context_state_t.
UpToIdle  == {"init", "waiting", "idle"}
UnderIdle == {"init", "waiting"}

Context ==
    [state : {"absent", "init", "idle"} \cup Terminal,
     errno : BOOLEAN,      \* m_errno is not 0
     deleting : BOOLEAN,
     left : 0..MaxActions, \* 0: m_item_pos is -1
     waits : Nat,          \* m_require_waiting_count
     commits : Nat]        \* history: how often m_commit_op was called

Absent == [state |-> "absent", errno |-> FALSE, deleting |-> FALSE,
           left |-> 0, waits |-> 0, commits |-> 0]

Require == [state : {"waiting"} \cup Resolved, of : Ctx]
NoRequire == [state |-> "absent", of |-> None]

Frame ==
    [kind : {"main"}, ctx : {None}, old : {"idle"}, calls : 0..MaxCalls] \cup
    [kind : {"op"}, ctx : Ctx, old : {"waiting", "idle", "error"}, calls : 0..MaxCalls] \cup
    [kind : {"commit"}, ctx : Ctx, old : {"idle"}, calls : 0..MaxCalls]

TypeOK ==
    /\ ctx \in [Ctx -> Context]
    /\ req \in [Req -> Require \cup {NoRequire}]
    /\ pending \in Seq(Ctx)
    /\ queues \in [Queue -> Seq(Ctx)]
    /\ frames \in Seq(Frame)
    /\ tickLeft \in 0..TickMax

\* Mutant: the macro forgets the requires the context waits for.
StateOfWithoutWaits(x) == IF x.errno THEN "error" ELSE x.state

\* logic_context_state_i: what the outside sees of m_state.
StateOf(x) ==
    IF x.errno THEN "error"
    ELSE IF x.state = "idle" /\ x.waits > 0 THEN "waiting" ELSE x.state

Alive(c) == ctx[c].state # "absent"

-----------------------------------------------------------------------------
(* The calls in progress *)

MainFrame      == [kind |-> "main", ctx |-> None, old |-> "idle", calls |-> 0]
OpFrame(c, x)  == [kind |-> "op", ctx |-> c, old |-> StateOf(x), calls |-> 0]
CommitFrame(c) == [kind |-> "commit", ctx |-> c, old |-> "idle", calls |-> 0]

Top   == frames[Len(frames)]
Below == SubSeq(frames, 1, Len(frames) - 1)

\* m_runing of c, if fs are the calls in progress.
RunsIn(fs, c) == \E i \in 1..Len(fs) : fs[i].kind = "op" /\ fs[i].ctx = c
Running(c) == RunsIn(frames, c)

\* The caller of the library, and its account after the call.
MayCall ==
    /\ frames # <<>>
    /\ Top.kind = "main" => tickLeft = 0
    /\ Top.calls < MaxCalls
Called == [frames EXCEPT ![Len(frames)].calls = @ + 1]
MainCalls == MayCall /\ Top.kind = "main"
\* The main loop may do what to any context; an action or callback has its own.
Allowed(what, c) == Top.kind = "main" \/ Top.ctx = c \/ what \in OpCalls

-----------------------------------------------------------------------------
(* The steps the operations share.  cx and fs are the contexts and the     *)
(* calls in progress at that point of the operation.                       *)

\* logic_context_execute up to the first action, for a context that is idle.
Begin(c, cx, fs, pend) ==
    /\ pending' = Removed(pend, c)
    /\ frames' = IF cx[c].left > 0 THEN Append(fs, OpFrame(c, cx[c])) ELSE fs

\* Mutants: a context that runs, or one that left already, is looked at again.
QuietUnlessRunning(c, old, cur, fs) == old \notin UpToIdle \/ cur \in UnderIdle
QuietUnlessLeft(c, old, cur, fs)    == RunsIn(fs, c) \/ cur \in UnderIdle

\* The early returns of logic_context_do_state_change.
Quiet(c, old, cur, fs) == RunsIn(fs, c) \/ old \notin UpToIdle \/ cur \in UnderIdle

\* logic_context_do_state_change, from the state old.
StateChange(c, old, cx, fs) ==
    LET cur   == StateOf(cx[c])
        quiet == Quiet(c, old, cur, fs)
    IN  \/ /\ quiet
           /\ ctx' = cx /\ frames' = fs /\ pending' = pending
        \/ /\ ~quiet /\ cur = "idle" /\ c \in Immediate
           /\ ctx' = cx /\ Begin(c, cx, fs, pending)
        \/ /\ ~quiet /\ cur = "idle" /\ c \notin Immediate
           /\ ctx' = cx /\ frames' = fs /\ pending' = Requeued(pending, c)
        \/ /\ ~quiet /\ cur \in Terminal
           /\ ctx' = [cx EXCEPT ![c].commits = @ + 1]
           /\ frames' = Append(fs, CommitFrame(c))
           /\ pending' = pending

\* logic_queue_dequeue of c makes the context behind it the head: it is woken.
Woken(c) == {n \in Ctx : \E q \in Queue : Len(queues[q]) > 1 /\ queues[q][1] = c /\ queues[q][2] = n}
\* Mutant: the new head is not woken.
PendingUnchanged(c) == pending
\* Mutant: ... or woken to the head of the list.
PendingFront(c) ==
    IF Woken(c) = {} THEN pending ELSE <<CHOOSE n \in Woken(c) : TRUE>> \o pending
PendingAfterLeaving(c) ==
    IF Woken(c) = {} THEN pending ELSE Requeued(pending, CHOOSE n \in Woken(c) : TRUE)

\* logic_context_free of a context that does not run.
Release(c, fs) ==
    /\ ctx' = [ctx EXCEPT ![c] = Absent]
    /\ req' = [r \in Req |-> IF req[r].of = c THEN NoRequire ELSE req[r]]
    /\ queues' = [q \in Queue |-> Removed(queues[q], c)]
    /\ pending' = Removed(PendingAfterLeaving(c), c)
    /\ frames' = fs
    /\ UNCHANGED tickLeft

\* Client obligation: freeing a waiting context, or its last waiting require,
\* cancels the require, which executes an execute_immediately context inside
\* the free and lets it be freed a second time.  No caller in src does so.
Interruptible(c) == c \in Immediate => StateOf(ctx[c]) # "waiting"

-----------------------------------------------------------------------------
(* Contexts: logic_context.c *)

Create(c) ==
    /\ MayCall /\ ~Alive(c)
    /\ ctx' = [ctx EXCEPT ![c] = [Absent EXCEPT !.state = "init"]]
    /\ pending' = Append(pending, c)
    /\ frames' = Called
    /\ UNCHANGED <<req, queues, tickLeft>>

Bind(c) ==
    /\ MayCall /\ ctx[c].state = "init"
    /\ \E n \in 1..MaxActions : ctx' = [ctx EXCEPT ![c].state = "idle", ![c].left = n]
    /\ frames' = Called
    /\ UNCHANGED <<req, pending, queues, tickLeft>>

\* A direct call: for a context its caller sees idle or waiting, that does not
\* run already (asserted) and does not wait behind another one in a queue.
Execute(c) ==
    /\ MayCall /\ Allowed("execute", c)
    /\ StateOf(ctx[c]) \in {"idle", "waiting"} /\ ~Running(c)
    /\ \A q \in Queue : c \in Members(queues[q]) => queues[q][1] = c
    /\ Begin(c, ctx, Called, pending)
    /\ UNCHANGED <<ctx, req, queues, tickLeft>>

\* logic_context_cancel, and logic_context_timeout when the timer fires.
Leave(c, state) ==
    /\ Alive(c)
    /\ StateChange(c, StateOf(ctx[c]), [ctx EXCEPT ![c].state = state], Called)
    /\ UNCHANGED <<req, queues, tickLeft>>
Cancel(c)  == MayCall /\ Allowed("cancel", c) /\ Leave(c, "cancel")
Timeout(c) == MainCalls /\ Leave(c, "timeout")

\* logic_context_errno_set with an error; no caller resets it to 0.
ErrnoSet(c) ==
    /\ MayCall /\ (Top.ctx = c \/ "errno" \in OpCalls)
    /\ Alive(c) /\ ~ctx[c].errno
    /\ ctx' = [ctx EXCEPT ![c].errno = TRUE]
    /\ frames' = Called
    /\ UNCHANGED <<req, pending, queues, tickLeft>>

\* Mutant: a running context is released at once.
FreeAtOnce(c) ==
    /\ MayCall /\ Allowed("free", c) /\ Alive(c) /\ Interruptible(c)
    /\ Release(c, Called)

\* logic_context_free: put off while the context runs.
Free(c) ==
    /\ MayCall /\ Allowed("free", c) /\ Alive(c)
    /\ \/ /\ Running(c)
          /\ ctx' = [ctx EXCEPT ![c].deleting = TRUE]
          /\ frames' = Called
          /\ UNCHANGED <<req, pending, queues, tickLeft>>
       \/ /\ ~Running(c) /\ Interruptible(c)
          /\ Release(c, Called)

-----------------------------------------------------------------------------
(* Requires: logic_require.c *)

\* An action creates requires on its own stack node.
CreateRequire(r) ==
    /\ MayCall /\ Top.kind = "op" /\ req[r] = NoRequire
    /\ req' = [req EXCEPT ![r] = [state |-> "waiting", of |-> Top.ctx]]
    /\ ctx' = [ctx EXCEPT ![Top.ctx].waits = @ + 1]
    /\ frames' = Called
    /\ UNCHANGED <<pending, queues, tickLeft>>

\* Mutant: a late answer is counted like the first one.
MayResolveLate(r) == req[r] # NoRequire
MayResolve(r) == req[r].state = "waiting"

\* The common end of set_done, set_error_ex, set_timeout and cancel.
Resolve(r, rq) ==
    LET c == req[r].of IN
    /\ MayResolve(r)
    /\ req' = rq
    /\ StateChange(c, StateOf(ctx[c]), [ctx EXCEPT ![c].waits = @ - 1], Called)
    /\ UNCHANGED <<queues, tickLeft>>

\* An answer.  One that comes late only overwrites the require's state.
Answer(r, outcome) ==
    /\ MayCall /\ outcome \in {"done", "error"}
    /\ \/ Resolve(r, [req EXCEPT ![r].state = outcome])
       \/ /\ req[r].state \in Resolved
          /\ req' = [req EXCEPT ![r].state = outcome]
          /\ frames' = Called
          /\ UNCHANGED <<ctx, pending, queues, tickLeft>>
CancelRequire(r)  == MayCall /\ Resolve(r, [req EXCEPT ![r].state = "canceled"])
RequireTimeout(r) == MainCalls /\ Resolve(r, [req EXCEPT ![r].state = "timeout"])

FreeRequire(r) ==
    /\ MayCall /\ req[r] # NoRequire
    /\ \/ /\ ctx[req[r].of].waits = 1 => Running(req[r].of) \/ Interruptible(req[r].of)
          /\ Resolve(r, [req EXCEPT ![r] = NoRequire])
       \/ /\ req[r].state \in Resolved
          /\ req' = [req EXCEPT ![r] = NoRequire]
          /\ frames' = Called
          /\ UNCHANGED <<ctx, pending, queues, tickLeft>>

-----------------------------------------------------------------------------
(* Queues: logic_queue.c *)

\* The enqueue functions assert that c is pending and in no queue yet, and
\* refuse it when the queue is full.  A context that is not the head waits
\* there instead of in the pending list.
MayEnqueue(q, c) ==
    /\ MayCall /\ Allowed("enqueue", c)
    /\ c \in Members(pending)
    /\ \A p \in Queue : c \notin Members(queues[p])
    /\ MaxCount > 0 => Len(queues[q]) < MaxCount
EnqueueAs(place, q, c, list) ==
    /\ MayEnqueue(q, c) /\ place \in Inserts
    /\ queues' = [queues EXCEPT ![q] = list]
    /\ pending' = IF list[1] = c THEN pending ELSE Removed(pending, c)
    /\ frames' = Called
    /\ UNCHANGED <<ctx, req, tickLeft>>

EnqueueTail(q, c) == EnqueueAs("tail", q, c, Append(queues[q], c))
\* Mutant: inserted before the head, which may be running.
EnqueueBeforeHead(q, c) == EnqueueAs("head", q, c, <<c>> \o queues[q])
EnqueueHead(q, c) ==
    EnqueueAs("head", q, c, IF queues[q] = <<>> THEN <<c>>
                            ELSE InsertedAfter(queues[q], queues[q][1], c))
EnqueueAfter(q, pre, c) ==
    /\ pre \in Members(queues[q])
    /\ EnqueueAs("after", q, c, InsertedAfter(queues[q], pre, c))

Dequeue(q, c) ==
    /\ MayCall /\ Allowed("enqueue", c) /\ c \in Members(queues[q])
    /\ queues' = [queues EXCEPT ![q] = Removed(@, c)]
    /\ pending' = IF queues[q][1] = c THEN PendingAfterLeaving(c) ELSE Requeued(pending, c)
    /\ frames' = Called
    /\ UNCHANGED <<ctx, req, tickLeft>>

-----------------------------------------------------------------------------
(* Running: logic_stack_exec and the rest of logic_context_execute *)

\* The end of logic_context_execute; cx has what the run did to the context.
EndRun(c, cx) ==
    IF cx[c].deleting
    THEN Release(c, Below)
    ELSE /\ StateChange(c, Top.old, cx, Below)
         /\ UNCHANGED <<queues, tickLeft>>

\* The action waits for its requires (it returned true or false).
OpWaits(c) ==
    /\ frames # <<>> /\ Top.kind = "op" /\ Top.ctx = c
    /\ ctx[c].waits > 0
    /\ ctx[c].deleting => Interruptible(c)
    /\ EndRun(c, ctx)
    /\ ~ctx[c].deleting => req' = req

\* The action is popped: waiting requires of its node are canceled.
ReqPopped(c) ==
    [r \in Req |-> IF req[r].of = c /\ req[r].state = "waiting"
                   THEN [req[r] EXCEPT !.state = "canceled"] ELSE req[r]]
\* Mutant: canceled with the count of the stack node only.
PoppedWaiting(c, n) == [ctx EXCEPT ![c].left = n]
Popped(c, n) == [ctx EXCEPT ![c].waits = 0, ![c].left = n]

\* ... and the next action of the tree is called,
OpNext(c) ==
    /\ frames # <<>> /\ Top.kind = "op" /\ Top.ctx = c
    /\ ctx[c].state = "idle" /\ ~ctx[c].deleting
    /\ \E n \in 1..(ctx[c].left - 1) : ctx' = Popped(c, n)
    /\ req' = ReqPopped(c)
    /\ frames' = [frames EXCEPT ![Len(frames)].calls = 0]
    /\ UNCHANGED <<pending, queues, tickLeft>>

\* ... or the loop is left: the stack is empty or the context not idle any more.
\* A null result of the root makes an error of it.
OpEnds(c) ==
    /\ frames # <<>> /\ Top.kind = "op" /\ Top.ctx = c
    /\ \E n \in 0..(ctx[c].left - 1), null \in BOOLEAN :
        /\ n > 0 => ctx[c].state # "idle" \/ ctx[c].deleting
        /\ LET cx == Popped(c, n) IN
           EndRun(c, IF ctx[c].errno \/ n > 0 THEN cx
                     ELSE [cx EXCEPT ![c].state = IF null THEN "error" ELSE "done",
                                     ![c].errno = null])
    /\ ~ctx[c].deleting => req' = ReqPopped(c)

CommitReturns ==
    /\ frames # <<>> /\ Top.kind = "commit"
    /\ IF CommitFrees /\ ctx[Top.ctx].commits > 0
       THEN Release(Top.ctx, Below)
       ELSE frames' = Below /\ UNCHANGED <<ctx, req, pending, queues, tickLeft>>

-----------------------------------------------------------------------------
(* The main loop: logic_manage_tick *)

InMain == frames # <<>> /\ Top.kind = "main"

\* Mutants: the limit is taken for the count; it is off by one.
TickCountMax(max) == max
TickCountShort(max) == IF Len(pending) < max THEN Len(pending) ELSE max - 1
TickCount(max) == IF Len(pending) < max THEN Len(pending) ELSE max

\* The argument is the one the tick was registered with.
TickStart ==
    /\ InMain /\ tickLeft = 0
    /\ \E max_process_count \in 1..TickMax : tickLeft' = TickCount(max_process_count)
    /\ frames' = <<MainFrame>>
    /\ UNCHANGED <<ctx, req, pending, queues>>

\* logic_context_execute returns at once for a context that is not idle.
TickExecute ==
    /\ InMain /\ tickLeft > 0 /\ pending # <<>>
    /\ IF ctx[pending[1]].state = "idle"
       THEN Begin(pending[1], ctx, frames, pending)
       ELSE UNCHANGED <<frames, pending>>
    /\ tickLeft' = tickLeft - 1
    /\ UNCHANGED <<ctx, req, queues>>

\* TAILQ_FIRST of an empty list is executed: a NULL dereference.
TickCrash ==
    /\ InMain /\ tickLeft > 0 /\ pending = <<>>
    /\ frames' = <<>>
    /\ UNCHANGED <<ctx, req, pending, queues, tickLeft>>

-----------------------------------------------------------------------------
Init ==
    /\ ctx = [c \in Ctx |-> Absent]
    /\ req = [r \in Req |-> NoRequire]
    /\ pending = <<>>
    /\ queues = [q \in Queue |-> <<>>]
    /\ frames = <<MainFrame>>
    /\ tickLeft = 0

ContextCall ==
    \E c \in Ctx : \/ Create(c) \/ Bind(c) \/ Execute(c) \/ Cancel(c)
                   \/ Timeout(c) \/ ErrnoSet(c) \/ Free(c)
RequireCall ==
    \E r \in Req : \/ CreateRequire(r) \/ CancelRequire(r) \/ RequireTimeout(r)
                   \/ FreeRequire(r) \/ \E o \in {"done", "error"} : Answer(r, o)
QueueCall ==
    \E q \in Queue, c \in Ctx :
        \/ EnqueueTail(q, c) \/ EnqueueHead(q, c) \/ Dequeue(q, c)
        \/ \E pre \in Ctx : EnqueueAfter(q, pre, c)
OpReturns(c) == OpWaits(c) \/ OpNext(c) \/ OpEnds(c)
Tick == TickStart \/ TickExecute \/ TickCrash

Next ==
    \/ ContextCall \/ RequireCall \/ QueueCall
    \/ \E c \in Ctx : OpReturns(c)
    \/ CommitReturns \/ Tick

Spec == Init /\ [][Next]_vars
-----------------------------------------------------------------------------
(* Properties *)

\* m_require_waiting_count counts the waiting requires: no answer, timeout or
\* cancel, however late or repeated, is counted twice or not at all.
WaitsAgree ==
    \A c \in Ctx : ctx[c].waits = Cardinality({r \in Req : req[r] = [state |-> "waiting", of |-> c]})

\* No context is lost: one that is idle and not running is in the pending list,
\* or waits behind another one in a queue.
NoneLost ==
    \A c \in Ctx : StateOf(ctx[c]) = "idle" /\ ~Running(c) =>
        c \in Members(pending) \/ \E q \in Queue : c \in Members(queues[q]) /\ queues[q][1] # c

\* A context that waits behind another one in a queue is not in the pending
\* list and does not run (asserted in logic_queue.c).
OnlyHeadRuns ==
    \A q \in Queue : \A i \in 2..Len(queues[q]) :
        queues[q][i] \notin Members(pending) /\ ~Running(queues[q][i])

\* Nothing points to freed memory: the lists, the calls in progress and the
\* requires refer to living contexts only.
NoDangling ==
    /\ \A c \in Members(pending) : Alive(c)
    /\ \A q \in Queue : \A c \in Members(queues[q]) : Alive(c)
    /\ \A c \in Ctx : Running(c) => Alive(c)
    /\ \A r \in Req : req[r] # NoRequire => Alive(req[r].of)

\* A context is linked once in the pending list and in one queue at most, and
\* is run by one call of logic_context_execute at a time (m_runing).
LinkedOnce ==
    /\ IsInjective(pending)
    /\ \A q \in Queue : IsInjective(queues[q])
    /\ \A p, q \in Queue : p # q => Members(queues[p]) \cap Members(queues[q]) = {}
    /\ \A i, j \in 1..Len(frames) :
          frames[i].kind = "op" /\ frames[j].kind = "op" /\ frames[i].ctx = frames[j].ctx => i = j

\* The commit callback of a context is called once, and no action of it is
\* run afterwards.
CommitOnce ==
    \A c \in Ctx : ctx[c].commits <= 1 /\ (ctx[c].commits = 1 => ~Running(c))

\* logic_manage_tick never finds the pending list shorter than it counted.
NoCrash == frames # <<>>

\* No context is overtaken in the pending list: those that stay keep their order,
\* and one that comes, or is woken by the one in front of it in its queue, is
\* behind them all.
PendingInOrder ==
    [][\A b, c \in Members(pending') : b \in Members(pending) =>
          IF c \in Members(pending) THEN Before(pending, b, c) => Before(pending', b, c)
          ELSE Before(pending', b, c)]_vars

\* The phase of ContextLife of a context x, which runs or not.
PhaseIn(x, run) ==
    CASE x.state = "absent" -> "none"
      [] x.state # "absent" /\ run -> "running"
      [] x.state # "absent" /\ ~run /\ x.commits > 0 -> "committed"
      [] OTHER -> CASE StateOf(x) = "init"    -> "new"
                    [] StateOf(x) = "idle"    -> "ready"
                    [] StateOf(x) = "waiting" -> "waiting"
                    [] OTHER                  -> "failed"

Phase == [c \in Ctx |-> PhaseIn(ctx[c], Running(c))]

\* Every context lives the life ContextLife describes, whatever the actions,
\* callbacks and handlers of the others do.
Life == INSTANCE ContextLife WITH phase <- Phase
LifeSpec == Life!Spec
=============================================================================
