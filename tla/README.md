# Verification of GeneralDE

GeneralDE is a C framework for game and service back ends: a set of base
libraries (`src/cpe`), an application container with timers, events and
networking (`src/gd`), and services on top of it (`src/usf`): an asynchronous
logic engine and a package protocol whose requests are run by that engine.

This directory holds TLA+ models of that code, TLC configurations that check
them, and TLAPS proofs. Paths below are relative to the repository root.

    tlc -config LogicStack.cfg MCLogicStack      # model-check one run
    tlapm LogicStack_proofs.tla                  # check the proofs

## 1. The system

One process, one thread. `gd_app` runs a main loop that calls registered ticks
in turn: the network (`cpe/net`), timers (`gd/timer` over `cpe/tl`), and
`logic_manage_tick`. All other code runs inside callbacks of these ticks, so
there is no preemption; what interleaves are callbacks, and library calls made
from inside callbacks (re-entrancy).

| part | state it keeps | operations | interacts with |
| --- | --- | --- | --- |
| `usf/logic` stack machine (`logic_stack.c`, `logic_executor*.c`) | stack of executors with their results, count of waiting requires per item | bind, push, exec, pop | calls the actions of the application |
| `usf/logic` contexts, requires, queues, tick (`logic_context.c`, `logic_require.c`, `logic_queue.c`, `logic_manage.c`) | contexts and requires by id, pending and waiting lists, named queues | create, bind, execute, cancel, timeout, free; create, answer, cancel a require; enqueue, dequeue; tick | calls actions and commit callbacks, which call back into all of these operations; one timer per context and require (`gd/timer`) |
| `usf/logic` data, executor registry | typed memory of contexts, reference-counted executors | create, find, copy | used by actions |
| `usf/logic_use` | require queues (`logic_require_queue.c`), asynchronous operations (`logic_op_async.c`) | add, remove, notify | answer requires of `usf/logic` |
| `usf/bpg_rsp` | responders with their executor and queue | request arrives: create context, enqueue, bind, execute; commit sends the response and frees the context | main client of `usf/logic` |
| `usf/bpg_pkg`, `bpg_net`, `bpg_cli`, `bpg_bind`, `bpg_use` | packages, sockets, outstanding sends | encode, dispatch, send, receive | `cpe/net`, `cpe/dp`, `bpg_rsp` |
| `gd/app` | modules, ticks | start, run, stop | everything |
| `gd/timer` | timers with identifiers that are reused | register, unregister, fire | `cpe/tl` events |
| `cpe/tl` | ring of pending actions, ordered queue of events | send, remove, dispatch | timers, events |
| `gd/evt`, `cpe/dp` | subscriptions; responders bound to commands | publish, dispatch, bind, unbind | callbacks that change the tables they are called from |
| `cpe/net` | listeners, connectors, endpoints, buffer chains | connect, reconnect, read, write, close | callbacks, timers |
| `cpe/fsm`, `cpe/nm`, `cpe/otm` | state machine tables, named nodes, timers in shared memory | apply event, register, tick | services |
| `cpe/aom`, `pom`, `pom_grp`, `cfg`, `dr`, `utils`, `pal`, `zip` | data layouts, parsers, containers | sequential data operations | everybody |
| `cpepp`, `gdpp`, `usfpp`, `*_tool`, `cpe/android` | none of their own | C++ wrappers, code generators | |

What is hard, and what correctness means there:

- **Logic stack.** Results travel up through composites, decorators and
  conditions while actions wait, return null, cancel or free the context. The
  machine must compute the result the tree means, call the actions it means and
  no other, and end. Requires point into the array of stack items, which moves.
- **Contexts and requires.** Answers, timers, cancels and frees come in any
  order, repeatedly and from inside other contexts' actions; each answer may
  execute a context on the spot. A context must run once at a time, commit at
  most once, stay alive while the calls in progress hold it, and get a turn.
- **Queues and tick.** A queue lets only its head run. Whenever the head goes,
  in whatever way, the next one must be woken. The tick takes a bounded number.
- **bpg_rsp.** A request must be executed and answered once, or refused, also
  when its queue is full.
- **Timeline, timers, events.** Callbacks remove the event, the timer or the
  subscription that calls them; identifiers are reused; the ring is bounded.
- **Net.** Closing inside callbacks, reconnect timers that outlive a
  disable, half-freed endpoints, shared buffer chains.

`PROJECT.json` lists every component with its status, and the hazards with the
source line where each bites and the properties that watch it.

## 2. How the models fit together

| layer | modules | abstract specification or reference |
| --- | --- | --- |
| the tree of one context | `LogicStack`, `MCLogicStack` | `LogicTree`, the meaning of a tree as rules |
| all contexts, requires and queues | `LogicEngine` with `TailQueue`, `MCLogicEngine` | `ContextLife`, the life of one context |
| requests served by that engine | `BpgRsp` (extends `LogicEngine`), `MCBpgRsp` | the properties of its engine: `SchedulerKeepsIts` |
| requests sent to other processes | `NetClient` (extends `GdTimer` and `NetConnector`), `MCNetClient` | its two parts: `ImplementsTimers`, `ImplementsConnector` |
| timers and their owners | `GdTimer` | |
| connection, endpoint, watcher | `NetConnector` | |
| time | `Timeline`, `MCTimeline` | `ActionFifo`, a bounded queue |

The layers meet in the require. `LogicStack` sees a number of requires that wait on
an item; `LogicEngine` sees each require with its context, and a timer as something
that may fire; `GdTimer` has the timers with their identifiers; `NetClient` has what is
done to answer a require by another process. `BpgRsp` and `LogicEngine` share all
their state: the responder adds what it does between creating a context and freeing it.

Each module whose theorems are proved has them in `<module>_proofs`; no such module
reaches a recursive operator.

## 3. The modules

### LogicStack (logic_stack.c)

One context and its tree. `stack` is `m_inline_items` and `m_extern_items` up
to `m_item_pos`; an item has its executor, `m_rv` and `m_require_waiting_count`.
The C loop is cut where control can be told apart from outside:

| action | code |
| --- | --- |
| `Push` | one round of `goto REINTER` in `logic_stack_push`; `todo` is the executor of the next round |
| `CallOp`, `ReturnBlocked`, `ReturnPopped` | the call of the op, and its two ways back: it has requires to wait for, or it is popped |
| `CreateRequire`, `Answer`, `Stop` | what an op, a timer or a handler may do in between |
| `PopInner` | an inner node whose children are done comes to the top |
| `UpComposite`, `UpDecorator`, `UpCondition` | the parent's rule; `popped` is `pre_stack_item` |
| `Finish`, `LeaveStopped` | the two ways out of the loop: stack empty, context not idle |
| `Resume`, `ExecuteEarly` | the next `logic_context_execute`, by the tick or by a direct call |

`LogicTree` says what a tree means with no stack, one rule for each kind of node,
following the list of kinds in `include/usf/logic/README.md` (lines 36 to 90): which
children are run, in what order, and what the node makes of their results. A run is a
derivation with these rules. The code departs from two sentences about parallel nodes
(finding 1). They are named in `Sentences`, and the rules take the set of sentences that
are suspended: both in `ResultAgrees`, so that it says what the code does keep, and
not both in `ParallelAsDocumented`, which is refuted. `log` is a history of the machine, the nodes in the order they were
popped, each with its result, the place where its part of the log begins and the places of
its children. `Follows(tree, log, j, but)` says that the entry `j` is a step of the derivation:
its children take up its part of the log without a gap, and its result follows by the rule
of its kind. `open` keeps, for every item of the stack, what its entry will have.
`MCLogicStack` enumerates trees of depth three.

Abstracted: results are `true`, `false`, `null` (redo is not used by the
machine); growth of the array is the property `OnlyTopWaits`; running out of
memory is left out.

### LogicEngine (logic_context.c, logic_require.c, logic_queue.c, logic_manage.c)

`frames` is the C call stack seen from the library: the main loop at the
bottom, above it the actions and commit callbacks in progress. The top frame is
the one that may call the library. A call that makes `logic_context_execute`
run an action pushes an `"op"` frame; one that commits pushes a `"commit"`
frame; `EndRun` and `CommitReturns` pop them and perform the rest of the C
function that was interrupted. So `logic_context_execute` is split at the call
of the action, and `logic_context_do_state_change` at the call of the callback,
exactly where other code can run. Everything else of a C function is one step.

- `ctx[c]` is `struct logic_context`: `m_state`, whether `m_errno` is set,
  `m_deleting`, how many actions may still be popped (the tree, seen from here),
  `m_require_waiting_count`, and a history count of commits.
  `m_runing` is `Running(c)`, an op frame of `c` in `frames`.
- `req[r]`, `pending`, `queues[q]` are the requires, `m_pending_contexts` and
  the queues. `TailQueue` has the TAILQ macros as operations on sequences.
- `StateOf` is the macro `logic_context_state_i`, `StateChange` is
  `logic_context_do_state_change` with its early returns in `Quiet`.
- `TickStart`, `TickExecute`, `TickCrash` are `logic_manage_tick`; the last is
  the call with the `NULL` of an empty list.

What actions and callbacks may do is bounded by `MaxCalls` per frame and by
`OpCalls`, the kinds of calls they make on contexts other than their own; their
own context they may free, cancel, set an error code on, and create requires for.

Client obligations, which the code does not check and the model assumes:

- `Execute`: called for an idle or waiting context that does not run (asserted
  in the code) and does not wait behind another one in a queue.
- `Interruptible`: a context with `execute_immediately` that waits is not freed,
  nor is its last waiting require. `logic_context_free` cancels the requires,
  the last cancel executes the context inside its own free. It is listed as a
  hazard; no caller in the repository sets that flag outside the tests.
- The main loop waits for the end of a tick before it makes other calls.
- An error code is not reset to 0.

`m_commit_op == NULL` behaves as a callback that only frees the context and is
covered by that. Timers are events that may fire at any time while their object
exists. Identifiers, hash tables, allocation failure, `logic_queue_free`,
`logic_manage_clear` and the `*_free_all` functions are not modelled;
`m_waiting_contexts` neither, since no code sets `m_state` to waiting.

### ContextLife

What the engine promises the owner of a context: a life of seven phases.
`LogicEngine` maps a context to its phase (`PhaseIn`), and `LifeSpec` says
that every step of the engine is a step of that life, or none. It forbids a second
run inside the first, a run or a commit after the commit, going back to waiting
without a run, and so on, for all contexts at once and whatever they do to each other.

### Timeline, ActionFifo (src/src/cpe/tl)

`ring`, `begin`, `end` are `m_action_queue` and its two positions; `node[e]` is
`struct tl_event_node` with its state, times and repeat count, `queue` is
`m_event_queue`. The building queue is the set of the nodes in that state. `now`,
`eaten` and `paused` are `m_time_current`, `m_time_pause_eat` and `m_state`.

A dispatcher is application code that calls the library again, so
`tl_manage_tick` is cut at the call of each dispatcher. `at` is the loop it
stands in and `running` is the dispatcher being called:

| action | code |
| --- | --- |
| `AddAction`, `CreateEvent`, `SendEvent`, `FreeEvent` | `tl_action_add`, `tl_event_create`, `tl_event_send_ex`, `tl_event_free` |
| `CreateTl`, `FreeTl`, `Pause`, `Resume` | `tl_create`, `tl_free`, `tl_manage_pause`, `tl_manage_resume` |
| `Tick` | `tl_manage_tick` up to its loop: read the time, begin a round |
| `DispatchAction`, `ActionReturns`, `DropAction` | one round of a loop over the ring, up to and from the dispatcher; without a dispatcher it is an error that ends the tick |
| `EndWrapped`, `EndActions` | the ends of the two loops over the ring |
| `DispatchEvent`, `EventReturns`, `DropEvent` | the same for the event loop |
| `EndRound` | another round, or the end of the tick |

`first`, `asked` and `fired` of a node are history: what was sent, and how often
it was dispatched. `Asserts` says whether the build has assertions; without them
the loops go on with a wrapped ring.

Client obligations, guards of `FreeTl`: a timeline is freed when none of its
actions is pending (the slots keep the pointer) and none of its events is being
dispatched (the loop over its events would not end). Left out: interceptors, clones,
`tl_set_opt`, `tl_manage_free`, and calls that are refused without effect.

`ActionFifo` is what the ring promises: a bounded queue whose head keeps its place
until its dispatcher has returned. `MCTimeline` maps the ring to it.

### BpgRsp (src/src/usf/bpg_rsp)

A request package makes a context, which is queued as the responder's
`logic-queue` says, run, and committed by `bpg_rsp_commit`. `BpgRsp` extends
`LogicEngine`; what it replaces are the ways in which contexts come to be and go:

| action | code |
| --- | --- |
| `RspExecute`: `RunUnqueued`, `RunFirst`, `WaitBehind`, `Overflow` | `bpg_rsp_execute` and `bpg_rsp_queue_context`: executed in the call, behind others, or in a queue that is full |
| `Refused` | `bpg_rsp_commit_error`: an error code set and `bpg_rsp_commit` called directly |
| `LateOp`, `FollowOp` | `bpg_rsp_manage_create_op_by_name`, `bpg_rsp_manage_create_follow_op_by_name` |
| `EngineStep` | actions, answers, timeouts, commits and the tick of `LogicEngine`; a commit frees its context (`CommitFrees`) |

A request is named by the slot of its context. A request may arrive from the main
loop and from inside an action or a commit (a dispatch in the same process). `begun`
is history: the requests whose first action was called; so is `overflowed`: those their
queue had no room for. The response itself, carry data, metas, masks,
configuration and teardown are left out.

### GdTimer (src/src/gd/timer, and the timers of src/src/usf/logic)

`timer[t]` is the processor with identifier `t`; `Free` means that `t` is in the
pool `m_ids`. An owner is a context with a timeout or a require; `held` is its copy
`m_timer_id`. `Register` takes the smallest identifier of the pool, as
`cpe_range_get_one` does.

| action | code |
| --- | --- |
| `CreateContext`, `CreateRequire` | `logic_context_create`, `logic_require_create_i` with `gd_timer_mgr_regist_timer` |
| `Resolve` | `logic_require_set_done`, `logic_require_set_error_ex` of a set of requires, which stop their timers |
| `Cancel` | `logic_require_do_cancel`, which does not |
| `FreeContext`, `FreeRequire` | the frees, with all requires of the context |
| `Fire`, `Return` | `gd_timer_mgr_dispatch_timer`, cut where the owner's function is done and code of the client may have run |

A copy of an identifier stays with its owner after the timer has fired, and the
identifier goes to the next timer: to stop by it removes the timer of somebody else.
`lost` is history: the owners this happened to. `TimerHasOwner` says the copies never
fail the other way round: no armed timer belongs to an owner that is gone.
`WaitingIsTimed` says what a waiting require can rely on.

### NetConnector (src/src/cpe/net)

A connector and its endpoint share one libev watcher. `watch` is that watcher: whose
callback it has, and its events. `rsize` and `wsize` are the fill levels of the channels
in units; where a package ends is for the decoder, and any outcome is a step.

| action | code |
| --- | --- |
| `Enable`, `Disable`, `Reconnect` | `net_connector_enable`, `net_connector_disable`, `net_connector_timer_cb_reconnect` |
| `ConnectDone` | `net_connector_io_cb_connect` |
| `ReadBegins`, `Decode`, `DecodeEnds`, `DecodeFails`, `WriteOnly` | `net_ep_cb`, cut at the packages it hands to the application, which calls the library again; `cb` is the call in progress |
| `Send`, `UserClose` | `net_ep_send`, `net_ep_close` |
| `Connect`, `CloseTo`, `Prepare`, `Update`, `Calc` | `net_connector_do_connect_i`, `net_ep_close_i`, `net_connector_cb_prepaire`, `net_ep_update_events`, `net_ep_calc_ev_events` |

`fault` is set by what libev forbids (to initialise a watcher that is active), by a
descriptor that is overwritten while it is open, and by an active watcher that is turned
to other data; nothing after it is followed. `leftover` is history: the timer
was left active by a disable. Client obligation: no `net_ep_send` while the connect
is in progress (`Redirects`); the caller in the repository asks for the state first.

### NetClient (src/src/usf/bpg_net, the client)

The steps of the two parts, in the combinations the client makes of them: `stage` is
what became of the request of each require, `table` is `m_runing_requires`.

| action | code |
| --- | --- |
| `SendUnconnected`, `SendUnencoded`, `SendAccepted`, `SendOverflows` | the exits of `bpg_net_client_send` |
| `Response`, `Push`, `ReadEnds`, `ReadFails` | the loop of `bpg_net_client_on_read` |
| `NotifyAll` in `ClosedOrNot` | `bpg_net_client_on_close`: all requires of the table fail |
| `Save`, `Checked` | `bpg_net_client_save_require_id`, `bpg_net_client_check_requires` |
| `EnableClient` to `WriteEvent`, `TimerFires`, `TimerReturns` | the callbacks of the event loop and the timers |

Messages are lost with the connection, at any point; a response may come late
(after the require timed out, was canceled or freed), twice, or never. A response
of an earlier connection may be in the read channel still, so `Response` is
enabled for every request that was sent. Require identifiers come from a counter, so
a member of `Req` is used once.

## 4. The runs

| run | instance | shows |
| --- | --- | --- |
| `stack` | all trees with a root of any of the 7 inner kinds, up to 3 children, the first child of any kind with up to 2 children; 2 requires | the nodes that were run and the results are a derivation by the rules of `LogicTree` but for the two suspended sentences, and the result is that of the root (`ResultAgrees`), requires hang on the top item only, the stack is a path of the tree, every run ends |
| `stack_parallel` | parallel nodes of both policies, no requires | **violation**, see finding 1 |
| `engine_requires` | 2 contexts, one immediate, 2 requires (symmetric), trees of 2 actions, actions that free, execute, cancel and fail other contexts | waiting counts agree, nothing dangles, linked and run once, committed once, `LifeSpec` |
| `engine_queues` | 3 contexts (symmetric), 1 require, a queue limited to 2, all insert positions, ticks of 1 and of 2 | no context is lost, only the head of a queue runs, pending contexts do not overtake each other (`PendingInOrder`) |
| `engine_errno`, `engine_cancel` | 1 context | **violations**, findings 2 and 3 |
| `timeline_ring` | a ring of 4 slots, 3 timelines of which one has no dispatcher, 1 event, counts up to 2 | the ring is the FIFO of `ActionFifo` |
| `timeline_events` | 2 events, times 0 to 2, repeats 1, 2 and for ever, 2 calls in each dispatcher, count 1, fair | queue and states agree, order is stable, repeats do not drift, time never goes back, due events are served |
| `timeline_assert` | a ring of 3 slots, assertions on | **violation**, finding 4 |
| `bpg_requests` | 2 requests at a time, one queue without and one with a max-count of 1, 1 require, trees of 2 actions, ticks of 1 and of 2, fair | requests of a queue are worked on one after the other, none goes away but by one commit, the tick does not run into an empty list, each pending context is served, one behind another in a queue gets its turn, each request its queue has room for is answered in the end |
| `bpg_overflow` | 2 requests at a time, a queue with a max-count of 1 | **violation**, see finding 5 |
| `net_client` | 2 requires of a context, 2 timer identifiers, channels of 2 units, 1 disable, fair | identifiers that are reused, the watcher through connects, failures and re-entrant sends and closes, no request forgotten with its connection; every require ends, accepted bytes go out, a lost connection comes back |

Why these bounds are enough. Trees: a parent's rule looks at one child's result
and at its own, so all pairs of kinds and all positions of a child (first,
middle, last) occur with three children and two levels. Two requires give one
late or repeated answer next to one that is outstanding. Two contexts give every
re-entrant pair (a context executed, freed, canceled from the other's action or
callback, and the reverse inside it, to the depth `frames` can reach); queues
need three, a head, a next one to wake and one to insert between, and the limit
two makes the third refusal happen. `engine_queues` stays safe with all calls in
`OpCalls` (but errno, see below). `bpg_requests` has `OpCalls = {}` because `NoCrash` is
true only under that discipline: an action that frees or dequeues another pending context
makes the list shorter than `logic_manage_tick` counted (in `engine_queues`
`TickCrash` does fire, and `frames = <<>>` stands for the crashed process). So `NoCrash`
says nothing of an action that does such a thing; none in the repository does.
A crash needs a tick that takes two. Requests are queued at the tail or behind the caller:
with insertion at the head or after another context, as `LogicEngine` allows, a third
one could overtake for ever, which is what these operations are for. Hence the liveness of
the scheduler is checked with its client, where waiting in a queue has an end.

In `engine_queues` actions do not set error codes on other contexts: that is in
`engine_requires`, and makes no difference to a queue.

A ring of four slots holds three actions, so it is seen empty, full, wrapped and
wrapped again with a tick that stops at each place in it. With two events each
order of two times occurs, and an event of its own dispatcher's making next to
another; the clock has room to go forward, back, and to stop during a pause.

Requests: two are enough for one behind another, one too many, and one that is made
by the action of the other; a slot is used again after its context is freed, so that
there is no bound on the number of requests. The safety properties were also
checked with three contexts and a queue limited to two.

Timers and connection: with two identifiers and two requires each identifier is reused
by the other require while a copy is stale. Two units make each channel empty, partly
full and full. One disable separates what holds without one (`SoundUnlessDisabled`)
from what holds after it. Contexts with timeouts and three identifiers were checked
for the invariants too; the theorems hold for any number of all of them.

Symmetry is used in `engine_queues`, over contexts, and in `engine_requires`, over requires,
with no liveness in either.

Deadlock is not checked: a machine whose context ended, or a crashed process,
stops rightly.

### Fairness

`LogicStack`: weak fairness of the machine and of the return of an action, since
both are plain sequential code; strong fairness of `Answer`, since a require
has a timeout and an op may be entered in between.

All liveness with requires (`RunEnds`, `PendingServed`, `QueueServed`, `RequestEnds`,
`RequireEnds`) assumes that the application configures a require timeout.
`m_require_timout_ms` is 0 by default (`logic_manage.c:43`), and then
`logic_require_create` starts no timer: a require that nobody answers waits for ever, and
with it its context and those behind that one in its queue.

`MCBpgRsp`: the process goes on, that is, the main loop ticks again and again, and
actions and callbacks return (weak, of the three together: at any time one is what is left to
do), every require times out unless answered (strong), and an action does
not ask for requires for ever (strong on `OpEnds`). A request is bound in the step in which it arrives. A context that is
created by other clients of the engine and not bound would stay at the head of the pending list
and starve the rest, which is part of the hazard list.

`Timeline`: the main loop ticks again and again, and dispatchers return. The
premise of `DueServed` says that the actions leave something of the count to the
events again and again: an action that always adds another one may take it all,
which the code does not prevent.

`MCNetClient`: a timer that is armed again and again fires (strong: other timers may
run in between), callbacks return and the loop over a read ends (weak, sequential code),
libev reports a socket that can be written to again and again (strong, level-triggered) and
the end of a connect (weak). Two assumptions are about the network and not about the code:
the peer reads in the end what was sent (or the socket could not be written to again), and
an attempt to connect that is made again and again succeeds once. `RequireEnds` depends
on neither, `Flushed` on the first, and `Reconnects` means little without the second.

## 5. Findings

1. *Parallel nodes.* `include/usf/logic/README.md:88` says that a parallel node
   without children succeeds, and line 89 that a null child does not affect the
   execution of the other children. With the policy success-on-one a node without
   children fails (`logic_stack.c:93`), and after a null child no further one is
   pushed (`logic_stack.c:166`). `ParallelAsDocumented` asks of a run that it keeps one of
   the two sentences; the run that breaks it shows both departures.
2. *An error code and a require.* README line 19 says an error code does not
   change the flow. `logic_context_do_state_change` (`logic_context.c:315`)
   sees it as the state `error`, so an action that sets one and then waits has
   its context committed at once (`ErrnoKeepsFlow`).
3. *Cancel by the last action.* README line 15 says cancel sets the state of
   the whole flow. If the stack is empty when the run returns, line 266
   overwrites `cancel` with `done` (`CancelStays`).

4. *A wrapped ring and a short tick.* `tl_dispatch.c:47` asserts that the ring is
   not wrapped after the first loop. If the count of the tick is used up, or a
   timeline has no dispatcher, before that loop reaches the end of the array, it still is
   (`AssertHolds`). Without assertions nothing is lost: the second loop
   does nothing, and the next tick goes on (`FifoSpec`).

5. *A request beyond the max-count.* `include/usf/bpg_rsp/README.md:37` says that it is
   ignored. `bpg_rsp_execute.c:159` ignores the result of the enqueue instead: the context
   stays pending and the tick runs it outside of its queue (`Overflow`), next to the head
   the queue was to protect it from (`OverflowIgnored`).

Seen in the models, with no run spent on them: an error code set on a context
before it runs makes it commit never (`failed` in `ContextLife`); the tick
leaves a non-idle head where it is. `bpg_rsp_free` leaves contexts whose commit
data is the responder it frees.

Timers: a stale identifier does stop the timer of another owner (`lost` does
become non-empty), which may then wait for ever. `TimerHasOwner` is about the other
direction, and `WaitingIsTimed` and `RequireEnds` leave the victims out, so no property
catches this; nor does the repository promise that it does not happen.

Connection: a disable leaves the reconnect timer active, and a later enable meets it
(`fault` does become true after a disable; `SoundUnlessDisabled`, `RetriesAfterError` and the
liveness of the client are stated without it and do not catch it). A timer callback does not free a
connector that is marked for deletion. Bytes that cannot be decoded stay in the
read channel and are the first thing the next connection decodes, as the
unsent half of a package is the first thing it sends. A read channel that is full
of an incomplete package takes no more bytes: the connection stands still until it is
closed. A send the channel has no room for closes the connection, which fails the requires
of the table, and leaves the one of that send to its timer (`SendOverflows`).

Read on the way: after a copy to the caller, `net_chanel_queue.c:130` moves the bytes
of the caller's buffer where it should move its own, on a path no modelled code takes;
`bpg_pkg_dsp.c:44` ignores its `cmd` argument.

## 6. Proofs

`LogicStack_proofs` proves, for every set of nodes, every set of well-formed
trees of any depth and any number of requires:

- `TypeCorrect`: `Spec => []TypeOK`
- `OnlyTheTopWaits`: `Spec => []OnlyTopWaits`
- `TheStackIsAPath`: `Spec => []StackIsPath`
- `TheResultAgrees`: `Spec => []ResultAgrees`

from `RootAssumption`, `TreesAssumption` and `BoundAssumption`. The inductive
invariant is `IInv == TypeOK /\ Control /\ OnlyTopWaits /\ StackIsPath /\ SameHeight`.
`OnlyTopWaits` alone is not inductive: a push onto an item with waiting requires
would break it. `Control` relates the position in the code to the variables: in an
op, or blocked, an action is on top; a push pending or a popped item is there only in the
loop, and never both. That excludes such a push. `TypeOK` uses it in turn: `Answer` decrements a counter that
is positive, on a stack that is not empty. Lemmas about `Append`, `SubSeq` and
updates of the last item carry the sequence reasoning; each action then has one
step. `TreesAssumption` gives that the children the parent's rules pick are
nodes, and for `NextMember` that the popped node is a child, which is `StackIsPath`.

`ResultAgrees` is not inductive, as it says nothing of nodes that are still on the stack.
`Derives` adds to it, for every item, how far it has come with its rule (`ItemDerives`):
the children it has run returned what its result so far is made of, they take up the log
from where the item began to where the child above it began, and that child is
the next one its rule asks for. For the item on top the next child is the one about to be pushed,
or the one that was just popped. A push opens an item that has run nothing (`StartPart`); a parent
that takes a result goes one child further (`CompositePart`, `ConditionPart`); a node that is
popped has nothing left to run, and then its part of the rule is the whole of it (`WholeInner`,
`WholeDecorator`). No step changes the items below (`KeepItem`) or the entries before (`LogKept`).
The rules are about one node and its children, so no induction over the tree is
needed. The children of a node are distinct in `TreeShape`, because the builder
makes a new executor for each; `TAILQ_NEXT` of a child would not be determined otherwise.

`LogicEngine_proofs` proves, for any sets of contexts, queues and (finite) requires,
any limits, and every nesting of actions, commit callbacks and library calls:

- `TypeCorrect`, `WaitsAreCounted`, `NothingDangles`, `EachIsLinkedOnce`, `CommitsOnce`,
  `OnlyTheHeadRuns`, `NoContextIsLost`: `Spec => []TypeOK`, `[]WaitsAgree`,
  `[]NoDangling`, `[]LinkedOnce`, `[]CommitOnce`, `[]OnlyHeadRuns`, `[]NoneLost`
- `PendingKeepsOrder`: `Spec => PendingInOrder`
- `ContextsLiveTheirLife`: `Spec => LifeSpec`, the refinement of `ContextLife`
- `TickNeverCrashes`: `Spec => []NoCrash`, if `OpCalls \subseteq {"errno"}`

from `NoneAssumption`, `RequireAssumption` and `LimitAssumption`. The seven follow
from one inductive invariant, and none is inductive alone. Besides the types and
the counts of the requires, `IInv` has `ListsOK` (no list links a context twice and
no context is in two queues), `FramesOK` (the main loop is at the bottom of the
calls and nowhere else, and a context has one action in progress) and, for each
context, `ContextOK`. That is the agreement between the state of the context and the lists it is
in: one that runs, waits, or is committed with an error code set is in no list that would
run it; one that is idle and does not run is pending or behind another one; one behind
another one is not pending; a committed one is finished. The last is why a late
answer does not commit twice: the state before it was finished already, which
`logic_context_do_state_change` tests. `IInv(R)` has a parameter: the contexts
of `R` are apart, committed by their client wherever they were. Here `R` is empty. `MidOK` is what remains of `ContextOK`
while an operation has changed the context and that function has not yet been
called; `StateChangeLemma` shows that the function re-establishes `ContextOK`
on each of its four ways out. A woken head is inserted in the pending list once, because it was behind
another one until then and so was not in it. `TailQueue_proofs` has what the queue macros do
to the members, the order and the rear of a list, for this proof and for the timelines'.

The three results below the invariants are about steps, and rest on one description of
a step: `Moves(c)`, which says of an operation on the context `c` what it may do to the calls in
progress, to the pending list and to every context. A lemma for each operation
(`...CallsMove`, `ExecutedMoves`) shows `Moves` under `IInv`; the tick, which
takes contexts out of the list by itself, has `TickStands`.

- `PendingInOrder` follows from the part on the list: one place is taken out and new
  contexts are put in at the rear.
- For `LifeSpec`, the contexts other than `c` stand still, and what `c` does is an edge of
  `ContextLife` (`Lives`, `LifeMoves`); the steps of the tick that begin nothing are stutters (`LifeStands`).
  The committed phase depends on `CommitOnce`, the running one on `FramesOK`.
- `NoCrash` is not inductive. `TickOK` adds that the tick has counted no more than there is:
  `tickLeft` is at most the number of contexts that are pending and that no call in
  progress belongs to. Those no call can take out of the list (`Spared`). The hypothesis on
  `OpCalls` is needed: with `"free"`, `"execute"`, `"cancel"` or `"enqueue"` added to it
  in a small instance, TLC finds the crash each time. An action that does that to another pending
  context takes it out of the list behind the count. `bpg_requests` checks `NoCrash` with `OpCalls = {}`.

`BpgRsp_proofs` proves, for any requests, queues, limits and nesting of calls:

- `RspTypeCorrect`, `OneIsWorkedOn`, `AnsweredByOneCommit`: `RspSpec => []RspTypeOK`,
  `[]OneAtATime`, `AnsweredOnce`
- `SchedulerKeepsIts`: the six safety properties of `LogicEngine` hold under the responders
- `RequestsKeepTheirOrder`: `RspSpec => PendingInOrder`
- `TheTickNeverCrashes`: `RspSpec => []NoCrash`, if `OpCalls \subseteq {"errno"}`

from the assumptions of `LogicEngine` and `CommitAssumption`. `IInv({})` does not
carry over: `bpg_rsp_commit_error` commits a context that is pending and perhaps not
bound, without a change of state. `RspInv(R)` is `IInv(R)` for the set `R` of these
contexts, with the fact that makes them harmless: the commit of each is in
progress (`Held`), so the main loop, and with it the tick, does not get to look at them
before it returns and frees them (`NoneHeld`). Actions and other commits above it may.
The theorem is about the invariant with some `R`: `RefusedStep` adds to it,
`RspCommitStep` takes from it, and the steps of the scheduler keep it by the lemmas of
`LogicEngine_proofs` together with `Keeps` (they free nothing and end no commit).
`OneAtATime` follows because what is begun is at no point behind another one again:
places are taken at the tail or behind the caller, never before a context that is there.
The last two take the steps of the scheduler from `LogicEngine_proofs` (`OrderStep`,
`TickOKStep`), which hold for any `R` that is empty in the main loop. What they add is
`ArrivalStands`: a request that arrives joins the pending list behind the others, or is run
and leaves it in the same call, and takes none of those the tick has counted. A refused one is
in the list until its commit returns; that call is in progress, so the tick had not counted it.

`Timeline_proofs` proves, for a ring of any size and any sets of timelines and
events:

- `TypeCorrect`: `Spec => []TypeOK`
- `EventsAreLinked`: `Spec => []EventsLinked`
- `TheScheduleIsKept`: `Spec => []ScheduleKept`
- `TimeIsMonotonic`: `Spec => TimeNeverGoesBack`
- `EventsKeepTheirOrder`: `Spec => QueueIsStable`
- `RingImplementsFifo`: `Spec => FifoSpec`, the refinement

from `SlotAssumption`, `RingAssumption` and `BoundAssumption`. The inductive invariant is
`IInv == TypeOK /\ EventsLinked /\ Control`. The parts need each other: a
dispatched event is a living node because the queue holds queued nodes only, and
it is no action because the queue holds events. `Control` says where the loops
stand: in the first loop the ring is wrapped, an action that is dispatched is
still in the ring, and in the second loop it is not in the last slot, so the
position stays in the array although dispatchers may wrap the ring meanwhile.
The queue operations are lemmas about `Agree(queue, nodes)`: `InsertLemma` for
`tl_event_node_insert`, and `KeepLemma` for every way of taking nodes out of the queue.
`PrefixLemma` gives that the events that are not later are a prefix of an ordered
queue, so the place the loop finds is their number. `TheScheduleIsKept` adds
`AllScheduled`, which counts the dispatch in progress. For the refinement, adding
is `Append`, giving a slot back is `Tail`, and every other step is a stutter.
`QueueIsStable` compares the places of two events before and after a step: an insertion and
the ways of taking nodes out keep the order of all that stay, a repeat takes its own node out and puts it
behind those of its new time, and that two events of the same time keep the order of their insertion follows.

`GdTimer_proofs` proves, for any sets of contexts, requires and identifiers:

- `TimerTypeCorrect`: `TimerSpec => []TimerTypeOK`
- `NoOrphanTimer`: `TimerSpec => []TimerHasOwner`
- `WaitingHasTimer`: `TimerSpec => []WaitingIsTimed`

from `TimerAssumption`. `TimerInv`, the conjunction of the three, is inductive. That it is
says why reuse of identifiers is harmless in one direction: an armed timer
is named by the copy of its owner, so freeing the owner always finds it; stale copies
only ever name timers in addition.

`NetConnector_proofs` proves, for channels of any capacity and any number of disables:

- `ConnTypeCorrect`, `WatcherCorrect`, `AlwaysRetries`, `SoundWithoutDisable`:
  `ConnSpec => []ConnTypeOK`, `[]WatcherAgrees`, `[]RetriesAfterError`, `[]SoundUnlessDisabled`

from `CapacityAssumption` and `DisablesAssumption`. `WatcherAgrees` speaks of the moments the event
loop has control; inside a callback the watcher lags behind. The inductive `ConnInv`
therefore adds `WatchedMeanwhile`, what the watcher is during a callback (that of
the last update), `WriteWasAsked`, that a write event only comes in when one was
asked for, so that the update at the end of `net_ep_cb` against the events at its
beginning is enough, and `NeverDisabled`, by which a timer is active in state error only.

`NetClient_proofs` proves the composition:

- `ImplementsTimers`: `Spec => TimerSpec`, `ImplementsConnector`: `Spec => ConnSpec`
- `ClientTypeCorrect`: `Spec => []TypeOK`
- `NoneForgotten`: `Spec => []Told`
- `ClientInherits`: the invariants of both parts hold of the client

Every step of the client is a step of each part or leaves it alone, so that the
theorems of the parts are used as they stand; a few cases need the state (`NotifyAll`
resolves requires that wait). `Told` is inductive with the types: what closes the
connection also empties the table, in one step.

Model-checked only: `RunEnds`, `PendingServed`, `QueueServed`, `RequestEnds`, `DueServed`,
`RequireEnds`, `Flushed` and `Reconnects`, the liveness, for
which the prover has no fairness reasoning. Every safety property and action property
of the passing runs is stated by a theorem.

## 7. Not modelled, and why

- Running out of memory, in all parts. It is handled by early returns all over the code;
  one of them is in the hazard list (`logic_require.c:49`).
- Teardown: `logic_queue_free`, `logic_manage_clear`, `tl_manage_free`,
  `bpg_rsp_free`, the frees of connectors and clients. They run once, outside of the
  main loop, with nothing else going on.
- The server side of the network: listeners, the agent, timeouts of endpoints and close
  after send. The endpoint and its watcher are those of `NetConnector`; what is
  missing is the listener that creates and the agent that binds them.
- `cpe/dp`, `gd/evt`: tables of subscribers that are called synchronously. A dispatch is a
  call, in `NetClient` and `BpgRsp`; an event waits in the ring of `Timeline`.
- `logic_use`: lists of require identifiers, looked up again when they are notified. What
  they do to a require is `Resolve`, and a stale identifier is not found.
- Timers that repeat, and removal of timers by owner: contexts and requires use neither.
- `cpe/cfg`, `cpe/dr`, `cpe/aom`, `cpe/pom`, `gd/dr_*`, `cpe/fsm`, `cpe/nm`, `cpe/otm`,
  `cpe/utils`, `cpe/pal`: parsers, layouts, containers. They are sequential data operations,
  for which tests serve better than a model of states.
- `src/3rdTools` (libxml2, libev, yajl and others), the generators and the C++
  wrappers are not code of this framework's own logic. libev appears as the events it delivers.
