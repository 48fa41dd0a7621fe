------------------------------- MODULE GdTimer -------------------------------
(***************************************************************************)
(* The timers of src/gd/timer and the objects of src/usf/logic that own    *)
(* them: a context times out as a whole, a require when its answer stays   *)
(* away.  A timer is named by an identifier of a pool (m_ids of the        *)
(* manager), which returns there when the timer is gone.  The owner keeps  *)
(* its copy of the identifier (m_timer_id) and nobody takes it from the    *)
(* owner when the timer has fired, so that the copy may name a later timer *)
(* of somebody else: it is stale.                                          *)
(*                                                                         *)
(* Every timer here fires once (repeatCount 1).  Its callback may run code *)
(* of the client (a commit operation, an action of an execute_immediately  *)
(* context), which may make any of these calls before it returns.          *)
(***************************************************************************)
EXTENDS Naturals, FiniteSets

CONSTANTS
    Req, Ctx,    \* slots for requires and contexts
    Timed,       \* the contexts that are created with a timeout
    Id,          \* timer identifiers
    None         \* GD_TIMER_ID_INVALID, and no context

ASSUME TimerAssumption == Id \subseteq Nat /\ Req \cap Ctx = {} /\ None \notin Id /\ None \notin Ctx /\ Timed \subseteq Ctx

Owner == Req \cup Ctx

VARIABLES
    timer,   \* the processors of the manager, by identifier
    life,    \* of the owners: a require is live while it waits
    of,      \* the context of a require
    held,    \* m_timer_id of the owners
    lost     \* history: owners whose timer was removed by another one's stale copy

timerVars == <<timer, life, of, held, lost>>

\* free: in the pool; armed: in the timeline; running: its callback is being
\* called; deleting: so is it, and tl_event_free was called meanwhile.
Timer == [state : {"armed", "running", "deleting"}, of : Owner]
Free  == [state |-> "free", of |-> None]

TimerTypeOK ==
    /\ timer \in [Id -> Timer \cup {Free}]
    /\ life \in [Owner -> {"absent", "live", "over"}]
    /\ of \in [Req -> Ctx \cup {None}]
    /\ held \in [Owner -> Id \cup {None}]
    /\ lost \subseteq Owner

Alive(o) == life[o] # "absent"
Dispatching == \E t \in Id : timer[t].state \in {"running", "deleting"}

-----------------------------------------------------------------------------
(* Removing timers *)

\* gd_timer_mgr_unregist_timer_by_id: of an identifier in the pool, an error
\* message; the event of a running timer is destroyed when its callback is over.
Unregistered(x) ==
    CASE x.state = "armed"   -> Free
      [] x.state = "running" -> [x EXCEPT !.state = "deleting"]
      [] OTHER               -> x

\* The identifiers the owners S name, and the owners that lose their timer
\* when S stop theirs (logic_require_timeout_stop, logic_context_timeout_stop).
Named(S)   == {t \in Id : \E o \in S : held[o] = t}
Victims(S) == {timer[t].of : t \in {u \in Named(S) : timer[u].state = "armed"}} \ S
Stop(S, tm) == [t \in Id |-> IF t \in Named(S) THEN Unregistered(tm[t]) ELSE tm[t]]

-----------------------------------------------------------------------------
(* The owners *)

\* gd_timer_mgr_regist_timer: cpe_range_get_one takes the smallest identifier
\* of the pool.  An identifier that was put back is soon in use again.
Register(o, t) ==
    /\ timer[t] = Free
    /\ \A s \in Id : s < t => timer[s] # Free
    /\ timer' = [timer EXCEPT ![t] = [state |-> "armed", of |-> o]]
    /\ held' = [held EXCEPT ![o] = t]

CreateContext(c) ==
    /\ ~Alive(c)
    /\ life' = [life EXCEPT ![c] = "live"]
    /\ \/ c \in Timed /\ \E t \in Id : Register(c, t)
       \/ c \notin Timed /\ UNCHANGED <<timer, held>>
    /\ UNCHANGED <<of, lost>>

CreateRequire(r, c, t) ==
    /\ ~Alive(r) /\ Alive(c)
    /\ life' = [life EXCEPT ![r] = "live"]
    /\ of' = [of EXCEPT ![r] = c]
    /\ Register(r, t)
    /\ UNCHANGED lost

\* logic_require_set_done and _set_error_ex of the waiting requires S (a lost
\* connection ends many at once): each stops its timer.
Resolve(S) ==
    /\ \A r \in S : life[r] = "live"
    /\ life' = [o \in Owner |-> IF o \in S THEN "over" ELSE life[o]]
    /\ timer' = Stop(S, timer)
    /\ held' = [o \in Owner |-> IF o \in S THEN None ELSE held[o]]
    /\ lost' = lost \cup Victims(S)
    /\ UNCHANGED of

\* logic_require_do_cancel, also when the action of the require is popped:
\* the timer goes on.
Cancel(r) ==
    /\ life[r] = "live"
    /\ life' = [life EXCEPT ![r] = "over"]
    /\ UNCHANGED <<timer, of, held, lost>>

\* Mutant: the timers of the requires are forgotten.
FreeOnly(S) ==
    /\ life' = [o \in Owner |-> IF o \in S THEN "absent" ELSE life[o]]
    /\ of' = [r \in Req |-> IF r \in S THEN None ELSE of[r]]
    /\ held' = [o \in Owner |-> IF o \in S THEN None ELSE held[o]]
    /\ UNCHANGED <<timer, lost>>

Gone(S) ==
    /\ life' = [o \in Owner |-> IF o \in S THEN "absent" ELSE life[o]]
    /\ of' = [r \in Req |-> IF r \in S THEN None ELSE of[r]]
    /\ timer' = Stop(S, timer)
    /\ held' = [o \in Owner |-> IF o \in S THEN None ELSE held[o]]
    /\ lost' = (lost \cup Victims(S)) \ S

FreeRequire(r) == Alive(r) /\ Gone({r})
FreeContext(c) == Alive(c) /\ Gone({c} \cup {r \in Req : of[r] = c})

-----------------------------------------------------------------------------
(* The timeline of the manager *)

\* Mutant: a require that waits is taken for one that is over.
FireIgnored(t) ==
    /\ timer[t].state = "armed" /\ ~Dispatching
    /\ timer' = [timer EXCEPT ![t].state = "running"]
    /\ UNCHANGED <<life, of, held, lost>>

\* gd_timer_mgr_dispatch_timer up to the return of the owner's function: a
\* waiting require times out and stops its timer, which is running; a require
\* that is over returns early and a context commits: both keep the identifier.
Fire(t) ==
    /\ timer[t].state = "armed" /\ ~Dispatching
    /\ LET o  == timer[t].of
           tm == [timer EXCEPT ![t].state = "running"]
       IN  \/ /\ o \in Req /\ life[o] = "live"
              /\ life' = [life EXCEPT ![o] = "over"]
              /\ timer' = Stop({o}, tm)
              /\ held' = [held EXCEPT ![o] = None]
              /\ lost' = lost \cup Victims({o})
              /\ UNCHANGED of
           \/ /\ ~(o \in Req /\ life[o] = "live")
              /\ timer' = tm
              /\ UNCHANGED <<life, of, held, lost>>

\* The callback is over: the event is freed and the identifier goes back.
Return(t) ==
    /\ timer[t].state \in {"running", "deleting"}
    /\ timer' = [timer EXCEPT ![t] = Free]
    /\ UNCHANGED <<life, of, held, lost>>

-----------------------------------------------------------------------------
TimerInit ==
    /\ timer = [t \in Id |-> Free]
    /\ life = [o \in Owner |-> "absent"]
    /\ of = [r \in Req |-> None]
    /\ held = [o \in Owner |-> None]
    /\ lost = {}

TimerNext ==
    \/ \E c \in Ctx : CreateContext(c) \/ FreeContext(c)
    \/ \E r \in Req, c \in Ctx, t \in Id : CreateRequire(r, c, t)
    \/ \E S \in SUBSET Req : Resolve(S)
    \/ \E r \in Req : Cancel(r) \/ FreeRequire(r)
    \/ \E t \in Id : Fire(t) \/ Return(t)

TimerSpec == TimerInit /\ [][TimerNext]_timerVars

-----------------------------------------------------------------------------
(* Properties *)

\* The callback of a timer is never called for an owner that was freed: a timer
\* that will fire belongs to a living owner, and that owner knows it by the
\* identifier it will stop when it is freed.
TimerHasOwner ==
    \A t \in Id : timer[t].state = "armed" => Alive(timer[t].of) /\ held[timer[t].of] = t

\* A require that waits has its timer, unless the stale identifier of another
\* owner removed it: nothing but that can make a require wait for ever.
WaitingIsTimed ==
    \A r \in Req : life[r] = "live" /\ r \notin lost =>
        \E t \in Id : timer[t] = [state |-> "armed", of |-> r]
=============================================================================
