---------------------------- MODULE BpgRsp_proofs ----------------------------
(***************************************************************************)
(* Proofs about BpgRsp for any requests, queues and limits.  The invariant *)
(* of the scheduler carries over but for the contexts of the requests that *)
(* are refused: bpg_rsp_commit_error commits them where they are, pending  *)
(* and not even bound.  Nothing looks at them until the commit that is in  *)
(* progress has freed them.                                                *)
(***************************************************************************)
EXTENDS BpgRsp, LogicEngine_proofs

-----------------------------------------------------------------------------
(* The inductive invariant *)

\* R: the requests that were refused.
RspInv(R) ==
    /\ IInv(R) /\ R \subseteq Ctx
    /\ \A c \in R : Held(frames, c)
    /\ \A c \in Ctx : ~ctx[c].deleting
    /\ begun \subseteq Ctx
    /\ \A c \in begun : ctx[c].state # "absent" /\ ~Behind(queues, c)

-----------------------------------------------------------------------------
(* The steps of the scheduler *)

\* In the main loop no commit is in progress.
LEMMA NoneHeld == ASSUME NEW R, RspInv(R), InMain PROVE R = {}
<1>1. FramesOK(frames) /\ frames # <<>> /\ Top.kind = "main"
  BY PartsLemma DEF RspInv, InMain
<1>. QED
  BY <1>1, MainHolds DEF RspInv

\* A change of state frees nothing, marks nothing for deletion, and ends no commit.
LEMMA ChangeKeeps ==
    ASSUME NEW c \in Ctx, NEW old, NEW cx \in [Ctx -> Context], NEW fs, FramesOK(fs),
           StateChange(c, old, cx, fs)
    PROVE  /\ \A d \in Ctx : ctx'[d].state = cx[d].state /\ ctx'[d].deleting = cx[d].deleting
           /\ \A d \in Ctx : Held(fs, d) => Held(frames', d)
<1>1. fs \in Seq(Frame)
  BY DEF FramesOK
<1>2. ctx' = cx \/ ctx' = [cx EXCEPT ![c].commits = @ + 1]
  BY DEF StateChange
<1>3. \A d \in Ctx : ctx'[d].state = cx[d].state /\ ctx'[d].deleting = cx[d].deleting
  <2>. DEFINE x == [cx[c] EXCEPT !.commits = @ + 1]
  <2>1. x.state = cx[c].state /\ x.deleting = cx[c].deleting
    BY DEF Context
  <2>2. CASE ctx' = [cx EXCEPT ![c].commits = @ + 1]
    <3>1. ctx' = [cx EXCEPT ![c] = x]
      BY <2>2
    <3>. HIDE DEF x
    <3>. QED
      BY <2>1, <3>1
  <2>. QED
    BY <1>2, <2>2
<1>4. \/ frames' = fs \/ frames' = Append(fs, CommitFrame(c))
      \/ cx[c].state = "idle" /\ frames' = Append(fs, OpFrame(c, cx[c]))
  <2>1. StateOf(cx[c]) = "idle" => cx[c].state = "idle"
    BY StateOfLemma
  <2>. QED
    BY <2>1 DEF StateChange, Begin
<1>5. CommitFrame(c) \in Frame
  BY LimitAssumption DEF CommitFrame, Frame
<1>6. cx[c].state = "idle" => OpFrame(c, cx[c]) \in Frame
  <2>1. cx[c].state = "idle" => StateOf(cx[c]) \in {"waiting", "idle", "error"}
    BY StateOfLemma
  <2>2. 0 \in 0..MaxCalls
    BY LimitAssumption
  <2>. QED
    BY <2>1, <2>2 DEF OpFrame, Frame
<1>7. \A f \in Frame : \A d \in Ctx : Held(fs, d) => Held(Append(fs, f), d)
  BY <1>1, HeldPushed
<1>8. \A d \in Ctx : Held(fs, d) => Held(frames', d)
  <2>. DEFINE g == CommitFrame(c)
              h == OpFrame(c, cx[c])
  <2>1. CASE frames' = Append(fs, g)
    <3>1. g \in Frame
      BY <1>5
    <3>. HIDE DEF g
    <3>. QED
      BY <1>7, <2>1, <3>1
  <2>2. CASE cx[c].state = "idle" /\ frames' = Append(fs, h)
    <3>1. h \in Frame
      BY <1>6, <2>2
    <3>. HIDE DEF h
    <3>. QED
      BY <1>7, <2>2, <3>1
  <2>. QED
    BY <1>4, <2>1, <2>2
<1>. QED
  BY <1>3, <1>8

\* What every step of the scheduler keeps, but for the return of a commit callback.
Keeps(R) ==
    /\ \A d \in Ctx : ctx[d].state # "absent" => ctx'[d].state # "absent"
    /\ \A d \in Ctx : ~ctx'[d].deleting
    /\ queues' = queues
    /\ \A d \in R : Held(frames', d)

\* Shared by the steps that end with a change of state.
LEMMA ChangeStepKeeps ==
    ASSUME NEW R, RspInv(R), NEW c \in Ctx, NEW old, NEW cx \in [Ctx -> Context], NEW fs, FramesOK(fs),
           StateChange(c, old, cx, fs), queues' = queues,
           \A d \in Ctx : ctx[d].state # "absent" => cx[d].state # "absent",
           \A d \in Ctx : ~cx[d].deleting,
           \A d \in R : Held(fs, d)
    PROVE  Keeps(R)
<1>1. /\ \A d \in Ctx : ctx'[d].state = cx[d].state /\ ctx'[d].deleting = cx[d].deleting
      /\ \A d \in Ctx : Held(fs, d) => Held(frames', d)
  BY ChangeKeeps
<1>. QED
  BY <1>1 DEF Keeps, RspInv

LEMMA LeaveKeeps ==
    ASSUME NEW R, RspInv(R), MayCall, NEW c \in Ctx, NEW state \in Terminal, Leave(c, state)
    PROVE  Keeps(R)
<1>. DEFINE x == [ctx[c] EXCEPT !.state = state]
            cx == [ctx EXCEPT ![c].state = state]
            old == StateOf(ctx[c])
<1>1. StateChange(c, old, cx, Called) /\ queues' = queues
  BY DEF Leave
<1>2. ctx \in [Ctx -> Context] /\ FramesOK(frames) /\ \A d \in Ctx : ~ctx[d].deleting
  BY PartsLemma DEF RspInv
<1>3. x \in Context /\ x.state = state /\ x.deleting = ctx[c].deleting
  BY <1>2 DEF Context
<1>4. cx = [ctx EXCEPT ![c] = x]
  BY <1>2
<1>. HIDE DEF x, cx, old
<1>5. /\ cx \in [Ctx -> Context]
      /\ \A d \in Ctx : ctx[d].state # "absent" => cx[d].state # "absent"
      /\ \A d \in Ctx : ~cx[d].deleting
  BY <1>2, <1>3, <1>4 DEF Terminal
<1>6. FramesOK(Called) /\ \A d \in R : Held(Called, d)
  BY <1>2, HeldInCall DEF RspInv
<1>. QED
  BY <1>1, <1>5, <1>6, ChangeStepKeeps

LEMMA ErrnoKeeps == ASSUME NEW R, RspInv(R), NEW c \in Ctx, ErrnoSet(c) PROVE Keeps(R)
<1>. DEFINE x == [ctx[c] EXCEPT !.errno = TRUE]
<1>1. MayCall /\ frames' = Called /\ queues' = queues /\ ctx' = [ctx EXCEPT ![c].errno = TRUE]
  BY DEF ErrnoSet
<1>2. ctx \in [Ctx -> Context] /\ FramesOK(frames) /\ \A d \in Ctx : ~ctx[d].deleting
  BY PartsLemma DEF RspInv
<1>3. x.state = ctx[c].state /\ x.deleting = ctx[c].deleting
  BY <1>2 DEF Context
<1>4. ctx' = [ctx EXCEPT ![c] = x]
  BY <1>1, <1>2
<1>. HIDE DEF x
<1>5. \A d \in R : Held(frames', d)
  BY <1>1, <1>2, HeldInCall DEF RspInv
<1>. QED
  BY <1>1, <1>2, <1>3, <1>4, <1>5 DEF Keeps

LEMMA RequireKeeps == ASSUME NEW R, RspInv(R), RequireCall PROVE Keeps(R)
<1>1. PICK r \in Req : \/ CreateRequire(r) \/ CancelRequire(r) \/ RequireTimeout(r)
                       \/ FreeRequire(r) \/ \E o \in {"done", "error"} : Answer(r, o)
  BY DEF RequireCall
<1>2. /\ IInv(R) /\ ctx \in [Ctx -> Context] /\ FramesOK(frames) /\ \A d \in Ctx : ~ctx[d].deleting
      /\ req \in [Req -> Require \cup {NoRequire}]
  BY PartsLemma DEF RspInv
<1>3. MayCall
  BY <1>1 DEF CreateRequire, CancelRequire, RequireTimeout, MainCalls, FreeRequire, Answer
<1>4. FramesOK(Called) /\ \A d \in R : Held(Called, d)
  BY <1>2, <1>3, HeldInCall DEF RspInv
<1>5. CASE CreateRequire(r)
  <2>. DEFINE c == Top.ctx
              x == [ctx[c] EXCEPT !.waits = @ + 1]
  <2>1. /\ frames # <<>> /\ Top.kind = "op" /\ frames' = Called /\ queues' = queues
        /\ ctx' = [ctx EXCEPT ![c].waits = @ + 1]
    BY <1>5 DEF CreateRequire, MayCall
  <2>2. c \in Ctx
    BY <1>2, <2>1, BelowLemma
  <2>3. x.state = ctx[c].state /\ x.deleting = ctx[c].deleting
    BY <1>2, <2>2 DEF Context
  <2>4. ctx' = [ctx EXCEPT ![c] = x]
    BY <1>2, <2>1
  <2>. HIDE DEF c, x
  <2>. QED
    BY <1>2, <1>4, <2>1, <2>2, <2>3, <2>4 DEF Keeps
<1>6. ASSUME NEW rq, Resolve(r, rq) PROVE Keeps(R)
  <2>. DEFINE c  == req[r].of
              x  == [ctx[c] EXCEPT !.waits = @ - 1]
              cx == [ctx EXCEPT ![c].waits = @ - 1]
              old == StateOf(ctx[c])
  <2>1. req[r].state = "waiting" /\ StateChange(c, old, cx, Called) /\ queues' = queues
    BY <1>6 DEF Resolve, MayResolve
  <2>2. c \in Ctx
    <3>1. req[r] # NoRequire
      BY <2>1 DEF NoRequire
    <3>. QED
      BY <1>2, <3>1, RequireLemma
  <2>3. req[r] = [state |-> "waiting", of |-> c]
    <3>1. \A d \in Ctx : req[r] = [state |-> "waiting", of |-> d] <=> req[r].state = "waiting" /\ req[r].of = d
      BY <1>2, RequireLemma
    <3>2. req[r].of = c
      OBVIOUS
    <3>. HIDE DEF c
    <3>. QED
      BY <2>1, <2>2, <3>1, <3>2
  <2>. HIDE DEF c
  <2>4. ctx[c].waits \in Nat /\ ctx[c].waits # 0
    <3>1. r \in WaitingOf(req, c) /\ ctx[c].waits = Cardinality(WaitingOf(req, c))
      BY <1>2, <2>2, <2>3 DEF WaitingOf, IInv, RequiresOK
    <3>2. Cardinality(WaitingOf(req, c)) # 0
      BY <3>1, WaitingFinite, FS_EmptySet
    <3>. QED
      BY <3>1, <3>2, WaitingFinite
  <2>5. x \in Context /\ x.state = ctx[c].state /\ x.deleting = ctx[c].deleting
    BY <1>2, <2>2, <2>4 DEF Context
  <2>6. cx = [ctx EXCEPT ![c] = x]
    BY <1>2
  <2>. HIDE DEF x, cx, old
  <2>7. /\ cx \in [Ctx -> Context]
        /\ \A d \in Ctx : ctx[d].state # "absent" => cx[d].state # "absent"
        /\ \A d \in Ctx : ~cx[d].deleting
    BY <1>2, <2>2, <2>5, <2>6
  <2>. QED
    BY <1>4, <2>1, <2>2, <2>7, ChangeStepKeeps
<1>7. CASE frames' = Called /\ ctx' = ctx /\ queues' = queues
  BY <1>2, <1>4, <1>7 DEF Keeps
<1>. QED
  BY <1>1, <1>5, <1>6, <1>7 DEF CancelRequire, RequireTimeout, FreeRequire, Answer

LEMMA OpKeeps == ASSUME NEW R, RspInv(R), NEW c \in Ctx, OpReturns(c) PROVE Keeps(R)
<1>1. frames # <<>> /\ Top.kind = "op" /\ Top.ctx = c
  BY DEF OpReturns, OpWaits, OpNext, OpEnds
<1>2. /\ IInv(R) /\ ctx \in [Ctx -> Context] /\ FramesOK(frames) /\ \A d \in Ctx : ~ctx[d].deleting
      /\ R \subseteq Ctx /\ \A d \in R : Held(frames, d)
  BY PartsLemma DEF RspInv
<1>3. FramesOK(Below) /\ \A d \in R : Held(Below, d)
  BY <1>1, <1>2, HeldBelow
<1>4. ASSUME NEW cx \in [Ctx -> Context], EndRun(c, cx),
             \A d \in Ctx : ctx[d].state # "absent" => cx[d].state # "absent",
             \A d \in Ctx : ~cx[d].deleting
      PROVE  Keeps(R)
  <2>. DEFINE old == Top.old
  <2>1. StateChange(c, old, cx, Below) /\ queues' = queues
    BY <1>4 DEF EndRun
  <2>. HIDE DEF old
  <2>. QED
    BY <1>3, <1>4, <2>1, ChangeStepKeeps
<1>5. CASE OpWaits(c)
  <2>1. EndRun(c, ctx)
    BY <1>5 DEF OpWaits
  <2>. QED
    BY <1>2, <1>4, <2>1
<1>6. CASE OpEnds(c)
  <2>1. PICK cx \in [Ctx -> Context] :
           /\ EndRun(c, cx) /\ \A d \in Ctx \ {c} : cx[d] = ctx[d]
           /\ cx[c].deleting = ctx[c].deleting
           /\ ~ctx[c].deleting => cx[c].state \in {"idle"} \cup Terminal
    BY <1>2, <1>6, EndedLemma
  <2>2. /\ \A d \in Ctx : ctx[d].state # "absent" => cx[d].state # "absent"
        /\ \A d \in Ctx : ~cx[d].deleting
    BY <1>2, <2>1 DEF Terminal
  <2>. QED
    BY <1>4, <2>1, <2>2
<1>7. CASE OpNext(c)
  <2>1. /\ frames' = [frames EXCEPT ![Len(frames)].calls = 0] /\ queues' = queues
    BY <1>7 DEF OpNext
  <2>2. PICK n \in 1..(ctx[c].left - 1) : ctx' = Popped(c, n)
    BY <1>7 DEF OpNext
  <2>3. n \in 0..MaxActions
    <3>1. ctx[c].left \in 0..MaxActions
      BY <1>1, <1>2, OpLemma
    <3>. QED
      BY <3>1, LimitAssumption
  <2>4. /\ \A d \in Ctx \ {c} : ctx'[d] = ctx[d]
        /\ ctx'[c].state = ctx[c].state /\ ctx'[c].deleting = ctx[c].deleting
    BY <1>2, <2>2, <2>3, PoppedContext
  <2>5. \A d \in R : Held(frames', d)
    <3>1. 0 \in 0..MaxCalls
      BY LimitAssumption
    <3>. QED
      BY <1>1, <1>2, <2>1, <3>1, HeldCalled
  <2>. QED
    BY <1>2, <2>1, <2>4, <2>5 DEF Keeps
<1>. QED
  BY <1>5, <1>6, <1>7 DEF OpReturns

LEMMA TickKeeps == ASSUME NEW R, RspInv(R), Tick PROVE Keeps(R)
<1>1. InMain /\ ctx' = ctx /\ queues' = queues
  BY DEF Tick, TickStart, TickExecute, TickCrash
<1>2. R = {}
  BY <1>1, NoneHeld
<1>. QED
  BY <1>1, <1>2 DEF Keeps, RspInv
-----------------------------------------------------------------------------
(* Requests and operations arrive *)

\* A new context takes a free slot, and the lists and calls change for it only.
LEMMA ArriveStep ==
    ASSUME NEW R, IInv(R), NEW c \in Ctx, ctx[c].state = "absent",
           NEW x \in Context, x.waits = 0, x.state # "absent",
           ctx' = [ctx EXCEPT ![c] = x], req' = req, tickLeft' = tickLeft,
           FramesOK(frames'), ListsOK(pending', queues'),
           NEW S,
           \A d \in Ctx \ {c} :
              /\ RunsIn(frames', d) <=> RunsIn(frames, d)
              /\ d \in Members(pending') <=> d \in Members(pending)
              /\ Behind(queues', d) <=> Behind(queues, d)
              /\ Linked(queues', d) <=> Linked(queues, d)
              /\ d \in S <=> d \in R,
           ContextOK(x, RunsIn(frames', c), c \in Members(pending'), Behind(queues', c), Linked(queues', c), c \in S)
    PROVE  IInv(S)'
<1>1. ctx' \in [Ctx -> Context] /\ \A d \in Ctx : ctx'[d] = IF d = c THEN x ELSE ctx[d]
  BY PartsLemma
<1>2. RequiresOK(req', ctx')
  <2>1. ctx[c].waits = 0
    BY AbsentLemma
  <2>2. \A d \in Ctx : ctx'[d].waits = ctx[d].waits /\ (ctx[d].state # "absent" => ctx'[d].state # "absent")
    BY <1>1, <2>1
  <2>3. RequiresOK(req, ctx')
    BY <2>2, PartsLemma, RequiresKept
  <2>. QED
    BY <2>3
<1>3. AllOK(S, ctx', frames', pending', queues')
  <2>1. ASSUME NEW d \in Ctx, d # c
        PROVE  ContextOK(ctx'[d], RunsIn(frames', d), d \in Members(pending'), Behind(queues', d), Linked(queues', d), d \in S)
    <3>1. ContextOK(ctx[d], RunsIn(frames, d), d \in Members(pending), Behind(queues, d), Linked(queues, d), d \in R)
      BY PartsLemma
    <3>2. ctx'[d] = ctx[d]
      BY <1>1, <2>1
    <3>. QED
      BY <2>1, <3>1, <3>2 DEF ContextOK
  <2>2. ContextOK(ctx'[c], RunsIn(frames', c), c \in Members(pending'), Behind(queues', c), Linked(queues', c), c \in S)
    <3>1. ctx'[c] = x
      BY <1>1
    <3>. QED
      BY <3>1
  <2>. QED
    BY <2>1, <2>2 DEF AllOK
<1>4. tickLeft' \in 0..TickMax
  BY PartsLemma
<1>. QED
  BY <1>1, <1>2, <1>3, <1>4 DEF IInv

\* What a step makes of begun.
LEMMA HistoryKept ==
    ASSUME NEW S, IInv(S)', Begins,
           \A c \in begun : c \in Ctx /\ (ctx'[c].state # "absent" => ~Behind(queues', c))
    PROVE  begun' \subseteq Ctx /\ \A c \in begun' : ctx'[c].state # "absent" /\ ~Behind(queues', c)
<1>1. begun' \subseteq Ctx /\ \A c \in begun' : (c \in begun \/ RunsIn(frames', c)) /\ ctx'[c].state # "absent"
  BY DEF Begins
<1>2. \A c \in Ctx : RunsIn(frames', c) => ~Behind(queues', c)
  BY DEF IInv, AllOK, ContextOK
<1>. QED
  BY <1>1, <1>2

\* A context that is bound and runs, is pending, or is behind another one.
LEMMA BoundStep ==
    ASSUME NEW R, RspInv(R), NEW c \in Ctx, ctx[c].state = "absent",
           NEW n \in 1..MaxActions, ctx' = Bound(c, n), req' = req, tickLeft' = tickLeft, Begins,
           FramesOK(frames'), ListsOK(pending', queues'),
           \A d \in R : Held(frames', d),
           \A d \in Ctx \ {c} :
              /\ RunsIn(frames', d) <=> RunsIn(frames, d)
              /\ d \in Members(pending') <=> d \in Members(pending)
              /\ Behind(queues', d) <=> Behind(queues, d)
              /\ Linked(queues', d) <=> Linked(queues, d),
           \/ RunsIn(frames', c) /\ c \notin Members(pending') /\ ~Behind(queues', c)
           \/ ~RunsIn(frames', c) /\ c \in Members(pending') /\ ~Behind(queues', c)
           \/ ~RunsIn(frames', c) /\ c \notin Members(pending') /\ Behind(queues', c)
    PROVE  RspInv(R)'
<1>. DEFINE x == [Absent EXCEPT !.state = "idle", !.left = n]
<1>1. IInv(R) /\ c \notin R
  BY AbsentLemma DEF RspInv
<1>2. /\ x \in Context /\ x.state = "idle" /\ x.left > 0 /\ x.waits = 0 /\ x.commits = 0
      /\ ~x.errno /\ ~x.deleting
  <2>1. n \in 0..MaxActions /\ n > 0
    BY LimitAssumption
  <2>. QED
    BY <2>1 DEF Absent, Context
<1>3. ctx' = [ctx EXCEPT ![c] = x]
  BY DEF Bound
<1>. HIDE DEF x
<1>4. ContextOK(x, RunsIn(frames', c), c \in Members(pending'), Behind(queues', c), Linked(queues', c), c \in R)
  BY <1>1, <1>2 DEF ContextOK
<1>5. IInv(R)'
  BY <1>1, <1>2, <1>3, <1>4, ArriveStep
<1>6. \A d \in Ctx : ~ctx'[d].deleting
  <2>1. \A d \in Ctx : ctx'[d] = IF d = c THEN x ELSE ctx[d]
    BY <1>1, <1>3, PartsLemma
  <2>. QED
    BY <1>2, <2>1 DEF RspInv
<1>7. \A d \in begun : d \in Ctx /\ d # c /\ ~Behind(queues, d)
  BY DEF RspInv
<1>8. begun' \subseteq Ctx /\ \A d \in begun' : ctx'[d].state # "absent" /\ ~Behind(queues', d)
  BY <1>5, <1>7, HistoryKept
<1>. QED
  BY <1>5, <1>6, <1>8 DEF RspInv

\* The pending list with the new context.
LEMMA PendingJoined ==
    ASSUME NEW R, IInv(R), NEW c \in Ctx, ctx[c].state = "absent"
    PROVE  /\ Append(pending, c) \in Seq(Ctx) /\ IsInjective(Append(pending, c))
           /\ Members(Append(pending, c)) = Members(pending) \cup {c}
BY AbsentLemma, PartsLemma, AppendLemma

\* Its queue, at the tail or after another one.
LEMMA QueueJoined ==
    ASSUME NEW R, IInv(R), NEW c \in Ctx, ctx[c].state = "absent", NEW q \in Queue,
           NEW list, \/ list = Append(queues[q], c)
                     \/ \E pre \in Members(queues[q]) : list = InsertedAfter(queues[q], pre, c),
           NEW pend \in Seq(Ctx), IsInjective(pend),
           NEW qs, qs = [queues EXCEPT ![q] = list]
    PROVE  /\ ListsOK(pend, qs)
           /\ \A d \in Ctx \ {c} : /\ Behind(qs, d) <=> Behind(queues, d)
                                   /\ Linked(qs, d) <=> Linked(queues, d)
           /\ Behind(qs, c) <=> queues[q] # <<>>
<1>. DEFINE l == queues[q]
<1>1. ~Linked(queues, c) /\ ~Behind(queues, c)
  BY AbsentLemma
<1>2. l \in Seq(Ctx) /\ IsInjective(l) /\ c \notin Members(l)
  BY <1>1, PartsLemma DEF ListsOK, Linked
<1>3. /\ list \in Seq(Ctx) /\ IsInjective(list) /\ Members(list) = Members(l) \cup {c}
      /\ Rear(list) = IF list[1] = c THEN Rear(l) ELSE Rear(l) \cup {c}
  <2>1. CASE list = Append(l, c)
    BY <1>2, <2>1, TailPlace
  <2>2. ASSUME NEW pre \in Members(l), list = InsertedAfter(l, pre, c)
        PROVE  /\ list \in Seq(Ctx) /\ IsInjective(list) /\ Members(list) = Members(l) \cup {c}
               /\ Rear(list) = IF list[1] = c THEN Rear(l) ELSE Rear(l) \cup {c}
    BY <1>2, <2>2, AfterPlace
  <2>. QED
    BY <2>1, <2>2
<1>4. /\ ListsOK(pend, qs)
      /\ \A d \in Ctx : Linked(qs, d) <=> Linked(queues, d) \/ d = c
      /\ \A d \in Ctx : Behind(qs, d) <=> Behind(queues, d) \/ (d = c /\ list[1] # c)
  BY <1>1, <1>3, PartsLemma, QueuesJoined
<1>5. list[1] # c <=> l # <<>>
  <2>1. Len(l) \in Nat /\ (l # <<>> => 1 \in 1..Len(l))
    BY <1>2, QueueLemma, EmptySeq
  <2>2. CASE list = Append(l, c)
    <3>1. (\A i \in 1..Len(l) : list[i] = l[i]) /\ list[Len(l) + 1] = c
      BY <1>2, <2>2, AppendProperties
    <3>2. l = <<>> => list[1] = c
      BY <3>1, EmptySeq
    <3>3. l # <<>> => list[1] # c
      BY <1>2, <2>1, <3>1 DEF Members
    <3>. QED
      BY <3>2, <3>3
  <2>3. ASSUME NEW pre \in Members(l), list = InsertedAfter(l, pre, c) PROVE list[1] # c /\ l # <<>>
    <3>1. list[1] = l[1]
      BY <1>2, <2>3, InsertedAfterLemma
    <3>2. l # <<>>
      BY <2>1, <2>3, EmptySeq DEF Members
    <3>. QED
      BY <1>2, <2>1, <3>1, <3>2 DEF Members
  <2>. QED
    BY <2>2, <2>3
<1>. QED
  BY <1>1, <1>4, <1>5

\* The calls in progress when the request is executed inside the call.
LEMMA RunAtOnceLemma ==
    ASSUME NEW R, RspInv(R), MayCall, NEW c \in Ctx, ctx[c].state = "absent",
           NEW n \in 1..MaxActions, RunAtOnce(c, n)
    PROVE  /\ ctx' = Bound(c, n) /\ FramesOK(frames') /\ \A d \in R : Held(frames', d)
           /\ RunsIn(frames', c) /\ \A d \in Ctx \ {c} : RunsIn(frames', d) <=> RunsIn(frames, d)
           /\ pending' \in Seq(Ctx) /\ IsInjective(pending') /\ Members(pending') = Members(pending)
<1>. DEFINE x  == [Absent EXCEPT !.state = "idle", !.left = n]
            cx == Bound(c, n)
            fs == Called
            pend == Append(pending, c)
<1>1. IInv(R) /\ FramesOK(frames) /\ ctx \in [Ctx -> Context]
  BY PartsLemma DEF RspInv
<1>2. x \in Context /\ x.state = "idle" /\ x.left > 0
  <2>1. n \in 0..MaxActions /\ n > 0
    BY LimitAssumption
  <2>. QED
    BY <2>1 DEF Absent, Context
<1>3. cx = [ctx EXCEPT ![c] = x]
  BY DEF Bound
<1>4. ctx' = cx /\ Begin(c, cx, fs, pend)
  BY DEF RunAtOnce
<1>5. /\ \A d \in Ctx : Held(fs, d) <=> Held(frames, d)
      /\ FramesOK(fs) /\ fs # <<>> /\ fs \in Seq(Frame)
      /\ \A d \in Ctx : RunsIn(fs, d) <=> RunsIn(frames, d)
  BY <1>1, HeldInCall
<1>6. /\ pend \in Seq(Ctx) /\ IsInjective(pend) /\ Members(pend) = Members(pending) \cup {c}
      /\ ~RunsIn(frames, c) /\ c \notin Members(pending)
  BY <1>1, PendingJoined, AbsentLemma
<1>. HIDE DEF x, fs, pend
<1>7. cx \in [Ctx -> Context] /\ cx[c] = x
  <2>. HIDE DEF cx
  <2>. QED
    BY <1>1, <1>2, <1>3
<1>. HIDE DEF cx
<1>8. /\ FramesOK(frames')
      /\ \A d \in Ctx : RunsIn(frames', d) <=> RunsIn(fs, d) \/ (cx[c].left > 0 /\ d = c)
      /\ pending' \in Seq(Ctx) /\ IsInjective(pending')
      /\ Members(pending') = Members(pend) \ {c}
  BY <1>2, <1>4, <1>5, <1>6, <1>7, BeginLemma
<1>9. \A d \in R : Held(frames', d)
  <2>. DEFINE f == OpFrame(c, cx[c])
  <2>1. frames' = Append(fs, f)
    BY <1>2, <1>4, <1>7 DEF Begin
  <2>2. f \in Frame
    <3>1. StateOf(cx[c]) \in {"waiting", "idle", "error"} /\ 0 \in 0..MaxCalls
      BY <1>2, <1>7, StateOfLemma, LimitAssumption
    <3>. QED
      BY <3>1 DEF OpFrame, Frame
  <2>. HIDE DEF f
  <2>. QED
    BY <1>5, <2>1, <2>2, HeldPushed DEF RspInv
<1>. QED
  BY <1>2, <1>4, <1>5, <1>6, <1>7, <1>8, <1>9 DEF cx

\* It is in no queue, or the first of one.
FirstOrNone(c) ==
    queues' = queues \/ \E q \in Queue : queues[q] = <<>> /\ queues' = [queues EXCEPT ![q] = <<c>>]

LEMMA FirstJoined ==
    ASSUME NEW R, IInv(R), NEW c \in Ctx, ctx[c].state = "absent", FirstOrNone(c),
           NEW pend \in Seq(Ctx), IsInjective(pend)
    PROVE  /\ ListsOK(pend, queues') /\ ~Behind(queues', c)
           /\ \A d \in Ctx \ {c} : /\ Behind(queues', d) <=> Behind(queues, d)
                                   /\ Linked(queues', d) <=> Linked(queues, d)
<1>1. CASE queues' = queues
  BY <1>1, PartsLemma, AbsentLemma DEF ListsOK
<1>2. ASSUME NEW q \in Queue, queues[q] = <<>>, queues' = [queues EXCEPT ![q] = <<c>>]
      PROVE  /\ ListsOK(pend, queues') /\ ~Behind(queues', c)
             /\ \A d \in Ctx \ {c} : /\ Behind(queues', d) <=> Behind(queues, d)
                                     /\ Linked(queues', d) <=> Linked(queues, d)
  <2>. DEFINE list == Append(queues[q], c)
  <2>1. list = <<c>>
    BY <1>2
  <2>. HIDE DEF list
  <2>2. queues' = [queues EXCEPT ![q] = list]
    BY <1>2, <2>1
  <2>. QED
    BY <1>2, <2>2, QueueJoined DEF list
<1>. QED
  BY <1>1, <1>2 DEF FirstOrNone

LEMMA RunAtOnceStep ==
    ASSUME NEW R, RspInv(R), MayCall, NEW c \in Ctx, ~Alive(c), NEW n \in 1..MaxActions,
           RunAtOnce(c, n), FirstOrNone(c), req' = req, tickLeft' = tickLeft, Begins
    PROVE  RspInv(R)'
<1>1. IInv(R) /\ ctx[c].state = "absent" /\ c \notin Members(pending)
  BY AbsentLemma DEF RspInv, Alive
<1>2. /\ ctx' = Bound(c, n) /\ FramesOK(frames') /\ \A d \in R : Held(frames', d)
      /\ RunsIn(frames', c) /\ \A d \in Ctx \ {c} : RunsIn(frames', d) <=> RunsIn(frames, d)
      /\ pending' \in Seq(Ctx) /\ IsInjective(pending') /\ Members(pending') = Members(pending)
  BY <1>1, RunAtOnceLemma
<1>3. /\ ListsOK(pending', queues') /\ ~Behind(queues', c)
      /\ \A d \in Ctx \ {c} : /\ Behind(queues', d) <=> Behind(queues, d)
                              /\ Linked(queues', d) <=> Linked(queues, d)
  BY <1>1, <1>2, FirstJoined
<1>. QED
  BY <1>1, <1>2, <1>3, BoundStep

LEMMA LaterStep ==
    ASSUME NEW R, RspInv(R), MayCall, NEW c \in Ctx, ~Alive(c), NEW n \in 1..MaxActions,
           Later(c, n), FirstOrNone(c), req' = req, tickLeft' = tickLeft, Begins
    PROVE  RspInv(R)'
<1>1. IInv(R) /\ ctx[c].state = "absent" /\ ~RunsIn(frames, c)
  BY AbsentLemma DEF RspInv, Alive
<1>2. ctx' = Bound(c, n) /\ pending' = Append(pending, c) /\ frames' = Called
  BY DEF Later
<1>3. /\ FramesOK(frames') /\ \A d \in R : Held(frames', d)
      /\ \A d \in Ctx : RunsIn(frames', d) <=> RunsIn(frames, d)
  BY <1>1, <1>2, PartsLemma, HeldInCall DEF RspInv
<1>4. pending' \in Seq(Ctx) /\ IsInjective(pending') /\ Members(pending') = Members(pending) \cup {c}
  BY <1>1, <1>2, PendingJoined
<1>5. /\ ListsOK(pending', queues') /\ ~Behind(queues', c)
      /\ \A d \in Ctx \ {c} : /\ Behind(queues', d) <=> Behind(queues, d)
                              /\ Linked(queues', d) <=> Linked(queues, d)
  BY <1>1, <1>4, FirstJoined
<1>. QED
  BY <1>1, <1>2, <1>3, <1>4, <1>5, BoundStep

LEMMA BehindStep ==
    ASSUME NEW R, RspInv(R), MayCall, NEW c \in Ctx, ~Alive(c), NEW n \in 1..MaxActions,
           ctx' = Bound(c, n), frames' = Called, pending' = pending,
           NEW q \in Queue, queues[q] # <<>>,
           NEW list, \/ list = Append(queues[q], c)
                     \/ \E pre \in Members(queues[q]) : list = InsertedAfter(queues[q], pre, c),
           queues' = [queues EXCEPT ![q] = list], req' = req, tickLeft' = tickLeft, Begins
    PROVE  RspInv(R)'
<1>1. /\ IInv(R) /\ ctx[c].state = "absent" /\ ~RunsIn(frames, c) /\ c \notin Members(pending)
      /\ pending \in Seq(Ctx) /\ IsInjective(pending)
  BY AbsentLemma, PartsLemma DEF RspInv, Alive
<1>2. /\ FramesOK(frames') /\ \A d \in R : Held(frames', d)
      /\ \A d \in Ctx : RunsIn(frames', d) <=> RunsIn(frames, d)
  BY <1>1, PartsLemma, HeldInCall DEF RspInv
<1>3. /\ ListsOK(pending', queues') /\ Behind(queues', c)
      /\ \A d \in Ctx \ {c} : /\ Behind(queues', d) <=> Behind(queues, d)
                              /\ Linked(queues', d) <=> Linked(queues, d)
  BY <1>1, QueueJoined
<1>. QED
  BY <1>1, <1>2, <1>3, BoundStep

\* bpg_rsp_commit_error: the new context is apart until its commit returns.
LEMMA RefusedStep ==
    ASSUME NEW R, RspInv(R), MayCall, NEW c \in Ctx, ~Alive(c), Refused(c),
           req' = req, tickLeft' = tickLeft, NEW S, S = R \cup {c}
    PROVE  RspInv(S)'
<1>. DEFINE g == CommitFrame(c)
<1>1. /\ IInv(R) /\ ctx[c].state = "absent" /\ ~RunsIn(frames, c) /\ ~Behind(queues, c)
      /\ pending \in Seq(Ctx) /\ IsInjective(pending) /\ c \notin Members(pending)
      /\ FramesOK(frames)
  BY AbsentLemma, PartsLemma DEF RspInv, Alive
<1>2. /\ pending' = Append(pending, c) /\ frames' = Append(Called, g)
      /\ queues' = queues /\ Begins
  BY DEF Refused, History
<1>3. PICK x \in Context :
         /\ x.state \in {"init", "idle"} /\ x.errno /\ x.commits = 1 /\ x.waits = 0 /\ ~x.deleting
         /\ ctx' = [ctx EXCEPT ![c] = x]
  <2>1. ASSUME NEW y \in Context, y.state \in {"init", "idle"}, y.waits = 0, ~y.deleting,
               ctx' = [ctx EXCEPT ![c] = [y EXCEPT !.errno = TRUE, !.commits = 1]]
        PROVE  \E x \in Context :
                  /\ x.state \in {"init", "idle"} /\ x.errno /\ x.commits = 1 /\ x.waits = 0 /\ ~x.deleting
                  /\ ctx' = [ctx EXCEPT ![c] = x]
    <3>. DEFINE x == [y EXCEPT !.errno = TRUE, !.commits = 1]
    <3>1. /\ x \in Context /\ x.state \in {"init", "idle"} /\ x.errno /\ x.commits = 1
          /\ x.waits = 0 /\ ~x.deleting /\ ctx' = [ctx EXCEPT ![c] = x]
      BY <2>1 DEF Context
    <3>. QED
      BY <3>1
  <2>2. /\ Absent \in Context /\ Absent.waits = 0 /\ ~Absent.deleting
        /\ \A n \in 1..MaxActions : n \in 0..MaxActions
    BY LimitAssumption DEF Absent, Context
  <2>. DEFINE a == [Absent EXCEPT !.state = "init"]
              b(n) == [Absent EXCEPT !.state = "idle", !.left = n]
  <2>3. a \in Context /\ a.state \in {"init", "idle"} /\ a.waits = 0 /\ ~a.deleting
    BY <2>2 DEF Context
  <2>4. \A n \in 1..MaxActions :
           b(n) \in Context /\ b(n).state \in {"init", "idle"} /\ b(n).waits = 0 /\ ~b(n).deleting
    BY <2>2 DEF Context
  <2>5. \E y \in {a} \cup {b(n) : n \in 1..MaxActions} :
           ctx' = [ctx EXCEPT ![c] = [y EXCEPT !.errno = TRUE, !.commits = 1]]
    BY DEF Refused
  <2>. HIDE DEF a, b
  <2>6. PICK y \in {a} \cup {b(n) : n \in 1..MaxActions} :
           ctx' = [ctx EXCEPT ![c] = [y EXCEPT !.errno = TRUE, !.commits = 1]]
    BY <2>5
  <2>7. y \in Context /\ y.state \in {"init", "idle"} /\ y.waits = 0 /\ ~y.deleting
    BY <2>3, <2>4
  <2>. QED
    BY <2>1, <2>6, <2>7
<1>6. pending' \in Seq(Ctx) /\ IsInjective(pending') /\ Members(pending') = Members(pending) \cup {c}
  BY <1>1, <1>2, PendingJoined
<1>7. ListsOK(pending', queues')
  BY <1>1, <1>2, <1>6, PartsLemma DEF ListsOK
<1>8. /\ FramesOK(Called) /\ Called # <<>> /\ Called \in Seq(Frame)
      /\ \A d \in Ctx : Held(Called, d) <=> Held(frames, d)
      /\ \A d \in Ctx : RunsIn(Called, d) <=> RunsIn(frames, d)
  BY <1>1, HeldInCall
<1>9. FramesOK(frames') /\ \A d \in Ctx : RunsIn(frames', d) <=> RunsIn(frames, d)
  BY <1>2, <1>8, CommitPushed
<1>10. \A d \in S : Held(frames', d)
  <2>1. g \in Frame /\ g.kind = "commit" /\ g.ctx = c
    BY LimitAssumption DEF CommitFrame, Frame
  <2>. HIDE DEF g
  <2>2. \A d \in Ctx : Held(frames', d) <=> Held(Called, d) \/ (g.kind = "commit" /\ g.ctx = d)
    BY <1>2, <1>8, <2>1, HeldPushed
  <2>. QED
    BY <1>8, <2>1, <2>2 DEF RspInv
<1>11. ContextOK(x, RunsIn(frames', c), c \in Members(pending'), Behind(queues', c), Linked(queues', c), c \in S)
  <2>1. StateOf(x) = "error"
    BY <1>3 DEF StateOf
  <2>. QED
    BY <1>1, <1>2, <1>3, <1>6, <1>9, <2>1 DEF ContextOK, Terminal
<1>12. IInv(S)'
  <2>1. \A d \in Ctx \ {c} :
           /\ RunsIn(frames', d) <=> RunsIn(frames, d)
           /\ d \in Members(pending') <=> d \in Members(pending)
           /\ Behind(queues', d) <=> Behind(queues, d)
           /\ Linked(queues', d) <=> Linked(queues, d)
           /\ d \in S <=> d \in R
    BY <1>2, <1>6, <1>9
  <2>2. x.state # "absent"
    BY <1>3
  <2>. QED
    BY <1>1, <1>3, <1>7, <1>9, <1>11, <2>1, <2>2, ArriveStep
<1>13. \A d \in Ctx : ~ctx'[d].deleting
  <2>1. \A d \in Ctx : ctx'[d] = IF d = c THEN x ELSE ctx[d]
    BY <1>1, <1>3, PartsLemma
  <2>. QED
    BY <1>3, <2>1 DEF RspInv
<1>14. \A d \in begun : d \in Ctx /\ ~Behind(queues', d)
  BY <1>2 DEF RspInv
<1>15. S \subseteq Ctx
  BY DEF RspInv
<1>16. begun' \subseteq Ctx /\ \A d \in begun' : ctx'[d].state # "absent" /\ ~Behind(queues', d)
  BY <1>2, <1>12, <1>14, HistoryKept
<1>. QED
  BY <1>10, <1>12, <1>13, <1>15, <1>16 DEF RspInv

-----------------------------------------------------------------------------
(* The invariant holds *)

\* A queue that is empty has no other context before the new one.
LEMMA WaitBehindStep ==
    ASSUME NEW R, RspInv(R), MayCall, NEW c \in Ctx, ~Alive(c), NEW n \in 1..MaxActions, NEW q \in Queue,
           WaitBehind(c, n, q), req' = req, tickLeft' = tickLeft
    PROVE  RspInv(R)'
<1>. DEFINE list == Append(queues[q], c)
<1>1. /\ queues[q] # <<>> /\ ctx' = Bound(c, n) /\ queues' = [queues EXCEPT ![q] = list]
      /\ frames' = Called /\ pending' = pending /\ Begins
  BY DEF WaitBehind, History
<1>2. list = Append(queues[q], c)
  OBVIOUS
<1>. HIDE DEF list
<1>. QED
  BY <1>1, <1>2, BehindStep

LEMMA OverflowStep ==
    ASSUME NEW R, RspInv(R), MayCall, NEW c \in Ctx, ~Alive(c), NEW n \in 1..MaxActions, NEW q \in Queue,
           Overflow(c, n, q), req' = req, tickLeft' = tickLeft
    PROVE  RspInv(R)'
<1>1. Later(c, n) /\ FirstOrNone(c) /\ Begins
  BY DEF Overflow, Later, FirstOrNone
<1>. QED
  BY <1>1, LaterStep

LEMMA RspExecuteStep ==
    ASSUME NEW R, RspInv(R), NEW c \in Ctx, RspExecute(c)
    PROVE  \E S : RspInv(S)'
<1>1. MayCall /\ ~Alive(c) /\ req' = req /\ tickLeft' = tickLeft
  BY DEF RspExecute
<1>2. CASE Refused(c)
  BY <1>1, <1>2, RefusedStep
<1>3. ASSUME NEW n \in 1..MaxActions,
             \/ RunUnqueued(c, n)
             \/ \E q \in Queue : RunFirst(c, n, q) \/ WaitBehind(c, n, q) \/ Overflow(c, n, q)
      PROVE  RspInv(R)'
  <2>1. CASE RunUnqueued(c, n)
    <3>1. RunAtOnce(c, n) /\ FirstOrNone(c) /\ Begins
      BY <2>1 DEF RunUnqueued, FirstOrNone, History
    <3>. QED
      BY <1>1, <3>1, RunAtOnceStep
  <2>2. ASSUME NEW q \in Queue, RunFirst(c, n, q) PROVE RspInv(R)'
    <3>1. RunAtOnce(c, n) /\ FirstOrNone(c) /\ Begins
      BY <2>2 DEF RunFirst, FirstOrNone, History
    <3>. QED
      BY <1>1, <3>1, RunAtOnceStep
  <2>. QED
    BY <1>1, <1>3, <2>1, <2>2, WaitBehindStep, OverflowStep
<1>. QED
  BY <1>2, <1>3 DEF RspExecute

LEMMA LateOpStep == ASSUME NEW R, RspInv(R), NEW c \in Ctx, LateOp(c) PROVE RspInv(R)'
<1>1. MayCall /\ ~Alive(c) /\ req' = req /\ tickLeft' = tickLeft
  BY DEF LateOp
<1>2. PICK n \in 1..MaxActions :
        \/ Later(c, n) /\ UNCHANGED queues /\ Begins
        \/ \E q \in Queue :
            \/ WaitBehind(c, n, q)
            \/ Overflow(c, n, q)
            \/ /\ queues[q] = <<>> /\ HasRoom(q) /\ Later(c, n)
               /\ queues' = [queues EXCEPT ![q] = <<c>>] /\ Begins
  BY DEF LateOp, History
<1>3. CASE Later(c, n) /\ FirstOrNone(c) /\ Begins
  BY <1>1, <1>3, LaterStep
<1>4. ASSUME NEW q \in Queue, WaitBehind(c, n, q) \/ Overflow(c, n, q) PROVE RspInv(R)'
  BY <1>1, <1>4, WaitBehindStep, OverflowStep
<1>. QED
  BY <1>2, <1>3, <1>4 DEF FirstOrNone

LEMMA FollowOpStep == ASSUME NEW R, RspInv(R), NEW c \in Ctx, FollowOp(c) PROVE RspInv(R)'
<1>1. /\ MayCall /\ ~Alive(c) /\ frames' = Called /\ req' = req /\ tickLeft' = tickLeft /\ Begins
  BY DEF FollowOp, History
<1>2. PICK n \in 1..MaxActions : ctx' = Bound(c, n)
  BY DEF FollowOp
<1>3. CASE pending' = Append(pending, c) /\ queues' = queues
  <2>1. Later(c, n) /\ FirstOrNone(c)
    BY <1>1, <1>2, <1>3 DEF Later, FirstOrNone
  <2>. QED
    BY <1>1, <2>1, LaterStep
<1>4. ASSUME NEW q \in Queue, NEW pre \in Members(queues[q]), pending' = pending,
             queues' = [queues EXCEPT ![q] = InsertedAfter(@, pre, c)]
      PROVE  RspInv(R)'
  <2>. DEFINE list == InsertedAfter(queues[q], pre, c)
  <2>1. queues' = [queues EXCEPT ![q] = list] /\ list = InsertedAfter(queues[q], pre, c)
    BY <1>4
  <2>. HIDE DEF list
  <2>2. queues[q] # <<>>
    <3>1. Len(<<>>) = 0
      BY EmptySeq
    <3>. QED
      BY <3>1 DEF Members
  <2>. QED
    BY <1>1, <1>2, <1>4, <2>1, <2>2, BehindStep
<1>. QED
  BY <1>3, <1>4 DEF FollowOp

\* A commit callback returns: what was apart is gone with it.
LEMMA RspCommitStep ==
    ASSUME NEW R, RspInv(R), CommitReturns, Begins, NEW c, c = Top.ctx, NEW S, S = R \ {c}
    PROVE  RspInv(S)'
<1>1. frames # <<>> /\ Top.kind = "commit" /\ frames' = Below
  BY DEF CommitReturns, Release
<1>2. IInv(R) /\ FramesOK(frames) /\ ctx \in [Ctx -> Context] /\ ListsOK(pending, queues)
  BY PartsLemma DEF RspInv
<1>3. c \in Ctx
  BY <1>1, <1>2, BelowLemma
<1>4. IInv(S)'
  BY <1>2, CommitAssumption, CommitReturnsStep
<1>5. \A d \in S : Held(frames', d)
  <2>1. \A d \in Ctx : Held(frames, d) /\ ~(Top.kind = "commit" /\ Top.ctx = d) => Held(Below, d)
    BY <1>1, <1>2, HeldBelow
  <2>. QED
    BY <1>1, <2>1 DEF RspInv
<1>6. (ctx' = ctx /\ queues' = queues) \/ Release(c, Below)
  BY DEF CommitReturns
<1>7. \A d \in Ctx : ~ctx'[d].deleting
  <2>1. ~Absent.deleting
    BY DEF Absent
  <2>. QED
    BY <1>2, <1>6, <2>1 DEF RspInv, Release
<1>8. \A d \in Ctx : Behind(queues', d) => Behind(queues, d)
  <2>1. CASE Release(c, Below)
    <3>1. queues' = [q \in Queue |-> Removed(queues[q], c)]
      BY <2>1 DEF Release
    <3>. QED
      BY <1>2, <1>3, <3>1, PartsLemma, QueuesLeft
  <2>. QED
    BY <1>6, <2>1
<1>9. begun' \subseteq Ctx /\ \A d \in begun' : ctx'[d].state # "absent" /\ ~Behind(queues', d)
  <2>1. \A d \in begun : d \in Ctx /\ ~Behind(queues', d)
    BY <1>8 DEF RspInv
  <2>. QED
    BY <1>4, <2>1, HistoryKept
<1>10. S \subseteq Ctx
  BY DEF RspInv
<1>. QED
  BY <1>4, <1>5, <1>7, <1>9, <1>10 DEF RspInv

\* The steps of the scheduler that end no commit.
LEMMA SchedulerStep ==
    ASSUME NEW R, RspInv(R), \/ \E c \in Ctx : Cancel(c) \/ Timeout(c) \/ ErrnoSet(c) \/ OpReturns(c)
                             \/ RequireCall \/ Tick
    PROVE  IInv(R)' /\ Keeps(R)
<1>1. IInv(R)
  BY DEF RspInv
<1>2. ASSUME NEW c \in Ctx, Cancel(c) PROVE IInv(R)' /\ Keeps(R)
  <2>1. MayCall /\ Leave(c, "cancel") /\ "cancel" \in Terminal
    BY <1>2 DEF Cancel, Terminal
  <2>. QED
    BY <1>1, <2>1, LeaveStep, LeaveKeeps
<1>3. ASSUME NEW c \in Ctx, Timeout(c) PROVE IInv(R)' /\ Keeps(R)
  <2>1. MayCall /\ Leave(c, "timeout") /\ "timeout" \in Terminal
    BY <1>3 DEF Timeout, MainCalls, Terminal
  <2>. QED
    BY <1>1, <2>1, LeaveStep, LeaveKeeps
<1>4. ASSUME NEW c \in Ctx, ErrnoSet(c) PROVE IInv(R)' /\ Keeps(R)
  BY <1>1, <1>4, ErrnoStep, ErrnoKeeps
<1>5. ASSUME NEW c \in Ctx, OpReturns(c) PROVE IInv(R)' /\ Keeps(R)
  <2>1. IInv(R)'
    BY <1>1, <1>5, OpWaitsStep, OpNextStep, OpEndsStep DEF OpReturns
  <2>. QED
    BY <1>5, <2>1, OpKeeps
<1>6. CASE RequireCall
  BY <1>1, <1>6, RequireCallStep, RequireKeeps
<1>7. CASE Tick
  <2>1. InMain => R = {}
    BY NoneHeld
  <2>2. IInv(R)'
    BY <1>1, <1>7, <2>1, TickStartStep, TickExecuteStep, TickCrashStep DEF Tick
  <2>. QED
    BY <1>7, <2>2, TickKeeps
<1>. QED
  BY <1>2, <1>3, <1>4, <1>5, <1>6, <1>7

LEMMA EngineKept ==
    ASSUME NEW R, RspInv(R), IInv(R)', Keeps(R), Begins
    PROVE  RspInv(R)'
<1>1. \A c \in begun : c \in Ctx /\ ~Behind(queues', c)
  BY DEF RspInv, Keeps
<1>2. begun' \subseteq Ctx /\ \A c \in begun' : ctx'[c].state # "absent" /\ ~Behind(queues', c)
  BY <1>1, HistoryKept
<1>. QED
  BY <1>2 DEF RspInv, Keeps

\* The inductive invariant of the responders.
RspIInv == \E R : RspInv(R)

LEMMA RspInitIInv == RspInit => RspIInv
<1>. SUFFICES ASSUME RspInit PROVE RspIInv
  OBVIOUS
<1>1. IInv({}) /\ begun = {} /\ ctx = [c \in Ctx |-> Absent]
  BY InitIInv DEF RspInit, Init
<1>2. \A c \in Ctx : ~ctx[c].deleting
  BY <1>1 DEF Absent
<1>3. RspInv({})
  BY <1>1, <1>2 DEF RspInv
<1>. QED
  BY <1>3 DEF RspIInv

LEMMA RspNextIInv == RspIInv /\ [RspNext]_rspVars => RspIInv'
<1>. SUFFICES ASSUME NEW R, RspInv(R), [RspNext]_rspVars PROVE \E S : RspInv(S)'
  BY DEF RspIInv
<1>1. ASSUME NEW c \in Ctx, RspExecute(c) \/ LateOp(c) \/ FollowOp(c) PROVE \E S : RspInv(S)'
  BY <1>1, RspExecuteStep, LateOpStep, FollowOpStep
<1>2. CASE EngineStep
  <2>1. Begins
    BY <1>2 DEF EngineStep, History
  <2>2. CASE CommitReturns
    <3>1. \A c, S : c = Top.ctx /\ S = R \ {c} => RspInv(S)'
      BY <2>1, <2>2, RspCommitStep
    <3>. QED
      BY <3>1
  <2>3. CASE \/ \E c \in Ctx : Cancel(c) \/ Timeout(c) \/ ErrnoSet(c) \/ OpReturns(c)
             \/ RequireCall \/ Tick
    BY <2>1, <2>3, SchedulerStep, EngineKept
  <2>. QED
    BY <1>2, <2>2, <2>3 DEF EngineStep
<1>3. CASE UNCHANGED rspVars
  <2>1. UNCHANGED vars /\ begun' = begun
    BY <1>3 DEF rspVars
  <2>2. IInv(R)'
    BY <2>1, StutterStep DEF RspInv
  <2>3. RspInv(R)'
    BY <2>1, <2>2 DEF RspInv, vars
  <2>. QED
    BY <2>3
<1>. QED
  BY <1>1, <1>2, <1>3 DEF RspNext

LEMMA RspInvariance == RspSpec => []RspIInv
BY RspInitIInv, RspNextIInv, PTL DEF RspSpec

-----------------------------------------------------------------------------
(* What follows from it *)

\* Every variable keeps its type, whatever requests arrive and are refused.
THEOREM RspTypeCorrect == RspSpec => []RspTypeOK
<1>. DEFINE OverflowedOK == overflowed \subseteq Ctx
<1>1. RspIInv /\ OverflowedOK => RspTypeOK
  BY DEF RspIInv, RspInv, IInv, RspTypeOK, TypeOK, RequiresOK, ListsOK, FramesOK
<1>2. RspInit => OverflowedOK
  BY DEF RspInit
<1>3. OverflowedOK /\ [RspNext]_rspVars => OverflowedOK'
  <2>. SUFFICES ASSUME OverflowedOK, [RspNext]_rspVars PROVE OverflowedOK'
    OBVIOUS
  <2>1. ASSUME NEW cs \in SUBSET Ctx, NoRoom(cs) PROVE OverflowedOK'
    BY <2>1 DEF NoRoom
  <2>2. CASE History
    BY <2>1, <2>2 DEF History
  <2>3. ASSUME NEW c \in Ctx, NEW n, NEW q, Overflow(c, n, q) PROVE OverflowedOK'
    BY <2>1, <2>3 DEF Overflow
  <2>4. CASE UNCHANGED rspVars
    BY <2>4 DEF rspVars
  <2>. HIDE DEF OverflowedOK
  <2>. QED
    BY <2>2, <2>3, <2>4 DEF RspNext, EngineStep, RspExecute, LateOp, FollowOp, Refused, RunUnqueued,
       RunFirst, WaitBehind
<1>. QED
  BY <1>1, <1>2, <1>3, RspInvariance, PTL DEF RspSpec

\* No request of a queue is begun before those in front of it were committed and
\* freed, however often these wait, and whatever is late, refused or overflows.
THEOREM OneIsWorkedOn == RspSpec => []OneAtATime
<1>1. ASSUME RspIInv PROVE OneAtATime
  <2>1. PICK R : RspInv(R)
    BY <1>1 DEF RspIInv
  <2>2. ASSUME NEW q \in Queue, NEW i \in 2..Len(queues[q]) PROVE queues[q][i] \notin begun
    <3>1. Behind(queues, queues[q][i])
      BY DEF Behind, Rear
    <3>. QED
      BY <2>1, <3>1 DEF RspInv
  <2>. QED
    BY <2>2 DEF OneAtATime
<1>. QED
  BY <1>1, RspInvariance, PTL

\* A step that arrives somewhere frees nothing.
LEMMA ArrivalKeeps ==
    ASSUME NEW R, RspInv(R), NEW c \in Ctx, RspExecute(c) \/ LateOp(c) \/ FollowOp(c)
    PROVE  \A d \in Ctx : ctx[d].state # "absent" => ctx'[d] = ctx[d]
<1>1. ~Alive(c)
  BY DEF RspExecute, LateOp, FollowOp
<1>2. \E x : ctx' = [ctx EXCEPT ![c] = x]
  <2>1. \/ Refused(c)
        \/ \E n \in 1..MaxActions : ctx' = Bound(c, n)
    BY DEF RspExecute, LateOp, FollowOp, RunUnqueued, RunFirst, RunAtOnce, WaitBehind, Overflow, Later
  <2>2. CASE Refused(c)
    BY <2>2 DEF Refused
  <2>3. ASSUME NEW n, ctx' = Bound(c, n) PROVE \E x : ctx' = [ctx EXCEPT ![c] = x]
    BY <2>3 DEF Bound
  <2>. QED
    BY <2>1, <2>2, <2>3
<1>3. ctx \in [Ctx -> Context]
  BY PartsLemma DEF RspInv
<1>. QED
  BY <1>1, <1>2, <1>3 DEF Alive

\* The context of a request goes away by the one call of bpg_rsp_commit that
\* answers it, and by nothing else.
THEOREM AnsweredByOneCommit == RspSpec => AnsweredOnce
<1>1. ASSUME RspIInv, [RspNext]_rspVars
      PROVE  [\A c \in Ctx : Alive(c) /\ ctx'[c].state = "absent" => ctx[c].commits = 1]_rspVars
  <2>1. PICK R : RspInv(R)
    BY <1>1 DEF RspIInv
  <2>2. SUFFICES ASSUME RspNext, NEW c \in Ctx, ctx[c].state # "absent", ctx'[c].state = "absent"
                 PROVE  ctx[c].commits = 1
    BY <1>1 DEF Alive
  <2>3. ASSUME NEW d \in Ctx, RspExecute(d) \/ LateOp(d) \/ FollowOp(d) PROVE FALSE
    BY <2>1, <2>2, <2>3, ArrivalKeeps
  <2>4. CASE EngineStep /\ ~CommitReturns
    <3>1. Keeps(R)
      BY <2>1, <2>4, SchedulerStep DEF EngineStep
    <3>. QED
      BY <2>2, <3>1 DEF Keeps
  <2>5. CASE CommitReturns
    <3>1. ctx \in [Ctx -> Context] /\ ctx[c].commits \in Nat /\ ctx[c].commits <= 1
      BY <2>1, PartsLemma, StateOfLemma DEF RspInv, ContextOK
    <3>2. Top.ctx = c /\ ctx[Top.ctx].commits > 0
      BY <2>2, <2>5, <3>1 DEF CommitReturns, Release
    <3>. QED
      BY <3>1, <3>2
  <2>. QED
    BY <2>2, <2>3, <2>4, <2>5 DEF RspNext
<1>. QED
  BY <1>1, RspInvariance, PTL DEF RspSpec, AnsweredOnce

\* What was proved of the scheduler holds under the responders too: the contexts
\* that are refused, which it never sees terminal by itself, break none of it.
THEOREM SchedulerKeepsIts ==
    RspSpec => [](WaitsAgree /\ NoDangling /\ LinkedOnce /\ CommitOnce /\ OnlyHeadRuns /\ NoneLost)
<1>1. RspIInv => WaitsAgree /\ NoDangling /\ LinkedOnce /\ CommitOnce /\ OnlyHeadRuns /\ NoneLost
  BY SafetyLemma DEF RspIInv, RspInv
<1>. QED
  BY <1>1, RspInvariance, PTL

-----------------------------------------------------------------------------
(* The pending list and the tick under the responders *)

\* A request that arrives joins the pending list behind the others, or stays out of it,
\* and takes none of them from the tick in progress.
LEMMA ArrivalStands ==
    ASSUME NEW R, RspInv(R), NEW c \in Ctx, RspExecute(c) \/ LateOp(c) \/ FollowOp(c)
    PROVE  /\ InOrder(pending, pending') /\ frames' # <<>> /\ tickLeft' = tickLeft
           /\ Ready(frames, pending) \subseteq Ready(frames', pending')
<1>1. /\ IInv(R) /\ ctx[c].state = "absent" /\ MayCall /\ tickLeft' = tickLeft
      /\ c \notin Members(pending) /\ ~RunsIn(frames, c)
  BY AbsentLemma DEF RspInv, Alive, RspExecute, LateOp, FollowOp
<1>2. /\ ctx \in [Ctx -> Context] /\ pending \in Seq(Ctx) /\ IsInjective(pending)
      /\ FramesOK(frames) /\ frames # <<>>
  BY <1>1, PartsLemma DEF MayCall
<1>3. /\ FramesOK(Called) /\ Called # <<>>
      /\ \A d \in Ctx : (RunsIn(Called, d) <=> RunsIn(frames, d)) /\ (Busy(Called, d) <=> Busy(frames, d))
  BY <1>1, <1>2, BusyCalled, HeldInCall
<1>4. /\ Append(pending, c) \in Seq(Ctx) /\ IsInjective(Append(pending, c))
      /\ Members(Append(pending, c)) = Members(pending) \cup {c}
      /\ InOrder(pending, Append(pending, c))
  BY <1>1, <1>2, PendingJoined, JoinedOrder
<1>5. ASSUME frames' = Called, pending' = pending \/ pending' = Append(pending, c)
      PROVE  /\ InOrder(pending, pending') /\ frames' # <<>>
             /\ Ready(frames, pending) \subseteq Ready(frames', pending')
  BY <1>3, <1>4, <1>5, SameOrder DEF Ready
<1>6. ASSUME Refused(c)
      PROVE  /\ InOrder(pending, pending') /\ frames' # <<>>
             /\ Ready(frames, pending) \subseteq Ready(frames', pending')
  <2>. DEFINE f == CommitFrame(c)
  <2>1. frames' = Append(Called, f) /\ pending' = Append(pending, c)
    BY <1>6 DEF Refused
  <2>2. f \in Frame /\ f.ctx = c /\ f.kind = "commit"
    BY LimitAssumption DEF CommitFrame, Frame
  <2>. HIDE DEF f
  <2>3. frames' # <<>> /\ \A d \in Ctx : Busy(frames', d) <=> Busy(Called, d) \/ d = c
    BY <1>1, <1>3, <2>1, <2>2, BusyPushed, PushedLemma
  <2>. QED
    BY <1>1, <1>3, <1>4, <2>1, <2>3 DEF Ready
<1>7. ASSUME NEW n \in 1..MaxActions, RunAtOnce(c, n)
      PROVE  /\ InOrder(pending, pending') /\ frames' # <<>>
             /\ Ready(frames, pending) \subseteq Ready(frames', pending')
  <2>. DEFINE x == [Absent EXCEPT !.state = "idle", !.left = n]
              cx == Bound(c, n)
              l == Append(pending, c)
  <2>1. x \in Context /\ x.state = "idle"
    <3>1. n \in 0..MaxActions
      BY LimitAssumption
    <3>. QED
      BY <3>1 DEF Absent, Context
  <2>2. cx = [ctx EXCEPT ![c] = x]
    BY DEF Bound
  <2>. HIDE DEF x
  <2>3. cx \in [Ctx -> Context] /\ cx[c] = x
    <3>. HIDE DEF cx
    <3>. QED
      BY <1>2, <2>1, <2>2
  <2>4. frames' = (IF cx[c].left > 0 THEN Append(Called, OpFrame(c, cx[c])) ELSE Called)
        /\ pending' = Removed(l, c)
    BY <1>7 DEF RunAtOnce, Begin
  <2>. HIDE DEF cx, l
  <2>5. Members(pending') = Members(pending)
    <3>1. Members(Removed(l, c)) = Members(l) \ {c} /\ Members(l) = Members(pending) \cup {c}
      BY <1>4, RemovedLemma DEF l
    <3>. QED
      BY <1>1, <2>4, <3>1
  <2>6. InOrder(pending, pending')
    BY <1>4, <2>4, LeftOrder DEF l
  <2>7. CASE cx[c].left > 0
    <3>. DEFINE f == OpFrame(c, cx[c])
    <3>1. f \in Frame /\ f.ctx = c /\ f.kind = "op"
      <4>1. StateOf(cx[c]) \in {"waiting", "idle", "error"} /\ 0 \in 0..MaxCalls
        BY <2>1, <2>3, StateOfLemma, LimitAssumption
      <4>. QED
        BY <4>1 DEF OpFrame, Frame
    <3>2. frames' = Append(Called, f)
      BY <2>4, <2>7
    <3>. HIDE DEF f
    <3>3. frames' # <<>> /\ \A d \in Ctx : Busy(frames', d) <=> Busy(Called, d) \/ d = c
      BY <1>1, <1>3, <3>1, <3>2, BusyPushed, PushedLemma
    <3>. QED
      BY <1>1, <1>3, <2>5, <2>6, <3>3 DEF Ready
  <2>8. CASE ~(cx[c].left > 0)
    BY <1>3, <2>4, <2>5, <2>6, <2>8 DEF Ready
  <2>. QED
    BY <2>7, <2>8
<1>8. \/ frames' = Called /\ (pending' = pending \/ pending' = Append(pending, c))
      \/ Refused(c)
      \/ \E n \in 1..MaxActions : RunAtOnce(c, n)
  BY DEF RspExecute, LateOp, FollowOp, RunUnqueued, RunFirst, WaitBehind, Overflow, Later
<1>. QED
  BY <1>1, <1>5, <1>6, <1>7, <1>8

\* The steps of the scheduler are its own.
LEMMA EngineIsNext ==
    ASSUME [RspNext]_rspVars,
           ~ \E c \in Ctx : RspExecute(c) \/ LateOp(c) \/ FollowOp(c)
    PROVE  [Next]_vars
BY DEF RspNext, EngineStep, Next, ContextCall, rspVars

\* The requests that wait to be executed by the tick keep their order, with new ones
\* coming in from the network and from actions, and others refused meanwhile.
THEOREM RequestsKeepTheirOrder == RspSpec => PendingInOrder
<1>1. RspIInv /\ [RspNext]_rspVars => InOrder(pending, pending')
  <2>. SUFFICES ASSUME NEW R, RspInv(R), [RspNext]_rspVars PROVE InOrder(pending, pending')
    BY DEF RspIInv
  <2>1. CASE \E c \in Ctx : RspExecute(c) \/ LateOp(c) \/ FollowOp(c)
    BY <2>1, ArrivalStands
  <2>2. CASE ~ \E c \in Ctx : RspExecute(c) \/ LateOp(c) \/ FollowOp(c)
    <3>1. IInv(R) /\ (InMain => R = {}) /\ [Next]_vars
      BY <2>2, NoneHeld, EngineIsNext DEF RspInv
    <3>. QED
      BY <3>1, OrderStep
  <2>. QED
    BY <2>1, <2>2
<1>2. RspIInv /\ [RspNext]_rspVars =>
         [\A b, c \in Members(pending') : b \in Members(pending) =>
             IF c \in Members(pending) THEN Before(pending, b, c) => Before(pending', b, c)
             ELSE Before(pending', b, c)]_vars
  BY <1>1 DEF InOrder
<1>. QED
  BY <1>2, RspInvariance, PTL DEF RspSpec, PendingInOrder

\* The tick does not run into an empty list either: what arrives is added to what it
\* counted, and a refused request, which its commit frees, was not counted.
THEOREM TheTickNeverCrashes ==
    ASSUME OpCalls \subseteq {"errno"}
    PROVE  RspSpec => []NoCrash
<1>1. RspInit => TickOK
  BY DEF RspInit, Init, TickOK
<1>2. RspIInv /\ RspIInv' /\ TickOK /\ [RspNext]_rspVars => TickOK'
  <2>. SUFFICES ASSUME NEW R, RspInv(R), RspIInv', TickOK, [RspNext]_rspVars PROVE TickOK'
    BY DEF RspIInv
  <2>1. pending' \in Seq(Ctx)
    BY DEF RspIInv, RspInv, IInv, ListsOK
  <2>2. CASE \E c \in Ctx : RspExecute(c) \/ LateOp(c) \/ FollowOp(c)
    <3>1. /\ frames' # <<>> /\ tickLeft' = tickLeft
          /\ Ready(frames, pending) \subseteq Ready(frames', pending')
      BY <2>2, ArrivalStands
    <3>2. pending \in Seq(Ctx) /\ tickLeft \in Nat
      BY PartsLemma, LimitAssumption DEF RspInv
    <3>. QED
      BY <2>1, <3>1, <3>2, TickGrows
  <2>3. CASE ~ \E c \in Ctx : RspExecute(c) \/ LateOp(c) \/ FollowOp(c)
    <3>1. IInv(R) /\ (InMain => R = {}) /\ [Next]_vars
      BY <2>3, NoneHeld, EngineIsNext DEF RspInv
    <3>. QED
      BY <2>1, <3>1, TickOKStep
  <2>. QED
    BY <2>2, <2>3
<1>3. TickOK => NoCrash
  BY DEF TickOK, NoCrash
<1>. QED
  BY <1>1, <1>2, <1>3, RspInvariance, PTL DEF RspSpec
=============================================================================
