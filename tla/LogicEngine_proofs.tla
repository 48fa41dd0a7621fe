-------------------------- MODULE LogicEngine_proofs --------------------------
(***************************************************************************)
(* Proofs about LogicEngine for any contexts, requires and queues, any     *)
(* limits, and every nesting of the calls.                                 *)
(***************************************************************************)
EXTENDS LogicEngine, TailQueue_proofs, FiniteSetTheorems

-----------------------------------------------------------------------------
(* The inductive invariant *)

Behind(qs, c) == \E q \in Queue : c \in Rear(qs[q])
Linked(qs, c) == \E q \in Queue : c \in Members(qs[q])

\* The lists as such.
ListsOK(pend, qs) ==
    /\ pend \in Seq(Ctx) /\ IsInjective(pend)
    /\ qs \in [Queue -> Seq(Ctx)]
    /\ \A q \in Queue : IsInjective(qs[q])
    /\ \A p, q \in Queue : p # q => Members(qs[p]) \cap Members(qs[q]) = {}

\* The main loop is at the bottom and nowhere else; one action per context.
FramesOK(fs) ==
    /\ fs \in Seq(Frame)
    /\ fs # <<>> => fs[1].kind = "main"
    /\ \A i \in 2..Len(fs) : fs[i].kind # "main"
    /\ \A i, j \in 1..Len(fs) :
          fs[i].kind = "op" /\ fs[j].kind = "op" /\ fs[i].ctx = fs[j].ctx => i = j

\* A context x, which runs or not, is pending or not, is behind another one in a
\* queue or not, and is in a queue or not.  One that is apart was committed by its
\* client and not by logic_context_do_state_change, wherever it was (BpgRsp).
\* - committed: terminal, and no action is run any more
\* - begun: it was bound before
\* - engaged: no list will run it a second time
\* - served: one that may run will be run by a list
ContextOK(x, run, pend, behind, linked, apart) ==
    /\ x.commits <= 1
    /\ x.commits = 1 => ~run /\ StateOf(x) \in Terminal
    /\ run \/ x.waits > 0 \/ (x.commits = 1 /\ ~apart) => x.state \in {"idle"} \cup Terminal
    /\ run \/ x.waits > 0 \/ (x.commits = 1 /\ x.state = "idle" /\ ~apart) => ~pend /\ ~behind
    /\ behind => ~pend
    /\ StateOf(x) \in {"init", "idle"} /\ ~run => pend \/ behind
    /\ pend \/ linked => x.state # "absent"
    /\ x.state = "idle" /\ ~x.errno => x.left > 0
    /\ apart => x.commits = 1 /\ x.waits = 0 /\ x.state # "absent" /\ ~behind

AllOK(R, cx, fs, pend, qs) ==
    \A c \in Ctx :
        ContextOK(cx[c], RunsIn(fs, c), c \in Members(pend), Behind(qs, c), Linked(qs, c), c \in R)

\* The requires of c that wait.
WaitingOf(rq, c) == {r \in Req : rq[r] = [state |-> "waiting", of |-> c]}
RequiresOK(rq, cx) ==
    /\ rq \in [Req -> Require \cup {NoRequire}]
    /\ \A c \in Ctx : cx[c].waits = Cardinality(WaitingOf(rq, c))
    /\ \A r \in Req : rq[r] # NoRequire => cx[rq[r].of].state # "absent"

\* R: the contexts that are apart.  LogicEngine has none.
IInv(R) ==
    /\ ctx \in [Ctx -> Context]
    /\ RequiresOK(req, ctx)
    /\ ListsOK(pending, queues)
    /\ FramesOK(frames)
    /\ AllOK(R, ctx, frames, pending, queues)
    /\ tickLeft \in 0..TickMax

-----------------------------------------------------------------------------
(* The calls in progress *)

LEMMA FrameLemma ==
    ASSUME NEW f \in Frame
    PROVE  /\ f.kind \in {"main", "op", "commit"}
           /\ f.calls \in 0..MaxCalls
           /\ f.old \in {"waiting", "idle", "error"}
           /\ f.kind # "main" => f.ctx \in Ctx
           /\ f.kind = "main" => f.ctx = None
           /\ \A n \in 0..MaxCalls :
                 /\ [f EXCEPT !.calls = n] \in Frame
                 /\ [f EXCEPT !.calls = n].kind = f.kind
                 /\ [f EXCEPT !.calls = n].ctx = f.ctx
BY DEF Frame

\* What FramesOK says of single frames.
LEMMA FramesLemma ==
    ASSUME NEW fs, FramesOK(fs)
    PROVE  /\ Len(fs) \in Nat /\ fs \in Seq(Frame)
           /\ \A i \in 1..Len(fs) : fs[i] \in Frame
           /\ fs # <<>> => Len(fs) >= 1 /\ Len(fs) \in 1..Len(fs)
BY ElementOfSeq, LenProperties, EmptySeq DEF FramesOK

\* The account of the frame on top is no part of what matters.
LEMMA CountLemma ==
    ASSUME FramesOK(frames), frames # <<>>, NEW n \in 0..MaxCalls,
           NEW fs, fs = [frames EXCEPT ![Len(frames)].calls = n]
    PROVE  /\ FramesOK(fs) /\ fs # <<>>
           /\ \A c \in Ctx : RunsIn(fs, c) <=> RunsIn(frames, c)
<1>. DEFINE k == Len(frames)
            f == [frames[k] EXCEPT !.calls = n]
<1>1. k \in 1..k /\ k \in Nat /\ frames \in Seq(Frame) /\ \A i \in 1..k : frames[i] \in Frame
  BY FramesLemma
<1>2. f \in Frame /\ f.kind = frames[k].kind /\ f.ctx = frames[k].ctx
  BY <1>1, FrameLemma
<1>3. fs = [frames EXCEPT ![k] = f]
  OBVIOUS
<1>. HIDE DEF f
<1>4. fs \in Seq(Frame) /\ Len(fs) = k /\ \A i \in 1..k : fs[i] = IF i = k THEN f ELSE frames[i]
  BY <1>1, <1>2, <1>3, ExceptSeq
<1>. HIDE DEF k
<1>5. \A i \in 1..k : fs[i].kind = frames[i].kind /\ fs[i].ctx = frames[i].ctx
  BY <1>1, <1>2, <1>4
<1>6. fs # <<>>
  BY <1>1, <1>4, EmptySeq
<1>7. 1 \in 1..k /\ \A i \in 2..k : i \in 1..k
  BY <1>1
<1>8. FramesOK(fs)
  BY <1>4, <1>5, <1>7 DEF FramesOK, k
<1>9. \A c \in Ctx : RunsIn(fs, c) <=> RunsIn(frames, c)
  BY <1>4, <1>5 DEF RunsIn, k
<1>. QED
  BY <1>6, <1>8, <1>9

LEMMA CalledLemma ==
    ASSUME FramesOK(frames), MayCall
    PROVE  /\ FramesOK(Called) /\ Called # <<>>
           /\ \A c \in Ctx : RunsIn(Called, c) <=> RunsIn(frames, c)
<1>1. frames # <<>> /\ Top.calls < MaxCalls /\ MaxCalls \in Nat
  BY LimitAssumption DEF MayCall
<1>2. Top.calls \in 0..MaxCalls
  BY <1>1, FramesLemma, FrameLemma DEF Top
<1>3. Top.calls + 1 \in 0..MaxCalls
  BY <1>1, <1>2
<1>4. Called = [frames EXCEPT ![Len(frames)].calls = Top.calls + 1]
  BY DEF Called, Top
<1>. QED
  BY <1>1, <1>3, <1>4, CountLemma

\* An action or a commit callback is called.
LEMMA PushedLemma ==
    ASSUME NEW fs, FramesOK(fs), fs # <<>>, NEW f \in Frame,
           f.kind = "commit" \/ (f.kind = "op" /\ ~RunsIn(fs, f.ctx))
    PROVE  /\ FramesOK(Append(fs, f)) /\ Append(fs, f) # <<>>
           /\ \A c \in Ctx : RunsIn(Append(fs, f), c) <=> RunsIn(fs, c) \/ (f.kind = "op" /\ f.ctx = c)
<1>. DEFINE k == Len(fs)
            gs == Append(fs, f)
<1>1. k \in Nat /\ k >= 1 /\ fs \in Seq(Frame) /\ \A i \in 1..k : fs[i] \in Frame
  BY FramesLemma
<1>2. gs \in Seq(Frame) /\ Len(gs) = k + 1 /\ (\A i \in 1..k : gs[i] = fs[i]) /\ gs[k + 1] = f
  BY <1>1, AppendProperties
<1>. HIDE DEF gs
<1>3. \A i \in 1..Len(gs) : i \in 1..k \/ i = k + 1
  BY <1>1, <1>2
<1>4. \A i \in 1..k : ~(fs[i].kind = "op" /\ f.kind = "op" /\ fs[i].ctx = f.ctx)
  BY DEF RunsIn
<1>5. \A i, j \in 1..k : fs[i].kind = "op" /\ fs[j].kind = "op" /\ fs[i].ctx = fs[j].ctx => i = j
  BY DEF FramesOK
<1>6. \A i, j \in 1..Len(gs) :
         gs[i].kind = "op" /\ gs[j].kind = "op" /\ gs[i].ctx = gs[j].ctx => i = j
  BY <1>2, <1>3, <1>4, <1>5
<1>7. gs[1].kind = "main" /\ \A i \in 2..Len(gs) : gs[i].kind # "main"
  <2>1. fs[1].kind = "main" /\ \A i \in 2..k : fs[i].kind # "main"
    BY DEF FramesOK
  <2>2. 1 \in 1..k /\ \A i \in 2..Len(gs) : (i \in 2..k /\ i \in 1..k) \/ i = k + 1
    BY <1>1, <1>2
  <2>. QED
    BY <1>2, <2>1, <2>2
<1>8. gs # <<>>
  BY <1>1, <1>2, EmptySeq
<1>9. ASSUME NEW c \in Ctx
      PROVE  RunsIn(gs, c) <=> RunsIn(fs, c) \/ (f.kind = "op" /\ f.ctx = c)
  <2>1. \A i \in 1..k : i \in 1..Len(gs)
    BY <1>1, <1>2
  <2>2. k + 1 \in 1..Len(gs)
    BY <1>1, <1>2
  <2>. QED
    BY <1>2, <1>3, <2>1, <2>2 DEF RunsIn
<1>. QED
  BY <1>2, <1>6, <1>7, <1>8, <1>9 DEF FramesOK, gs

\* The frame on top returns: the main loop never does.
LEMMA BelowLemma ==
    ASSUME FramesOK(frames), frames # <<>>, Top.kind # "main"
    PROVE  /\ FramesOK(Below) /\ Below # <<>> /\ Top \in Frame /\ Top.ctx \in Ctx
           /\ Top.kind = "op" => RunsIn(frames, Top.ctx)
           /\ \A c \in Ctx : RunsIn(Below, c) <=> RunsIn(frames, c) /\ ~(Top.kind = "op" /\ Top.ctx = c)
<1>. DEFINE k == Len(frames)
            gs == Below
<1>1. k \in Nat /\ k >= 1 /\ frames \in Seq(Frame) /\ \A i \in 1..k : frames[i] \in Frame
  BY FramesLemma
<1>2. k >= 2
  <2>1. frames[1].kind = "main"
    BY DEF FramesOK
  <2>. QED
    BY <1>1, <2>1 DEF Top
<1>3. gs \in Seq(Frame) /\ Len(gs) = k - 1 /\ \A i \in 1..(k - 1) : gs[i] = frames[i]
  <2>1. 1 \in Int /\ k - 1 \in Int /\ \A i \in 1..(k - 1) : frames[i] \in Frame
    BY <1>1
  <2>2. /\ gs \in Seq(Frame)
        /\ Len(gs) = IF 1 <= k - 1 THEN k - 1 - 1 + 1 ELSE 0
        /\ \A i \in 1..(k - 1 - 1 + 1) : gs[i] = frames[1 + i - 1]
    BY <1>1, <2>1, SubSeqProperties DEF Below
  <2>. HIDE DEF gs
  <2>. QED
    BY <1>1, <1>2, <2>2
<1>. HIDE DEF gs
<1>4. Top = frames[k] /\ Top \in Frame /\ Top.ctx \in Ctx
  BY <1>1, FrameLemma DEF Top
<1>5. \A i, j \in 1..k : frames[i].kind = "op" /\ frames[j].kind = "op" /\ frames[i].ctx = frames[j].ctx => i = j
  BY DEF FramesOK
<1>6. FramesOK(gs)
  <2>1. 1 \in 1..(k - 1) /\ \A i \in 2..(k - 1) : i \in 2..k /\ i \in 1..(k - 1)
    BY <1>1, <1>2
  <2>2. frames[1].kind = "main" /\ \A i \in 2..k : frames[i].kind # "main"
    BY DEF FramesOK
  <2>3. \A i \in 1..(k - 1) : i \in 1..k
    BY <1>1
  <2>. QED
    BY <1>3, <1>5, <2>1, <2>2, <2>3 DEF FramesOK
<1>7. gs # <<>>
  BY <1>1, <1>2, <1>3, EmptySeq
<1>8. k \in 1..k
  BY <1>1
<1>9. Top.kind = "op" => RunsIn(frames, Top.ctx)
  BY <1>4, <1>8 DEF RunsIn
<1>10. ASSUME NEW c \in Ctx
       PROVE  RunsIn(gs, c) <=> RunsIn(frames, c) /\ ~(Top.kind = "op" /\ Top.ctx = c)
  <2>1. \A i \in 1..k : i \in 1..(k - 1) \/ i = k
    BY <1>1
  <2>2. \A i \in 1..(k - 1) : i \in 1..k /\ i # k
    BY <1>1
  <2>3. ASSUME RunsIn(gs, c) PROVE RunsIn(frames, c) /\ ~(Top.kind = "op" /\ Top.ctx = c)
    BY <1>3, <1>4, <1>5, <1>8, <2>2, <2>3 DEF RunsIn
  <2>4. ASSUME RunsIn(frames, c), ~(Top.kind = "op" /\ Top.ctx = c) PROVE RunsIn(gs, c)
    BY <1>3, <1>4, <2>1, <2>4 DEF RunsIn
  <2>. QED
    BY <2>3, <2>4
<1>. QED
  BY <1>4, <1>6, <1>7, <1>9, <1>10 DEF gs

-----------------------------------------------------------------------------
(* The commits in progress *)

\* A commit of c is in progress.
Held(fs, c) == \E i \in 1..Len(fs) : fs[i].kind = "commit" /\ fs[i].ctx = c

LEMMA HeldPushed ==
    ASSUME NEW fs \in Seq(Frame), NEW f \in Frame
    PROVE  \A c \in Ctx : Held(Append(fs, f), c) <=> Held(fs, c) \/ (f.kind = "commit" /\ f.ctx = c)
<1>. DEFINE k == Len(fs)
<1>1. /\ k \in Nat /\ Len(Append(fs, f)) = k + 1
      /\ \A i \in 1..k : Append(fs, f)[i] = fs[i]
      /\ Append(fs, f)[k + 1] = f
  BY AppendProperties, LenProperties
<1>2. \A i \in 1..(k + 1) : i \in 1..k \/ i = k + 1
  BY <1>1
<1>3. k + 1 \in 1..(k + 1) /\ \A i \in 1..k : i \in 1..(k + 1)
  BY <1>1
<1>. QED
  BY <1>1, <1>2, <1>3 DEF Held

LEMMA HeldCalled ==
    ASSUME FramesOK(frames), frames # <<>>, NEW n \in 0..MaxCalls,
           NEW fs, fs = [frames EXCEPT ![Len(frames)].calls = n]
    PROVE  \A c \in Ctx : Held(fs, c) <=> Held(frames, c)
<1>. DEFINE k == Len(frames)
            f == [frames[k] EXCEPT !.calls = n]
<1>1. k \in 1..k /\ k \in Nat /\ frames \in Seq(Frame) /\ \A i \in 1..k : frames[i] \in Frame
  BY FramesLemma
<1>2. f \in Frame /\ f.kind = frames[k].kind /\ f.ctx = frames[k].ctx
  BY <1>1, FrameLemma
<1>3. fs = [frames EXCEPT ![k] = f]
  OBVIOUS
<1>. HIDE DEF f
<1>4. Len(fs) = k /\ \A i \in 1..k : fs[i] = IF i = k THEN f ELSE frames[i]
  BY <1>1, <1>2, <1>3, ExceptSeq
<1>5. \A i \in 1..k : fs[i].kind = frames[i].kind /\ fs[i].ctx = frames[i].ctx
  BY <1>1, <1>2, <1>4
<1>. QED
  BY <1>4, <1>5 DEF Held

LEMMA HeldInCall ==
    ASSUME FramesOK(frames), MayCall
    PROVE  /\ \A c \in Ctx : Held(Called, c) <=> Held(frames, c)
           /\ FramesOK(Called) /\ Called # <<>> /\ Called \in Seq(Frame)
           /\ \A c \in Ctx : RunsIn(Called, c) <=> RunsIn(frames, c)
<1>1. frames # <<>> /\ Top.calls < MaxCalls /\ MaxCalls \in Nat
  BY LimitAssumption DEF MayCall
<1>2. Top.calls \in 0..MaxCalls
  BY <1>1, FramesLemma, FrameLemma DEF Top
<1>3. Top.calls + 1 \in 0..MaxCalls
  BY <1>1, <1>2
<1>4. Called = [frames EXCEPT ![Len(frames)].calls = Top.calls + 1]
  BY DEF Called, Top
<1>5. \A c \in Ctx : Held(Called, c) <=> Held(frames, c)
  BY <1>1, <1>3, <1>4, HeldCalled
<1>. QED
  BY <1>5, CalledLemma DEF FramesOK

LEMMA HeldBelow ==
    ASSUME FramesOK(frames), frames # <<>>, Top.kind # "main"
    PROVE  /\ \A c \in Ctx : Held(frames, c) /\ ~(Top.kind = "commit" /\ Top.ctx = c) => Held(Below, c)
           /\ \A c \in Ctx : Held(Below, c) => Held(frames, c)
           /\ Top.kind = "commit" => Held(frames, Top.ctx)
           /\ FramesOK(Below) /\ Below # <<>> /\ Below \in Seq(Frame)
<1>. DEFINE k == Len(frames)
            gs == Below
<1>1. k \in Nat /\ k >= 1 /\ frames \in Seq(Frame) /\ \A i \in 1..k : frames[i] \in Frame
  BY FramesLemma
<1>2. k >= 2
  <2>1. frames[1].kind = "main"
    BY DEF FramesOK
  <2>. QED
    BY <1>1, <2>1 DEF Top
<1>3. Len(gs) = k - 1 /\ \A i \in 1..(k - 1) : gs[i] = frames[i]
  <2>1. 1 \in Int /\ k - 1 \in Int /\ \A i \in 1..(k - 1) : frames[i] \in Frame
    BY <1>1
  <2>2. /\ Len(gs) = IF 1 <= k - 1 THEN k - 1 - 1 + 1 ELSE 0
        /\ \A i \in 1..(k - 1 - 1 + 1) : gs[i] = frames[1 + i - 1]
    BY <1>1, <2>1, SubSeqProperties DEF Below
  <2>. HIDE DEF gs
  <2>. QED
    BY <1>1, <1>2, <2>2
<1>4. FramesOK(gs) /\ gs # <<>>
  BY BelowLemma
<1>. HIDE DEF gs
<1>5. ASSUME NEW c \in Ctx, Held(frames, c), ~(Top.kind = "commit" /\ Top.ctx = c) PROVE Held(gs, c)
  <2>1. PICK i \in 1..k : frames[i].kind = "commit" /\ frames[i].ctx = c
    BY <1>5 DEF Held
  <2>2. i # k
    BY <1>5, <2>1 DEF Top
  <2>3. i \in 1..(k - 1)
    BY <1>1, <2>2
  <2>. QED
    BY <1>3, <2>1, <2>3 DEF Held
<1>6. \A c \in Ctx : Held(gs, c) => Held(frames, c)
  <2>1. \A i \in 1..(k - 1) : i \in 1..k
    BY <1>1
  <2>. QED
    BY <1>3, <2>1 DEF Held
<1>7. Top.kind = "commit" => Held(frames, Top.ctx)
  <2>1. k \in 1..k
    BY <1>1
  <2>. QED
    BY <2>1 DEF Held, Top
<1>. QED
  BY <1>4, <1>5, <1>6, <1>7 DEF gs, FramesOK

\* While the main loop is on top neither an action nor a commit is in progress.
LEMMA MainHolds ==
    ASSUME FramesOK(frames), frames # <<>>, Top.kind = "main"
    PROVE  \A c : ~Held(frames, c) /\ ~RunsIn(frames, c)
<1>. DEFINE k == Len(frames)
<1>1. k \in Nat /\ k >= 1 /\ \A i \in 2..k : frames[i].kind # "main"
  BY FramesLemma DEF FramesOK
<1>2. frames[k].kind = "main"
  BY DEF Top
<1>3. k = 1
  <2>1. k \notin 2..k
    BY <1>1, <1>2
  <2>. HIDE DEF k
  <2>. QED
    BY <1>1, <2>1
<1>. QED
  BY <1>2, <1>3 DEF Held, RunsIn

-----------------------------------------------------------------------------
(* The steps the operations share *)

LEMMA StateOfLemma ==
    ASSUME NEW x \in Context
    PROVE  /\ StateOf(x) \in {"absent", "init", "waiting", "idle"} \cup Terminal
           /\ x.state = "idle" => StateOf(x) \in {"waiting", "idle", "error"}
           /\ StateOf(x) = "idle" <=> x.state = "idle" /\ ~x.errno /\ x.waits = 0
           /\ StateOf(x) = "waiting" <=> x.state = "idle" /\ ~x.errno /\ x.waits > 0
           /\ StateOf(x) = "init" <=> x.state = "init" /\ ~x.errno
           /\ StateOf(x) \in Terminal <=> x.errno \/ x.state \in Terminal
           /\ x.waits \in Nat /\ x.commits \in Nat /\ x.left \in Nat
BY LimitAssumption DEF Context, StateOf, Terminal

\* logic_context_execute.
LEMMA BeginLemma ==
    ASSUME NEW c \in Ctx, NEW cx \in [Ctx -> Context], cx[c].state = "idle",
           NEW fs, FramesOK(fs), fs # <<>>, ~RunsIn(fs, c),
           NEW pend \in Seq(Ctx), IsInjective(pend), Begin(c, cx, fs, pend)
    PROVE  /\ FramesOK(frames')
           /\ \A d \in Ctx : RunsIn(frames', d) <=> RunsIn(fs, d) \/ (cx[c].left > 0 /\ d = c)
           /\ pending' \in Seq(Ctx) /\ IsInjective(pending')
           /\ Members(pending') = Members(pend) \ {c}
<1>. DEFINE f == OpFrame(c, cx[c])
<1>1. f \in Frame /\ f.kind = "op" /\ f.ctx = c
  <2>1. StateOf(cx[c]) \in {"waiting", "idle", "error"}
    BY StateOfLemma
  <2>2. 0 \in 0..MaxCalls
    BY LimitAssumption
  <2>. QED
    BY <2>1, <2>2 DEF OpFrame, Frame
<1>2. pending' = Removed(pend, c) /\ frames' = IF cx[c].left > 0 THEN Append(fs, f) ELSE fs
  BY DEF Begin
<1>. HIDE DEF f
<1>3. /\ Removed(pend, c) \in Seq(Ctx) /\ IsInjective(Removed(pend, c))
      /\ Members(Removed(pend, c)) = Members(pend) \ {c}
  BY RemovedLemma
<1>4. /\ FramesOK(Append(fs, f))
      /\ \A d \in Ctx : RunsIn(Append(fs, f), d) <=> RunsIn(fs, d) \/ (f.kind = "op" /\ f.ctx = d)
  BY <1>1, PushedLemma
<1>. QED
  BY <1>1, <1>2, <1>3, <1>4

LEMMA CommitPushed ==
    ASSUME NEW c \in Ctx, NEW fs, FramesOK(fs), fs # <<>>
    PROVE  /\ FramesOK(Append(fs, CommitFrame(c)))
           /\ \A d \in Ctx : RunsIn(Append(fs, CommitFrame(c)), d) <=> RunsIn(fs, d)
<1>1. ASSUME NEW f, f = CommitFrame(c)
      PROVE  FramesOK(Append(fs, f)) /\ \A d \in Ctx : RunsIn(Append(fs, f), d) <=> RunsIn(fs, d)
  <2>1. f \in Frame /\ f.kind = "commit"
    BY <1>1, LimitAssumption DEF CommitFrame, Frame
  <2>2. f.kind # "op"
    BY <2>1
  <2>. QED
    BY <2>1, <2>2, PushedLemma
<1>. QED
  BY <1>1

\* A context in the middle of an operation, before its change of state is looked at.
MidOK(x, old, run, pend, behind, linked, apart) ==
    /\ x.commits <= 1
    /\ x.commits = 1 => ~run /\ old \in Terminal /\ StateOf(x) \in Terminal
    /\ x.state \in {"idle"} \cup Terminal
    /\ run \/ x.waits > 0 \/ x.state = "idle" => ~pend /\ ~behind
    /\ behind => ~pend
    /\ old \notin UpToIdle => StateOf(x) # "idle"
    /\ x.state = "idle" /\ ~x.errno => x.left > 0
    /\ apart => x.commits = 1 /\ x.waits = 0 /\ ~behind

\* logic_context_do_state_change restores what holds between operations.
LEMMA StateChangeLemma ==
    ASSUME NEW R, NEW c \in Ctx, NEW old, NEW cx \in [Ctx -> Context], NEW fs,
           FramesOK(fs), fs # <<>>, ListsOK(pending, queues),
           \A d \in Ctx \ {c} :
              ContextOK(cx[d], RunsIn(fs, d), d \in Members(pending), Behind(queues, d), Linked(queues, d), d \in R),
           MidOK(cx[c], old, RunsIn(fs, c), c \in Members(pending), Behind(queues, c), Linked(queues, c), c \in R),
           StateChange(c, old, cx, fs)
    PROVE  /\ ctx' \in [Ctx -> Context]
           /\ \A d \in Ctx : ctx'[d].waits = cx[d].waits /\ ctx'[d].state = cx[d].state
           /\ FramesOK(frames')
           /\ ListsOK(pending', queues)
           /\ AllOK(R, ctx', frames', pending', queues)
<1>. DEFINE x   == cx[c]
            cur == StateOf(x)
<1>1. /\ x \in Context
      /\ pending \in Seq(Ctx) /\ IsInjective(pending)
  BY DEF ListsOK
<1>2. /\ cur \in {"absent", "init", "waiting", "idle"} \cup Terminal
      /\ cur = "idle" <=> x.state = "idle" /\ ~x.errno /\ x.waits = 0
      /\ cur = "waiting" <=> x.state = "idle" /\ ~x.errno /\ x.waits > 0
      /\ cur = "init" <=> x.state = "init" /\ ~x.errno
      /\ cur \in Terminal <=> x.errno \/ x.state \in Terminal
      /\ x.waits \in Nat /\ x.commits \in Nat /\ x.left \in Nat
  BY <1>1, StateOfLemma
<1>3. x.state \in {"idle"} \cup Terminal /\ x.state # "absent" /\ x.state # "init"
  BY DEF MidOK, Terminal
<1>4. CASE Quiet(c, old, cur, fs) /\ ctx' = cx /\ frames' = fs /\ pending' = pending
  <2>1. ContextOK(x, RunsIn(fs, c), c \in Members(pending), Behind(queues, c), Linked(queues, c), c \in R)
    <3>1. ~(cur \in {"init", "idle"} /\ ~RunsIn(fs, c))
      BY <1>2, <1>3, <1>4 DEF Quiet, MidOK, Terminal, UnderIdle
    <3>. QED
      BY <1>2, <1>3, <3>1 DEF MidOK, ContextOK
  <2>. QED
    BY <1>4, <2>1 DEF AllOK
<1>5. CASE /\ ~Quiet(c, old, cur, fs) /\ cur = "idle"
           /\ ctx' = cx /\ Begin(c, cx, fs, pending)
  <2>1. x.state = "idle" /\ x.left > 0 /\ ~RunsIn(fs, c) /\ x.commits = 0
    BY <1>2, <1>5 DEF MidOK, Quiet, Terminal
  <2>2. /\ FramesOK(frames')
        /\ \A d \in Ctx : RunsIn(frames', d) <=> RunsIn(fs, d) \/ (x.left > 0 /\ d = c)
        /\ pending' \in Seq(Ctx) /\ IsInjective(pending')
        /\ Members(pending') = Members(pending) \ {c}
    BY <1>1, <1>5, <2>1, BeginLemma
  <2>3. ContextOK(x, RunsIn(frames', c), c \in Members(pending'), Behind(queues, c), Linked(queues, c), c \in R)
    BY <1>2, <1>3, <2>1, <2>2 DEF MidOK, ContextOK
  <2>4. \A d \in Ctx \ {c} :
           ContextOK(cx[d], RunsIn(frames', d), d \in Members(pending'), Behind(queues, d), Linked(queues, d), d \in R)
    BY <2>2 DEF ContextOK
  <2>. QED
    BY <1>5, <2>2, <2>3, <2>4 DEF AllOK, ListsOK
<1>6. CASE /\ ~Quiet(c, old, cur, fs) /\ cur = "idle"
           /\ ctx' = cx /\ frames' = fs /\ pending' = Requeued(pending, c)
  <2>1. x.state = "idle" /\ x.waits = 0 /\ ~RunsIn(fs, c) /\ x.commits = 0
    BY <1>2, <1>6 DEF MidOK, Quiet, Terminal
  <2>2. /\ pending' \in Seq(Ctx) /\ IsInjective(pending')
        /\ Members(pending') = Members(pending) \cup {c}
    BY <1>1, <1>6, RequeuedLemma
  <2>3. ContextOK(x, RunsIn(fs, c), c \in Members(pending'), Behind(queues, c), Linked(queues, c), c \in R)
    BY <1>2, <1>3, <2>1, <2>2 DEF MidOK, ContextOK
  <2>4. \A d \in Ctx \ {c} :
           ContextOK(cx[d], RunsIn(fs, d), d \in Members(pending'), Behind(queues, d), Linked(queues, d), d \in R)
    BY <2>2 DEF ContextOK
  <2>. QED
    BY <1>6, <2>2, <2>3, <2>4 DEF AllOK, ListsOK
<1>7. CASE /\ ~Quiet(c, old, cur, fs) /\ cur \in Terminal
           /\ ctx' = [cx EXCEPT ![c].commits = @ + 1]
           /\ frames' = Append(fs, CommitFrame(c)) /\ pending' = pending
  <2>. DEFINE y == [x EXCEPT !.commits = 1]
  <2>1. x.commits = 0 /\ ~RunsIn(fs, c)
    BY <1>2, <1>7 DEF MidOK, Quiet, UpToIdle, Terminal
  <2>2. /\ y \in Context /\ y.commits = 1 /\ y.state = x.state /\ y.waits = x.waits
        /\ y.left = x.left /\ y.errno = x.errno
    BY <1>1, <2>1 DEF Context
  <2>3. StateOf(y) = cur
    BY <2>2 DEF StateOf
  <2>4. ctx' = [cx EXCEPT ![c] = y]
    <3>1. x.commits + 1 = 1
      BY <2>1
    <3>. QED
      BY <1>7, <3>1
  <2>. HIDE DEF y
  <2>5. FramesOK(frames') /\ \A d \in Ctx : RunsIn(frames', d) <=> RunsIn(fs, d)
    BY <1>7, CommitPushed
  <2>7. ContextOK(y, RunsIn(frames', c), c \in Members(pending), Behind(queues, c), Linked(queues, c), c \in R)
    BY <1>2, <1>3, <1>7, <2>1, <2>2, <2>3, <2>5 DEF MidOK, ContextOK, Terminal
  <2>8. \A d \in Ctx \ {c} :
           ContextOK(cx[d], RunsIn(frames', d), d \in Members(pending), Behind(queues, d), Linked(queues, d), d \in R)
    BY <2>5 DEF ContextOK
  <2>9. \A d \in Ctx : ctx'[d] = IF d = c THEN y ELSE cx[d]
    BY <2>4
  <2>10. AllOK(R, ctx', frames', pending', queues)
    BY <1>7, <2>7, <2>8, <2>9 DEF AllOK
  <2>. QED
    BY <1>7, <2>2, <2>4, <2>5, <2>9, <2>10
<1>. QED
  BY <1>4, <1>5, <1>6, <1>7 DEF StateChange

-----------------------------------------------------------------------------
(* The requires *)

LEMMA RequireLemma ==
    ASSUME NEW rq \in [Req -> Require \cup {NoRequire}], NEW r \in Req
    PROVE  /\ rq[r] # NoRequire => rq[r].of \in Ctx /\ rq[r].state \in {"waiting"} \cup Resolved
           /\ rq[r].state \in {"waiting"} \cup Resolved => rq[r] # NoRequire
           /\ \A c \in Ctx : rq[r] = [state |-> "waiting", of |-> c] <=> rq[r].state = "waiting" /\ rq[r].of = c
           /\ \A c \in Ctx : rq[r].of = c => rq[r] # NoRequire
BY NoneAssumption DEF Require, NoRequire, Resolved

LEMMA WaitingFinite ==
    ASSUME NEW rq, NEW c
    PROVE  IsFiniteSet(WaitingOf(rq, c)) /\ Cardinality(WaitingOf(rq, c)) \in Nat
<1>1. WaitingOf(rq, c) \subseteq Req
  BY DEF WaitingOf
<1>. QED
  BY <1>1, RequireAssumption, FS_Subset, FS_CardinalityType

\* What RequiresOK asks of the contexts is their counts, and that they are alive.
LEMMA RequiresKept ==
    ASSUME NEW rq, NEW cx, NEW cy, RequiresOK(rq, cx),
           \A c \in Ctx : cy[c].waits = cx[c].waits /\ (cx[c].state # "absent" => cy[c].state # "absent")
    PROVE  RequiresOK(rq, cy)
BY RequireLemma DEF RequiresOK

\* A require that waited does so no more.
LEMMA ResolvedLemma ==
    ASSUME RequiresOK(req, ctx), ctx \in [Ctx -> Context],
           NEW r \in Req, req[r].state = "waiting",
           NEW rq \in [Req -> Require \cup {NoRequire}],
           rq[r] = NoRequire \/ (rq[r].of = req[r].of /\ rq[r].state # "waiting"),
           \A s \in Req \ {r} : rq[s] = req[s],
           NEW cx, \A d \in Ctx : cx[d].state = ctx[d].state,
           \A d \in Ctx : cx[d].waits = IF d = req[r].of THEN ctx[d].waits - 1 ELSE ctx[d].waits
    PROVE  /\ req[r].of \in Ctx /\ ctx[req[r].of].waits > 0
           /\ ctx[req[r].of].state # "absent"
           /\ RequiresOK(rq, cx)
<1>. DEFINE c == req[r].of
<1>1. req \in [Req -> Require \cup {NoRequire}] /\ \A d \in Ctx : ctx[d].waits = Cardinality(WaitingOf(req, d))
  BY DEF RequiresOK
<1>2. c \in Ctx /\ req[r] # NoRequire /\ req[r] = [state |-> "waiting", of |-> c]
  <2>1. req[r] # NoRequire
    BY DEF NoRequire
  <2>2. req[r] \in Require
    BY <1>1, <2>1
  <2>. QED
    BY <2>1, <2>2 DEF Require
<1>3. ctx[c].state # "absent"
  BY <1>2 DEF RequiresOK
<1>4. r \in WaitingOf(req, c)
  BY <1>2 DEF WaitingOf
<1>5. \A d \in Ctx : rq[r] # [state |-> "waiting", of |-> d]
  BY RequireLemma DEF NoRequire
<1>6. WaitingOf(rq, c) = WaitingOf(req, c) \ {r}
  BY <1>2, <1>5 DEF WaitingOf
<1>7. \A d \in Ctx \ {c} : WaitingOf(rq, d) = WaitingOf(req, d)
  BY <1>2, <1>5 DEF WaitingOf
<1>8. /\ Cardinality(WaitingOf(rq, c)) = Cardinality(WaitingOf(req, c)) - 1
      /\ Cardinality(WaitingOf(rq, c)) \in Nat /\ Cardinality(WaitingOf(req, c)) \in Nat
  <2>1. IsFiniteSet(WaitingOf(req, c)) /\ Cardinality(WaitingOf(req, c)) \in Nat /\ Cardinality(WaitingOf(rq, c)) \in Nat
    BY WaitingFinite
  <2>2. Cardinality(WaitingOf(req, c) \ {r}) = Cardinality(WaitingOf(req, c)) - 1
    BY <1>4, <2>1, FS_RemoveElement
  <2>. QED
    BY <1>6, <2>1, <2>2
<1>9. ctx[c].waits > 0
  BY <1>1, <1>2, <1>8
<1>10. \A d \in Ctx : cx[d].waits = Cardinality(WaitingOf(rq, d))
  BY <1>1, <1>7, <1>8
<1>11. \A s \in Req : rq[s] # NoRequire => rq[s].of = req[s].of /\ req[s] # NoRequire
  BY <1>2
<1>12. \A s \in Req : rq[s] # NoRequire => cx[rq[s].of].state # "absent"
  BY <1>1, <1>11, RequireLemma DEF RequiresOK
<1>. QED
  BY <1>2, <1>3, <1>9, <1>10, <1>12 DEF RequiresOK

\* All that waited for c are canceled.
LEMMA PoppedLemma ==
    ASSUME RequiresOK(req, ctx), NEW c \in Ctx,
           NEW cx, \A d \in Ctx : ctx[d].state # "absent" => cx[d].state # "absent",
           \A d \in Ctx : cx[d].waits = IF d = c THEN 0 ELSE ctx[d].waits
    PROVE  RequiresOK(ReqPopped(c), cx)
<1>. DEFINE rq == ReqPopped(c)
<1>1. req \in [Req -> Require \cup {NoRequire}] /\ \A d \in Ctx : ctx[d].waits = Cardinality(WaitingOf(req, d))
  BY DEF RequiresOK
<1>2. \A r \in Req : rq[r] = IF req[r].of = c /\ req[r].state = "waiting"
                            THEN [req[r] EXCEPT !.state = "canceled"] ELSE req[r]
  BY DEF ReqPopped
<1>3. ASSUME NEW r \in Req, req[r].of = c, req[r].state = "waiting"
      PROVE  rq[r] = [state |-> "canceled", of |-> c] /\ rq[r] \in Require /\ rq[r] # NoRequire
  <2>1. req[r] \in Require
    BY <1>1, <1>3, RequireLemma
  <2>2. [req[r] EXCEPT !.state = "canceled"] = [state |-> "canceled", of |-> c]
    BY <1>3, <2>1 DEF Require
  <2>3. [state |-> "canceled", of |-> c] \in Require
    BY DEF Require, Resolved
  <2>4. [state |-> "canceled", of |-> c] # NoRequire
    BY DEF NoRequire
  <2>. QED
    BY <1>2, <1>3, <2>2, <2>3, <2>4
<1>4. \A r \in Req : ~(req[r].of = c /\ req[r].state = "waiting") => rq[r] = req[r]
  BY <1>2
<1>5. rq \in [Req -> Require \cup {NoRequire}]
  <2>1. \A r \in Req : rq[r] \in Require \cup {NoRequire}
    BY <1>1, <1>3, <1>4
  <2>. QED
    BY <2>1 DEF ReqPopped
<1>. HIDE DEF rq
<1>6. WaitingOf(rq, c) = {}
  <2>1. SUFFICES ASSUME NEW r \in Req, rq[r] = [state |-> "waiting", of |-> c] PROVE FALSE
    BY DEF WaitingOf
  <2>. QED
    BY <1>3, <1>4, <2>1
<1>7. ASSUME NEW d \in Ctx, d # c PROVE WaitingOf(rq, d) = WaitingOf(req, d)
  <2>1. \A r \in Req : rq[r] = [state |-> "waiting", of |-> d] <=> req[r] = [state |-> "waiting", of |-> d]
    BY <1>3, <1>4, <1>7
  <2>. QED
    BY <2>1 DEF WaitingOf
<1>8. \A d \in Ctx : cx[d].waits = Cardinality(WaitingOf(rq, d))
  BY <1>1, <1>6, <1>7, FS_EmptySet
<1>9. \A r \in Req : rq[r] # NoRequire => cx[rq[r].of].state # "absent"
  <2>1. TAKE r \in Req
  <2>2. CASE req[r].of = c /\ req[r].state = "waiting"
    BY <1>1, <1>3, <2>2, RequireLemma DEF RequiresOK
  <2>3. CASE ~(req[r].of = c /\ req[r].state = "waiting")
    BY <1>1, <1>4, <2>3, RequireLemma DEF RequiresOK
  <2>. QED
    BY <2>2, <2>3
<1>. QED
  BY <1>5, <1>8, <1>9 DEF RequiresOK, rq

\* All requires of c are gone, and c is.
LEMMA ReleasedLemma ==
    ASSUME RequiresOK(req, ctx), NEW c \in Ctx, ctx \in [Ctx -> Context],
           NEW cx, cx = [ctx EXCEPT ![c] = Absent],
           NEW rq, rq = [r \in Req |-> IF req[r].of = c THEN NoRequire ELSE req[r]]
    PROVE  RequiresOK(rq, cx)
<1>1. req \in [Req -> Require \cup {NoRequire}] /\ \A d \in Ctx : ctx[d].waits = Cardinality(WaitingOf(req, d))
  BY DEF RequiresOK
<1>2. \A r \in Req : rq[r] = IF req[r].of = c THEN NoRequire ELSE req[r]
  OBVIOUS
<1>3. rq \in [Req -> Require \cup {NoRequire}]
  BY <1>1
<1>4. \A d \in Ctx : NoRequire # [state |-> "waiting", of |-> d]
  BY DEF NoRequire
<1>5. \A d \in Ctx : cx[d] = IF d = c THEN Absent ELSE ctx[d]
  OBVIOUS
<1>6. WaitingOf(rq, c) = {}
  <2>1. SUFFICES ASSUME NEW r \in Req, rq[r] = [state |-> "waiting", of |-> c] PROVE FALSE
    BY DEF WaitingOf
  <2>2. req[r].of # c
    BY <1>2, <1>4, <2>1
  <2>. QED
    BY <1>2, <2>1, <2>2
<1>7. ASSUME NEW d \in Ctx, d # c PROVE WaitingOf(rq, d) = WaitingOf(req, d)
  <2>1. \A r \in Req : rq[r] = [state |-> "waiting", of |-> d] <=> req[r] = [state |-> "waiting", of |-> d]
    BY <1>2, <1>4, <1>7
  <2>. QED
    BY <2>1 DEF WaitingOf
<1>8. \A d \in Ctx : cx[d].waits = Cardinality(WaitingOf(rq, d))
  <2>1. Absent.waits = 0
    BY DEF Absent
  <2>. QED
    BY <1>1, <1>5, <1>6, <1>7, <2>1, FS_EmptySet
<1>9. \A r \in Req : rq[r] # NoRequire => cx[rq[r].of].state # "absent"
  <2>1. SUFFICES ASSUME NEW r \in Req, rq[r] # NoRequire PROVE cx[rq[r].of].state # "absent"
    OBVIOUS
  <2>2. rq[r] = req[r] /\ req[r].of # c /\ req[r].of \in Ctx
    BY <1>1, <1>2, <2>1, RequireLemma
  <2>. QED
    BY <1>5, <2>1, <2>2 DEF RequiresOK
<1>. QED
  BY <1>3, <1>8, <1>9 DEF RequiresOK

\* A new one waits for c.
LEMMA CreatedLemma ==
    ASSUME RequiresOK(req, ctx), NEW c \in Ctx, ctx[c].state # "absent",
           NEW r \in Req, req[r] = NoRequire,
           NEW rq, rq = [req EXCEPT ![r] = [state |-> "waiting", of |-> c]],
           NEW cx, \A d \in Ctx : cx[d].state = ctx[d].state,
           \A d \in Ctx : cx[d].waits = IF d = c THEN ctx[d].waits + 1 ELSE ctx[d].waits
    PROVE  RequiresOK(rq, cx)
<1>. DEFINE new == [state |-> "waiting", of |-> c]
<1>1. req \in [Req -> Require \cup {NoRequire}] /\ \A d \in Ctx : ctx[d].waits = Cardinality(WaitingOf(req, d))
  BY DEF RequiresOK
<1>2. new \in Require /\ \A d \in Ctx : new = [state |-> "waiting", of |-> d] <=> d = c
  BY DEF Require
<1>3. \A s \in Req : rq[s] = IF s = r THEN new ELSE req[s]
  BY <1>1
<1>4. rq \in [Req -> Require \cup {NoRequire}]
  BY <1>1, <1>2
<1>5. new.of = c
  OBVIOUS
<1>. HIDE DEF new
<1>6. \A d \in Ctx : req[r] # [state |-> "waiting", of |-> d]
  BY DEF NoRequire
<1>7. WaitingOf(rq, c) = WaitingOf(req, c) \cup {r} /\ r \notin WaitingOf(req, c)
  BY <1>2, <1>3, <1>6 DEF WaitingOf
<1>8. \A d \in Ctx \ {c} : WaitingOf(rq, d) = WaitingOf(req, d)
  BY <1>2, <1>3, <1>6 DEF WaitingOf
<1>9. Cardinality(WaitingOf(rq, c)) = Cardinality(WaitingOf(req, c)) + 1
  BY <1>7, WaitingFinite, FS_AddElement
<1>10. \A d \in Ctx : cx[d].waits = Cardinality(WaitingOf(rq, d))
  BY <1>1, <1>8, <1>9
<1>11. \A s \in Req : rq[s] # NoRequire => cx[rq[s].of].state # "absent"
  BY <1>1, <1>3, <1>5, RequireLemma DEF RequiresOK
<1>. QED
  BY <1>4, <1>10, <1>11 DEF RequiresOK

-----------------------------------------------------------------------------
(* The lists, when a context leaves its queue or joins one *)

\* A queue has one head, and one that is woken for it.
LEMMA WokenLemma ==
    ASSUME ListsOK(pending, queues), NEW c \in Ctx
    PROVE  /\ PendingAfterLeaving(c) \in Seq(Ctx) /\ IsInjective(PendingAfterLeaving(c))
           /\ Members(PendingAfterLeaving(c)) = Members(pending) \cup Woken(c)
           /\ \A n \in Woken(c) : n \in Ctx /\ n # c /\ Behind(queues, n) /\ Linked(queues, n)
           /\ Behind(queues, c) => Woken(c) = {}
<1>1. ASSUME NEW q \in Queue
      PROVE  /\ queues[q] \in Seq(Ctx) /\ Len(queues[q]) \in Nat
             /\ \A i, j \in 1..Len(queues[q]) : queues[q][i] = queues[q][j] => i = j
  BY QueueLemma DEF ListsOK
<1>2. ASSUME NEW q \in Queue, Len(queues[q]) > 1
      PROVE  /\ queues[q][1] \in Members(queues[q])
             /\ queues[q][2] \in Members(queues[q]) /\ queues[q][2] \in Rear(queues[q])
             /\ queues[q][1] # queues[q][2]
  <2>1. 1 \in 1..Len(queues[q]) /\ 2 \in 1..Len(queues[q]) /\ 2 \in 2..Len(queues[q])
    BY <1>1, <1>2
  <2>. QED
    BY <1>1, <2>1 DEF Members, Rear
<1>3. \A p, q \in Queue : p # q => Members(queues[p]) \cap Members(queues[q]) = {}
  BY DEF ListsOK
<1>4. \A n \in Woken(c) : n \in Ctx /\ n # c /\ Behind(queues, n) /\ Linked(queues, n)
  BY <1>2 DEF Woken, Behind, Linked
<1>5. \A m, n \in Woken(c) : m = n
  <2>1. SUFFICES ASSUME NEW m \in Woken(c), NEW n \in Woken(c) PROVE m = n
    OBVIOUS
  <2>2. PICK p \in Queue : Len(queues[p]) > 1 /\ queues[p][1] = c /\ queues[p][2] = m
    BY DEF Woken
  <2>3. PICK q \in Queue : Len(queues[q]) > 1 /\ queues[q][1] = c /\ queues[q][2] = n
    BY DEF Woken
  <2>4. c \in Members(queues[p]) /\ c \in Members(queues[q])
    BY <1>2, <2>2, <2>3
  <2>5. p = q
    BY <1>3, <2>4
  <2>. QED
    BY <2>2, <2>3, <2>5
<1>6. pending \in Seq(Ctx) /\ IsInjective(pending)
  BY DEF ListsOK
<1>7. /\ PendingAfterLeaving(c) \in Seq(Ctx) /\ IsInjective(PendingAfterLeaving(c))
      /\ Members(PendingAfterLeaving(c)) = Members(pending) \cup Woken(c)
  <2>1. CASE Woken(c) = {}
    BY <1>6, <2>1 DEF PendingAfterLeaving
  <2>2. CASE Woken(c) # {}
    <3>. DEFINE n == CHOOSE n \in Woken(c) : TRUE
    <3>1. n \in Woken(c)
      BY <2>2
    <3>2. PendingAfterLeaving(c) = Requeued(pending, n)
      BY <2>2 DEF PendingAfterLeaving
    <3>. HIDE DEF n
    <3>3. n \in Ctx /\ Woken(c) = {n}
      BY <1>4, <1>5, <3>1
    <3>4. /\ Requeued(pending, n) \in Seq(Ctx) /\ IsInjective(Requeued(pending, n))
          /\ Members(Requeued(pending, n)) = Members(pending) \cup {n}
      BY <1>6, <3>3, RequeuedLemma
    <3>. QED
      BY <3>2, <3>3, <3>4
  <2>. QED
    BY <2>1, <2>2
<1>8. ASSUME Behind(queues, c), NEW n \in Woken(c) PROVE FALSE
  <2>1. PICK p \in Queue : c \in Rear(queues[p])
    BY <1>8 DEF Behind
  <2>2. PICK i \in 2..Len(queues[p]) : queues[p][i] = c
    BY <2>1 DEF Rear
  <2>3. i \in 1..Len(queues[p]) /\ i # 1
    BY <1>1
  <2>4. c \in Members(queues[p])
    BY <2>2, <2>3 DEF Members
  <2>5. PICK q \in Queue : Len(queues[q]) > 1 /\ queues[q][1] = c
    BY DEF Woken
  <2>6. p = q
    <3>1. c \in Members(queues[q])
      BY <1>2, <2>5
    <3>. QED
      BY <1>3, <2>4, <3>1
  <2>7. 1 \in 1..Len(queues[q])
    BY <1>1, <2>5
  <2>. QED
    BY <1>1, <2>2, <2>3, <2>5, <2>6, <2>7
<1>. QED
  BY <1>4, <1>7, <1>8

LEMMA QueuesLeft ==
    ASSUME ListsOK(pending, queues), NEW c \in Ctx,
           NEW pend \in Seq(Ctx), IsInjective(pend),
           NEW qs, qs = [q \in Queue |-> Removed(queues[q], c)]
    PROVE  /\ ListsOK(pend, qs)
           /\ \A d \in Ctx : Linked(qs, d) <=> Linked(queues, d) /\ d # c
           /\ \A d \in Ctx : Behind(qs, d) <=> Behind(queues, d) /\ d # c /\ d \notin Woken(c)
<1>1. ASSUME NEW q \in Queue
      PROVE  /\ qs[q] \in Seq(Ctx) /\ IsInjective(qs[q])
             /\ Members(qs[q]) = Members(queues[q]) \ {c}
             /\ Rear(qs[q]) = {x \in Rear(queues[q]) :
                                  x # c /\ ~(Len(queues[q]) > 1 /\ queues[q][1] = c /\ queues[q][2] = x)}
  <2>1. queues[q] \in Seq(Ctx) /\ IsInjective(queues[q])
    BY DEF ListsOK
  <2>2. qs[q] = Removed(queues[q], c)
    OBVIOUS
  <2>. QED
    BY <2>1, <2>2, RemovedLemma
<1>2. \A p, q \in Queue : p # q => Members(queues[p]) \cap Members(queues[q]) = {}
  BY DEF ListsOK
<1>3. ListsOK(pend, qs)
  <2>1. qs \in [Queue -> Seq(Ctx)]
    BY <1>1
  <2>2. \A p, q \in Queue : p # q => Members(qs[p]) \cap Members(qs[q]) = {}
    BY <1>1, <1>2
  <2>. QED
    BY <1>1, <2>1, <2>2 DEF ListsOK
<1>4. \A d \in Ctx : Linked(qs, d) <=> Linked(queues, d) /\ d # c
  BY <1>1 DEF Linked
<1>5. ASSUME NEW d \in Ctx, Behind(qs, d) PROVE Behind(queues, d) /\ d # c /\ d \notin Woken(c)
  <2>1. PICK q \in Queue : d \in Rear(qs[q])
    BY <1>5 DEF Behind
  <2>2. /\ d \in Rear(queues[q]) /\ d # c
        /\ ~(Len(queues[q]) > 1 /\ queues[q][1] = c /\ queues[q][2] = d)
    BY <1>1, <2>1
  <2>3. ASSUME NEW p \in Queue, Len(queues[p]) > 1, queues[p][1] = c, queues[p][2] = d PROVE FALSE
    <3>1. queues[p] \in Seq(Ctx) /\ queues[q] \in Seq(Ctx)
      BY DEF ListsOK
    <3>2. Rear(queues[q]) \subseteq Members(queues[q]) /\ Len(queues[p]) \in Nat
      BY <3>1, QueueLemma
    <3>3. 2 \in 1..Len(queues[p])
      BY <2>3, <3>2
    <3>4. d \in Members(queues[p]) /\ d \in Members(queues[q])
      BY <2>2, <2>3, <3>2, <3>3 DEF Members
    <3>5. p = q
      BY <1>2, <3>4
    <3>. QED
      BY <2>2, <2>3, <3>5
  <2>4. d \notin Woken(c)
    BY <2>3 DEF Woken
  <2>. QED
    BY <2>2, <2>4 DEF Behind
<1>6. ASSUME NEW d \in Ctx, Behind(queues, d), d # c, d \notin Woken(c) PROVE Behind(qs, d)
  <2>1. PICK q \in Queue : d \in Rear(queues[q])
    BY <1>6 DEF Behind
  <2>2. ~(Len(queues[q]) > 1 /\ queues[q][1] = c /\ queues[q][2] = d)
    BY <1>6 DEF Woken
  <2>3. d \in Rear(qs[q])
    BY <1>1, <1>6, <2>1, <2>2
  <2>. QED
    BY <2>3 DEF Behind
<1>. QED
  BY <1>3, <1>4, <1>5, <1>6

LEMMA QueuesJoined ==
    ASSUME ListsOK(pending, queues), NEW c \in Ctx, ~Linked(queues, c), NEW q \in Queue,
           NEW list \in Seq(Ctx), IsInjective(list),
           Members(list) = Members(queues[q]) \cup {c},
           Rear(list) = IF list[1] = c THEN Rear(queues[q]) ELSE Rear(queues[q]) \cup {c},
           NEW pend \in Seq(Ctx), IsInjective(pend),
           NEW qs, qs = [queues EXCEPT ![q] = list]
    PROVE  /\ ListsOK(pend, qs)
           /\ \A d \in Ctx : Linked(qs, d) <=> Linked(queues, d) \/ d = c
           /\ \A d \in Ctx : Behind(qs, d) <=> Behind(queues, d) \/ (d = c /\ list[1] # c)
<1>1. queues \in [Queue -> Seq(Ctx)]
  BY DEF ListsOK
<1>2. qs \in [Queue -> Seq(Ctx)] /\ qs[q] = list /\ \A p \in Queue \ {q} : qs[p] = queues[p]
  BY <1>1
<1>3. \A p \in Queue : c \notin Members(queues[p])
  BY DEF Linked
<1>4. \A p, r \in Queue : p # r => Members(queues[p]) \cap Members(queues[r]) = {}
  BY DEF ListsOK
<1>5. \A p, r \in Queue : p # r => Members(qs[p]) \cap Members(qs[r]) = {}
  <2>1. SUFFICES ASSUME NEW p \in Queue, NEW r \in Queue, p # r
                 PROVE  Members(qs[p]) \cap Members(qs[r]) = {}
    OBVIOUS
  <2>2. CASE p = q
    BY <1>2, <1>3, <1>4, <2>1, <2>2
  <2>3. CASE r = q
    BY <1>2, <1>3, <1>4, <2>1, <2>3
  <2>4. CASE p # q /\ r # q
    BY <1>2, <1>4, <2>1, <2>4
  <2>. QED
    BY <2>2, <2>3, <2>4
<1>6. \A p \in Queue : IsInjective(qs[p])
  BY <1>2 DEF ListsOK
<1>7. ListsOK(pend, qs)
  BY <1>2, <1>5, <1>6 DEF ListsOK
<1>8. \A d \in Ctx : Linked(qs, d) <=> Linked(queues, d) \/ d = c
  BY <1>2 DEF Linked
<1>9. \A d \in Ctx : Behind(qs, d) <=> Behind(queues, d) \/ (d = c /\ list[1] # c)
  BY <1>2 DEF Behind
<1>. QED
  BY <1>7, <1>8, <1>9

-----------------------------------------------------------------------------
(* The steps.  First those that several actions end with. *)

\* A call that changes one context, and no list.
LEMMA CallStep ==
    ASSUME NEW R, IInv(R), MayCall, frames' = Called, pending' = pending, queues' = queues, tickLeft' = tickLeft,
           NEW c \in Ctx, NEW x \in Context, ctx' = [ctx EXCEPT ![c] = x], RequiresOK(req', ctx'),
           ContextOK(x, RunsIn(frames, c), c \in Members(pending), Behind(queues, c), Linked(queues, c), c \in R)
    PROVE  IInv(R)'
<1>1. ctx \in [Ctx -> Context] /\ ListsOK(pending, queues) /\ FramesOK(frames) /\ tickLeft \in 0..TickMax
  BY DEF IInv
<1>2. \A d \in Ctx :
         ContextOK(ctx[d], RunsIn(frames, d), d \in Members(pending), Behind(queues, d), Linked(queues, d), d \in R)
  BY DEF IInv, AllOK
<1>3. FramesOK(frames') /\ \A d \in Ctx : RunsIn(frames', d) <=> RunsIn(frames, d)
  BY <1>1, CalledLemma
<1>4. ctx' \in [Ctx -> Context] /\ \A d \in Ctx : ctx'[d] = IF d = c THEN x ELSE ctx[d]
  BY <1>1
<1>5. AllOK(R, ctx', frames', pending', queues')
  <2>1. SUFFICES ASSUME NEW d \in Ctx
                 PROVE  ContextOK(ctx'[d], RunsIn(frames', d), d \in Members(pending), Behind(queues, d), Linked(queues, d), d \in R)
    BY DEF AllOK
  <2>2. CASE d = c
    BY <1>3, <1>4, <2>2 DEF ContextOK
  <2>3. CASE d # c
    BY <1>2, <1>3, <1>4, <2>3 DEF ContextOK
  <2>. QED
    BY <2>2, <2>3
<1>. QED
  BY <1>1, <1>3, <1>4, <1>5 DEF IInv

LEMMA ReleaseStep ==
    ASSUME NEW R, IInv(R), NEW c \in Ctx, NEW fs, FramesOK(fs),
           \A d \in Ctx : RunsIn(fs, d) <=> RunsIn(frames, d) /\ d # c,
           Release(c, fs), NEW S, S = R \ {c}
    PROVE  IInv(S)'
<1>1. /\ ctx \in [Ctx -> Context] /\ ListsOK(pending, queues) /\ RequiresOK(req, ctx)
      /\ tickLeft \in 0..TickMax
  BY DEF IInv
<1>2. \A d \in Ctx :
         ContextOK(ctx[d], RunsIn(frames, d), d \in Members(pending), Behind(queues, d), Linked(queues, d), d \in R)
  BY DEF IInv, AllOK
<1>3. /\ ctx' = [ctx EXCEPT ![c] = Absent] /\ frames' = fs /\ tickLeft' = tickLeft
      /\ req' = [r \in Req |-> IF req[r].of = c THEN NoRequire ELSE req[r]]
      /\ queues' = [q \in Queue |-> Removed(queues[q], c)]
      /\ pending' = Removed(PendingAfterLeaving(c), c)
  BY DEF Release
<1>4. Absent \in Context /\ Absent.state = "absent" /\ ~Absent.errno /\ Absent.waits = 0 /\ Absent.commits = 0
  BY LimitAssumption DEF Absent, Context
<1>5. ctx' \in [Ctx -> Context] /\ \A d \in Ctx : ctx'[d] = IF d = c THEN Absent ELSE ctx[d]
  BY <1>1, <1>3, <1>4
<1>6. RequiresOK(req', ctx')
  BY <1>1, <1>3, ReleasedLemma
<1>7. /\ PendingAfterLeaving(c) \in Seq(Ctx) /\ IsInjective(PendingAfterLeaving(c))
      /\ Members(PendingAfterLeaving(c)) = Members(pending) \cup Woken(c)
      /\ \A n \in Woken(c) : n \in Ctx /\ n # c /\ Behind(queues, n) /\ Linked(queues, n)
  BY <1>1, WokenLemma
<1>8. /\ pending' \in Seq(Ctx) /\ IsInjective(pending')
      /\ Members(pending') = (Members(pending) \cup Woken(c)) \ {c}
  BY <1>3, <1>7, RemovedLemma
<1>9. /\ ListsOK(pending', queues')
      /\ \A d \in Ctx : Linked(queues', d) <=> Linked(queues, d) /\ d # c
      /\ \A d \in Ctx : Behind(queues', d) <=> Behind(queues, d) /\ d # c /\ d \notin Woken(c)
  BY <1>1, <1>3, <1>8, QueuesLeft
<1>10. AllOK(S, ctx', frames', pending', queues')
  <2>1. SUFFICES ASSUME NEW d \in Ctx
                 PROVE  ContextOK(ctx'[d], RunsIn(frames', d), d \in Members(pending'),
                                  Behind(queues', d), Linked(queues', d), d \in S)
    BY DEF AllOK
  <2>2. CASE d = c
    <3>1. ~RunsIn(frames', d) /\ d \notin Members(pending') /\ ~Behind(queues', d) /\ ~Linked(queues', d)
      BY <1>3, <1>8, <1>9, <2>2
    <3>. QED
      BY <1>4, <1>5, <2>2, <3>1 DEF ContextOK, StateOf
  <2>3. CASE d \in Woken(c)
    <3>1. ctx'[d] = ctx[d] /\ Behind(queues, d) /\ Linked(queues, d) /\ d # c
      BY <1>5, <1>7, <2>3
    <3>2. /\ d \in Members(pending') /\ ~Behind(queues', d) /\ Linked(queues', d)
          /\ RunsIn(frames', d) <=> RunsIn(frames, d)
      BY <1>3, <1>8, <1>9, <2>3, <3>1
    <3>. QED
      BY <1>2, <3>1, <3>2 DEF ContextOK
  <2>4. CASE d # c /\ d \notin Woken(c)
    <3>1. /\ d \in Members(pending') <=> d \in Members(pending)
          /\ Behind(queues', d) <=> Behind(queues, d)
          /\ Linked(queues', d) <=> Linked(queues, d)
          /\ RunsIn(frames', d) <=> RunsIn(frames, d)
          /\ ctx'[d] = ctx[d]
          /\ d \in S <=> d \in R
      BY <1>3, <1>5, <1>8, <1>9, <2>4
    <3>. QED
      BY <1>2, <3>1 DEF ContextOK
  <2>. QED
    BY <2>2, <2>3, <2>4
<1>. QED
  BY <1>1, <1>3, <1>5, <1>6, <1>9, <1>10 DEF IInv

\* A change of state of c, once c is in the middle of its operation.
LEMMA ChangeStep ==
    ASSUME NEW R, IInv(R), NEW c \in Ctx, NEW old, NEW cx \in [Ctx -> Context], NEW fs, FramesOK(fs), fs # <<>>,
           \A d \in Ctx \ {c} : cx[d] = ctx[d] /\ (RunsIn(fs, d) <=> RunsIn(frames, d)),
           MidOK(cx[c], old, RunsIn(fs, c), c \in Members(pending), Behind(queues, c), Linked(queues, c), c \in R),
           StateChange(c, old, cx, fs), RequiresOK(req', cx),
           queues' = queues, tickLeft' = tickLeft
    PROVE  IInv(R)'
<1>1. ListsOK(pending, queues) /\ tickLeft \in 0..TickMax
  BY DEF IInv
<1>2. \A d \in Ctx \ {c} :
         ContextOK(cx[d], RunsIn(fs, d), d \in Members(pending), Behind(queues, d), Linked(queues, d), d \in R)
  <2>1. \A d \in Ctx \ {c} :
         ContextOK(ctx[d], RunsIn(frames, d), d \in Members(pending), Behind(queues, d), Linked(queues, d), d \in R)
    BY DEF IInv, AllOK
  <2>. QED
    BY <2>1 DEF ContextOK
<1>3. /\ ctx' \in [Ctx -> Context]
      /\ \A d \in Ctx : ctx'[d].waits = cx[d].waits /\ ctx'[d].state = cx[d].state
      /\ FramesOK(frames')
      /\ ListsOK(pending', queues)
      /\ AllOK(R, ctx', frames', pending', queues)
  BY <1>1, <1>2, StateChangeLemma
<1>4. RequiresOK(req', ctx')
  BY <1>3, RequiresKept
<1>. QED
  BY <1>1, <1>3, <1>4 DEF IInv

\* The invariant, taken apart for one context.
LEMMA PartsLemma ==
    ASSUME NEW R, IInv(R)
    PROVE  /\ ctx \in [Ctx -> Context] /\ RequiresOK(req, ctx) /\ ListsOK(pending, queues)
           /\ FramesOK(frames) /\ tickLeft \in 0..TickMax
           /\ req \in [Req -> Require \cup {NoRequire}]
           /\ pending \in Seq(Ctx) /\ IsInjective(pending)
           /\ \A d \in Ctx :
                 ContextOK(ctx[d], RunsIn(frames, d), d \in Members(pending), Behind(queues, d), Linked(queues, d), d \in R)
BY DEF IInv, AllOK, RequiresOK, ListsOK

-----------------------------------------------------------------------------
(* Contexts *)

\* A slot that is free is in no list, and no call is in progress for it.
LEMMA AbsentLemma ==
    ASSUME NEW R, IInv(R), NEW c \in Ctx, ctx[c].state = "absent"
    PROVE  /\ ~RunsIn(frames, c) /\ c \notin Members(pending) /\ ~Behind(queues, c) /\ ~Linked(queues, c)
           /\ ctx[c].waits = 0 /\ c \notin R
<1>1. Linked(queues, c) \/ ~Behind(queues, c)
  <2>1. \A q \in Queue : Rear(queues[q]) \subseteq Members(queues[q])
    BY PartsLemma, QueueLemma DEF ListsOK
  <2>. QED
    BY <2>1 DEF Behind, Linked
<1>2. ctx[c].waits \in Nat
  BY PartsLemma, StateOfLemma
<1>. QED
  BY <1>1, <1>2, PartsLemma DEF ContextOK, Terminal

LEMMA CreateStep == ASSUME NEW R, IInv(R), NEW c \in Ctx, Create(c) PROVE IInv(R)'
<1>. DEFINE x == [Absent EXCEPT !.state = "init"]
<1>1. /\ MayCall /\ ctx[c].state = "absent" /\ ctx' = [ctx EXCEPT ![c] = x]
      /\ pending' = Append(pending, c) /\ frames' = Called
      /\ req' = req /\ queues' = queues /\ tickLeft' = tickLeft
  BY DEF Create, Alive
<1>2. /\ x \in Context /\ x.state = "init" /\ ~x.errno /\ x.waits = 0 /\ x.commits = 0
  <2>1. Absent \in Context /\ ~Absent.errno /\ Absent.waits = 0 /\ Absent.commits = 0
    BY LimitAssumption DEF Absent, Context
  <2>. QED
    BY <2>1 DEF Context
<1>. HIDE DEF x
<1>3. /\ ctx' \in [Ctx -> Context] /\ \A d \in Ctx : ctx'[d] = IF d = c THEN x ELSE ctx[d]
  BY <1>1, <1>2, PartsLemma
<1>4. /\ ~RunsIn(frames, c) /\ c \notin Members(pending) /\ ~Behind(queues, c) /\ ~Linked(queues, c)
      /\ ctx[c].waits = 0 /\ c \notin R
  BY <1>1, AbsentLemma
<1>5. FramesOK(frames') /\ \A d \in Ctx : RunsIn(frames', d) <=> RunsIn(frames, d)
  BY <1>1, PartsLemma, CalledLemma
<1>6. pending' \in Seq(Ctx) /\ IsInjective(pending') /\ Members(pending') = Members(pending) \cup {c}
  BY <1>1, <1>4, PartsLemma, AppendLemma
<1>7. ContextOK(x, RunsIn(frames', c), c \in Members(pending'), Behind(queues, c), Linked(queues, c), c \in R)
  BY <1>2, <1>4, <1>5, <1>6 DEF ContextOK, StateOf
<1>8. \A d \in Ctx \ {c} :
         ContextOK(ctx[d], RunsIn(frames', d), d \in Members(pending'), Behind(queues, d), Linked(queues, d), d \in R)
  BY <1>5, <1>6, PartsLemma DEF ContextOK
<1>9. AllOK(R, ctx', frames', pending', queues')
  BY <1>1, <1>3, <1>7, <1>8 DEF AllOK
<1>10. RequiresOK(req', ctx')
  <2>1. \A d \in Ctx : ctx'[d].waits = ctx[d].waits /\ (ctx[d].state # "absent" => ctx'[d].state # "absent")
    BY <1>1, <1>2, <1>3, <1>4
  <2>2. RequiresOK(req, ctx')
    BY <2>1, PartsLemma, RequiresKept
  <2>. QED
    BY <1>1, <2>2
<1>11. ListsOK(pending', queues')
  BY <1>1, <1>6, PartsLemma DEF ListsOK
<1>. QED
  BY <1>1, <1>3, <1>5, <1>9, <1>10, <1>11, PartsLemma DEF IInv

LEMMA BindStep == ASSUME NEW R, IInv(R), NEW c \in Ctx, Bind(c) PROVE IInv(R)'
<1>1. PICK n \in 1..MaxActions : ctx' = [ctx EXCEPT ![c].state = "idle", ![c].left = n]
  BY DEF Bind
<1>. DEFINE x == [ctx[c] EXCEPT !.state = "idle", !.left = n]
<1>2. /\ MayCall /\ ctx[c].state = "init" /\ frames' = Called
      /\ req' = req /\ pending' = pending /\ queues' = queues /\ tickLeft' = tickLeft
  BY DEF Bind
<1>3. ctx[c] \in Context /\ ctx[c].waits \in Nat /\ ctx[c].commits \in Nat
  BY PartsLemma, StateOfLemma
<1>4. /\ x \in Context /\ x.state = "idle" /\ x.errno = ctx[c].errno /\ x.left > 0
      /\ x.waits = ctx[c].waits /\ x.commits = ctx[c].commits
  <2>1. n \in 0..MaxActions /\ n > 0
    BY LimitAssumption
  <2>. QED
    BY <1>3, <2>1 DEF Context
<1>5. ctx' = [ctx EXCEPT ![c] = x]
  BY <1>1, PartsLemma
<1>. HIDE DEF x
<1>6. \A d \in Ctx : ctx'[d].waits = ctx[d].waits /\ (ctx[d].state # "absent" => ctx'[d].state # "absent")
  BY <1>4, <1>5, PartsLemma
<1>7. RequiresOK(req', ctx')
  <2>1. RequiresOK(req, ctx')
    BY <1>6, PartsLemma, RequiresKept
  <2>. QED
    BY <1>2, <2>1
<1>8. ContextOK(x, RunsIn(frames, c), c \in Members(pending), Behind(queues, c), Linked(queues, c), c \in R)
  <2>1. ContextOK(ctx[c], RunsIn(frames, c), c \in Members(pending), Behind(queues, c), Linked(queues, c), c \in R)
    BY PartsLemma
  <2>. QED
    BY <1>2, <1>3, <1>4, <2>1 DEF ContextOK, StateOf, Terminal
<1>. QED
  BY <1>2, <1>4, <1>5, <1>7, <1>8, CallStep

\* A context that is executed is at the head of its queue, so it is behind none.
LEMMA HeadLemma ==
    ASSUME ListsOK(pending, queues), NEW c \in Ctx,
           \A q \in Queue : c \in Members(queues[q]) => queues[q][1] = c
    PROVE  ~Behind(queues, c)
<1>1. SUFFICES ASSUME NEW q \in Queue, c \in Rear(queues[q]) PROVE FALSE
  BY DEF Behind
<1>2. /\ Len(queues[q]) \in Nat
      /\ \A i, j \in 1..Len(queues[q]) : queues[q][i] = queues[q][j] => i = j
      /\ Rear(queues[q]) \subseteq Members(queues[q])
  BY QueueLemma DEF ListsOK
<1>3. PICK i \in 2..Len(queues[q]) : queues[q][i] = c
  BY <1>1 DEF Rear
<1>4. queues[q][1] = c
  BY <1>1, <1>2
<1>5. i \in 1..Len(queues[q]) /\ 1 \in 1..Len(queues[q]) /\ i # 1
  BY <1>2
<1>. QED
  BY <1>2, <1>3, <1>4, <1>5

\* logic_context_execute of a context that is idle and behind no other one.
LEMMA RunStep ==
    ASSUME NEW R, IInv(R), NEW c \in Ctx, ctx[c].state = "idle", ~RunsIn(frames, c), ~Behind(queues, c),
           ctx[c].commits = 0,
           NEW fs, FramesOK(fs), fs # <<>>, \A d \in Ctx : RunsIn(fs, d) <=> RunsIn(frames, d),
           Begin(c, ctx, fs, pending), ctx' = ctx, req' = req, queues' = queues, tickLeft' \in 0..TickMax
    PROVE  IInv(R)'
<1>1. /\ FramesOK(frames')
      /\ \A d \in Ctx : RunsIn(frames', d) <=> RunsIn(fs, d) \/ (ctx[c].left > 0 /\ d = c)
      /\ pending' \in Seq(Ctx) /\ IsInjective(pending')
      /\ Members(pending') = Members(pending) \ {c}
  BY PartsLemma, BeginLemma
<1>2. ContextOK(ctx[c], RunsIn(frames', c), c \in Members(pending'), Behind(queues, c), Linked(queues, c), c \in R)
  <2>1. ContextOK(ctx[c], RunsIn(frames, c), c \in Members(pending), Behind(queues, c), Linked(queues, c), c \in R)
    BY PartsLemma
  <2>2. /\ c \notin Members(pending')
        /\ RunsIn(frames', c) <=> ctx[c].left > 0
        /\ StateOf(ctx[c]) = "idle" => ~ctx[c].errno
        /\ StateOf(ctx[c]) # "init"
    BY <1>1, PartsLemma, StateOfLemma
  <2>. QED
    BY <2>1, <2>2 DEF ContextOK
<1>3. \A d \in Ctx \ {c} :
         ContextOK(ctx[d], RunsIn(frames', d), d \in Members(pending'), Behind(queues, d), Linked(queues, d), d \in R)
  BY <1>1, PartsLemma DEF ContextOK
<1>4. AllOK(R, ctx', frames', pending', queues')
  BY <1>2, <1>3 DEF AllOK
<1>5. ListsOK(pending', queues')
  BY <1>1, PartsLemma DEF ListsOK
<1>. QED
  BY <1>1, <1>4, <1>5, PartsLemma DEF IInv

LEMMA ExecuteStep == ASSUME NEW R, IInv(R), NEW c \in Ctx, Execute(c) PROVE IInv(R)'
<1>1. /\ MayCall /\ StateOf(ctx[c]) \in {"idle", "waiting"} /\ ~RunsIn(frames, c)
      /\ \A q \in Queue : c \in Members(queues[q]) => queues[q][1] = c
      /\ Begin(c, ctx, Called, pending)
      /\ ctx' = ctx /\ req' = req /\ queues' = queues /\ tickLeft' = tickLeft
  BY DEF Execute, Running
<1>2. ctx[c] \in Context /\ ctx[c].commits \in Nat
  BY PartsLemma, StateOfLemma
<1>3. ctx[c].state = "idle"
  BY <1>1, <1>2, StateOfLemma
<1>4. ctx[c].commits = 0
  <2>1. StateOf(ctx[c]) \notin Terminal
    BY <1>1 DEF Terminal
  <2>. QED
    BY <1>2, <2>1, PartsLemma DEF ContextOK
<1>5. ~Behind(queues, c)
  BY <1>1, PartsLemma, HeadLemma
<1>6. FramesOK(Called) /\ Called # <<>> /\ \A d \in Ctx : RunsIn(Called, d) <=> RunsIn(frames, d)
  BY <1>1, PartsLemma, CalledLemma
<1>7. tickLeft' \in 0..TickMax
  BY <1>1, PartsLemma
<1>. QED
  BY <1>1, <1>3, <1>4, <1>5, <1>6, <1>7, RunStep

LEMMA LeaveStep ==
    ASSUME NEW R, IInv(R), MayCall, NEW c \in Ctx, NEW state \in Terminal, Leave(c, state)
    PROVE  IInv(R)'
<1>. DEFINE x  == [ctx[c] EXCEPT !.state = state]
            cx == [ctx EXCEPT ![c] = x]
            old == StateOf(ctx[c])
<1>1. /\ ctx[c].state # "absent" /\ StateChange(c, old, [ctx EXCEPT ![c].state = state], Called)
      /\ req' = req /\ queues' = queues /\ tickLeft' = tickLeft
  BY DEF Leave, Alive
<1>2. [ctx EXCEPT ![c].state = state] = cx
  BY PartsLemma
<1>3. StateChange(c, old, cx, Called)
  BY <1>1, <1>2
<1>4. /\ ctx[c] \in Context /\ ctx[c].waits \in Nat /\ ctx[c].commits \in Nat
      /\ old \in {"absent", "init", "waiting", "idle"} \cup Terminal
  BY PartsLemma, StateOfLemma
<1>5. /\ x \in Context /\ x.state = state /\ x.errno = ctx[c].errno
      /\ x.waits = ctx[c].waits /\ x.commits = ctx[c].commits
  BY <1>4 DEF Context
<1>6. cx \in [Ctx -> Context] /\ \A d \in Ctx : cx[d] = IF d = c THEN x ELSE ctx[d]
  BY <1>5, PartsLemma
<1>. HIDE DEF x, cx
<1>7. StateOf(x) \in Terminal
  BY <1>5 DEF StateOf, Terminal
<1>8. FramesOK(Called) /\ Called # <<>> /\ \A d \in Ctx : RunsIn(Called, d) <=> RunsIn(frames, d)
  BY PartsLemma, CalledLemma
<1>9. MidOK(x, old, RunsIn(Called, c), c \in Members(pending), Behind(queues, c), Linked(queues, c), c \in R)
  <2>1. ContextOK(ctx[c], RunsIn(frames, c), c \in Members(pending), Behind(queues, c), Linked(queues, c), c \in R)
    BY PartsLemma
  <2>2. x.state # "idle" /\ state \in {"idle"} \cup Terminal /\ StateOf(x) # "idle"
    BY <1>5, <1>7 DEF Terminal
  <2>. QED
    BY <1>4, <1>5, <1>7, <1>8, <2>1, <2>2 DEF ContextOK, MidOK
<1>10. RequiresOK(req', cx)
  <2>1. \A d \in Ctx : cx[d].waits = ctx[d].waits /\ (ctx[d].state # "absent" => cx[d].state # "absent")
    BY <1>5, <1>6 DEF Terminal
  <2>. QED
    BY <1>1, <2>1, PartsLemma, RequiresKept
<1>11. MidOK(cx[c], old, RunsIn(Called, c), c \in Members(pending), Behind(queues, c), Linked(queues, c), c \in R)
  BY <1>6, <1>9
<1>12. \A d \in Ctx \ {c} : cx[d] = ctx[d] /\ (RunsIn(Called, d) <=> RunsIn(frames, d))
  BY <1>6, <1>8
<1>. HIDE DEF old
<1>. QED
  BY <1>1, <1>3, <1>6, <1>8, <1>10, <1>11, <1>12, ChangeStep

LEMMA ErrnoStep == ASSUME NEW R, IInv(R), NEW c \in Ctx, ErrnoSet(c) PROVE IInv(R)'
<1>. DEFINE x == [ctx[c] EXCEPT !.errno = TRUE]
<1>1. /\ MayCall /\ ctx[c].state # "absent" /\ ~ctx[c].errno /\ frames' = Called
      /\ ctx' = [ctx EXCEPT ![c].errno = TRUE]
      /\ req' = req /\ pending' = pending /\ queues' = queues /\ tickLeft' = tickLeft
  BY DEF ErrnoSet, Alive
<1>2. ctx[c] \in Context /\ ctx[c].waits \in Nat /\ ctx[c].commits \in Nat
  BY PartsLemma, StateOfLemma
<1>3. /\ x \in Context /\ x.state = ctx[c].state /\ x.errno /\ x.left = ctx[c].left
      /\ x.waits = ctx[c].waits /\ x.commits = ctx[c].commits
  BY <1>2 DEF Context
<1>4. ctx' = [ctx EXCEPT ![c] = x]
  BY <1>1, PartsLemma
<1>. HIDE DEF x
<1>5. \A d \in Ctx : ctx'[d].waits = ctx[d].waits /\ (ctx[d].state # "absent" => ctx'[d].state # "absent")
  BY <1>3, <1>4, PartsLemma
<1>6. RequiresOK(req', ctx')
  <2>1. RequiresOK(req, ctx')
    BY <1>5, PartsLemma, RequiresKept
  <2>. QED
    BY <1>1, <2>1
<1>7. ContextOK(x, RunsIn(frames, c), c \in Members(pending), Behind(queues, c), Linked(queues, c), c \in R)
  <2>1. ContextOK(ctx[c], RunsIn(frames, c), c \in Members(pending), Behind(queues, c), Linked(queues, c), c \in R)
    BY PartsLemma
  <2>2. StateOf(x) = "error" /\ StateOf(x) \in Terminal
    BY <1>3 DEF StateOf, Terminal
  <2>. QED
    BY <1>3, <2>1, <2>2 DEF ContextOK
<1>. QED
  BY <1>1, <1>3, <1>4, <1>6, <1>7, CallStep

LEMMA FreeStep == ASSUME NEW R, IInv(R), NEW c \in Ctx, c \notin R, Free(c) PROVE IInv(R)'
<1>1. MayCall /\ ctx[c].state # "absent"
  BY DEF Free, Alive
<1>2. CASE /\ RunsIn(frames, c) /\ ctx' = [ctx EXCEPT ![c].deleting = TRUE] /\ frames' = Called
           /\ req' = req /\ pending' = pending /\ queues' = queues /\ tickLeft' = tickLeft
  <2>. DEFINE x == [ctx[c] EXCEPT !.deleting = TRUE]
  <2>1. ctx[c] \in Context
    BY PartsLemma
  <2>2. /\ x \in Context /\ x.state = ctx[c].state /\ x.errno = ctx[c].errno /\ x.left = ctx[c].left
        /\ x.waits = ctx[c].waits /\ x.commits = ctx[c].commits
    BY <2>1 DEF Context
  <2>3. ctx' = [ctx EXCEPT ![c] = x]
    BY <1>2, PartsLemma
  <2>. HIDE DEF x
  <2>4. \A d \in Ctx : ctx'[d].waits = ctx[d].waits /\ (ctx[d].state # "absent" => ctx'[d].state # "absent")
    BY <2>2, <2>3, PartsLemma
  <2>5. RequiresOK(req', ctx')
    <3>1. RequiresOK(req, ctx')
      BY <2>4, PartsLemma, RequiresKept
    <3>. QED
      BY <1>2, <3>1
  <2>6. ContextOK(x, RunsIn(frames, c), c \in Members(pending), Behind(queues, c), Linked(queues, c), c \in R)
    <3>1. ContextOK(ctx[c], RunsIn(frames, c), c \in Members(pending), Behind(queues, c), Linked(queues, c), c \in R)
      BY PartsLemma
    <3>. QED
      BY <2>2, <3>1 DEF ContextOK, StateOf
  <2>. QED
    BY <1>1, <1>2, <2>2, <2>3, <2>5, <2>6, CallStep
<1>3. CASE ~RunsIn(frames, c) /\ Release(c, Called)
  <2>1. FramesOK(Called) /\ \A d \in Ctx : RunsIn(Called, d) <=> RunsIn(frames, d)
    BY <1>1, PartsLemma, CalledLemma
  <2>2. \A d \in Ctx : RunsIn(Called, d) <=> RunsIn(frames, d) /\ d # c
    BY <1>3, <2>1
  <2>3. R = R \ {c}
    OBVIOUS
  <2>. QED
    BY <1>3, <2>1, <2>2, <2>3, ReleaseStep
<1>. QED
  BY <1>2, <1>3 DEF Free, Running

-----------------------------------------------------------------------------
(* Requires *)

LEMMA CreateRequireStep == ASSUME NEW R, IInv(R), NEW r \in Req, CreateRequire(r) PROVE IInv(R)'
<1>. DEFINE c == Top.ctx
            x == [ctx[c] EXCEPT !.waits = @ + 1]
<1>1. /\ MayCall /\ frames # <<>> /\ Top.kind = "op" /\ req[r] = NoRequire
      /\ req' = [req EXCEPT ![r] = [state |-> "waiting", of |-> c]]
      /\ ctx' = [ctx EXCEPT ![c].waits = @ + 1]
      /\ frames' = Called /\ pending' = pending /\ queues' = queues /\ tickLeft' = tickLeft
  BY DEF CreateRequire, MayCall
<1>2. c \in Ctx /\ RunsIn(frames, c)
  BY <1>1, PartsLemma, BelowLemma
<1>. HIDE DEF c
<1>3. ctx[c] \in Context /\ ctx[c].waits \in Nat /\ ctx[c].commits \in Nat
  BY <1>2, PartsLemma, StateOfLemma
<1>4. ContextOK(ctx[c], RunsIn(frames, c), c \in Members(pending), Behind(queues, c), Linked(queues, c), c \in R)
  BY <1>2, PartsLemma
<1>5. /\ x \in Context /\ x.state = ctx[c].state /\ x.errno = ctx[c].errno /\ x.left = ctx[c].left
      /\ x.waits = ctx[c].waits + 1 /\ x.commits = ctx[c].commits
  BY <1>3 DEF Context
<1>6. ctx' = [ctx EXCEPT ![c] = x]
  BY <1>1, <1>2, PartsLemma
<1>. HIDE DEF x
<1>7. \A d \in Ctx : ctx'[d] = IF d = c THEN x ELSE ctx[d]
  BY <1>6, PartsLemma
<1>8. ctx[c].state # "absent"
  BY <1>2, <1>4 DEF ContextOK, Terminal
<1>9. RequiresOK(req', ctx')
  <2>1. /\ \A d \in Ctx : ctx'[d].state = ctx[d].state
        /\ \A d \in Ctx : ctx'[d].waits = IF d = c THEN ctx[d].waits + 1 ELSE ctx[d].waits
    BY <1>5, <1>7
  <2>. QED
    BY <1>1, <1>2, <1>8, <2>1, PartsLemma, CreatedLemma
<1>10. ContextOK(x, RunsIn(frames, c), c \in Members(pending), Behind(queues, c), Linked(queues, c), c \in R)
  BY <1>2, <1>3, <1>4, <1>5, <1>8 DEF ContextOK
<1>. QED
  BY <1>1, <1>2, <1>5, <1>6, <1>9, <1>10, CallStep

\* The common end of answers, cancels and timeouts of a require that waits.
LEMMA ResolveStep ==
    ASSUME NEW R, IInv(R), MayCall, NEW r \in Req, NEW rq \in [Req -> Require \cup {NoRequire}],
           rq[r] = NoRequire \/ (rq[r].of = req[r].of /\ rq[r].state # "waiting"),
           \A s \in Req \ {r} : rq[s] = req[s], Resolve(r, rq)
    PROVE  IInv(R)'
<1>. DEFINE c  == req[r].of
            x  == [ctx[c] EXCEPT !.waits = @ - 1]
            cx == [ctx EXCEPT ![c].waits = @ - 1]
            old == StateOf(ctx[c])
<1>1. /\ req[r].state = "waiting" /\ req' = rq /\ StateChange(c, old, cx, Called)
      /\ queues' = queues /\ tickLeft' = tickLeft
  BY DEF Resolve, MayResolve
<1>2. c \in Ctx
  <2>1. req[r] # NoRequire
    BY <1>1 DEF NoRequire
  <2>. QED
    BY <2>1, PartsLemma, RequireLemma
<1>3. /\ \A d \in Ctx : cx[d].state = ctx[d].state
      /\ \A d \in Ctx : cx[d].waits = IF d = c THEN ctx[d].waits - 1 ELSE ctx[d].waits
      /\ \A d \in Ctx : cx[d] = IF d = c THEN x ELSE ctx[d]
  <2>1. \A d \in Ctx : ctx[d] \in Context
    BY PartsLemma
  <2>2. \A d \in Ctx : cx[d] = IF d = c THEN x ELSE ctx[d]
    BY <1>2, PartsLemma
  <2>3. x.state = ctx[c].state /\ x.waits = ctx[c].waits - 1
    BY <1>2, <2>1 DEF Context
  <2>. HIDE DEF cx, x
  <2>. QED
    BY <2>2, <2>3
<1>4. /\ ctx[c].waits > 0 /\ ctx[c].state # "absent" /\ RequiresOK(rq, cx)
  <2>. HIDE DEF cx
  <2>. QED
    BY <1>1, <1>3, PartsLemma, ResolvedLemma
<1>5. /\ ctx[c] \in Context /\ ctx[c].waits \in Nat /\ ctx[c].commits \in Nat
      /\ old \in {"absent", "init", "waiting", "idle"} \cup Terminal
      /\ old \in Terminal <=> ctx[c].errno \/ ctx[c].state \in Terminal
  BY <1>2, PartsLemma, StateOfLemma
<1>6. /\ x \in Context /\ x.state = ctx[c].state /\ x.errno = ctx[c].errno /\ x.left = ctx[c].left
      /\ x.waits = ctx[c].waits - 1 /\ x.commits = ctx[c].commits
  BY <1>4, <1>5 DEF Context
<1>7. /\ cx \in [Ctx -> Context] /\ cx[c] = x
  <2>1. cx = [ctx EXCEPT ![c] = x]
    BY <1>2, PartsLemma
  <2>. QED
    BY <1>2, <1>6, <2>1, PartsLemma
<1>8. StateOf(x) \in Terminal <=> x.errno \/ x.state \in Terminal
  BY <1>6, StateOfLemma
<1>. HIDE DEF x, cx, c
<1>9. FramesOK(Called) /\ Called # <<>> /\ \A d \in Ctx : RunsIn(Called, d) <=> RunsIn(frames, d)
  BY PartsLemma, CalledLemma
<1>10. MidOK(x, old, RunsIn(Called, c), c \in Members(pending), Behind(queues, c), Linked(queues, c), c \in R)
  <2>1. ContextOK(ctx[c], RunsIn(frames, c), c \in Members(pending), Behind(queues, c), Linked(queues, c), c \in R)
    BY <1>2, PartsLemma
  <2>2. ctx[c].state \in {"idle"} \cup Terminal /\ c \notin Members(pending) /\ ~Behind(queues, c)
    BY <1>4, <2>1 DEF ContextOK
  <2>3. old \notin UpToIdle => StateOf(x) # "idle"
    BY <1>4, <1>5, <1>6, <1>8, <2>2 DEF Terminal, UpToIdle, StateOf
  <2>. QED
    BY <1>2, <1>4, <1>5, <1>6, <1>8, <1>9, <2>1, <2>2, <2>3 DEF ContextOK, MidOK
<1>11. \A d \in Ctx \ {c} : cx[d] = ctx[d] /\ (RunsIn(Called, d) <=> RunsIn(frames, d))
  BY <1>3, <1>9
<1>12. MidOK(cx[c], old, RunsIn(Called, c), c \in Members(pending), Behind(queues, c), Linked(queues, c), c \in R)
  BY <1>7, <1>10
<1>13. RequiresOK(req', cx)
  BY <1>1, <1>4
<1>. HIDE DEF old
<1>. QED
  BY <1>1, <1>2, <1>7, <1>9, <1>11, <1>12, <1>13, ChangeStep

\* A late answer, or the end of a require that is resolved.
LEMMA LateStep ==
    ASSUME NEW R, IInv(R), MayCall, NEW r \in Req, req[r].state \in Resolved,
           NEW rq \in [Req -> Require \cup {NoRequire}],
           rq[r] = NoRequire \/ (rq[r].of = req[r].of /\ rq[r].state # "waiting"),
           \A s \in Req \ {r} : rq[s] = req[s],
           req' = rq, frames' = Called,
           ctx' = ctx, pending' = pending, queues' = queues, tickLeft' = tickLeft
    PROVE  IInv(R)'
<1>1. req[r] # NoRequire /\ \A c \in Ctx : req[r] # [state |-> "waiting", of |-> c] /\ rq[r] # [state |-> "waiting", of |-> c]
  BY DEF NoRequire, Resolved
<1>2. \A c \in Ctx : WaitingOf(rq, c) = WaitingOf(req, c)
  BY <1>1 DEF WaitingOf
<1>3. \A s \in Req : rq[s] # NoRequire => rq[s].of = req[s].of /\ req[s] # NoRequire
  BY <1>1
<1>4. RequiresOK(rq, ctx)
  BY <1>2, <1>3, PartsLemma DEF RequiresOK
<1>5. FramesOK(frames') /\ \A d \in Ctx : RunsIn(frames', d) <=> RunsIn(frames, d)
  BY PartsLemma, CalledLemma
<1>6. AllOK(R, ctx', frames', pending', queues')
  BY <1>5, PartsLemma DEF AllOK, ContextOK
<1>. QED
  BY <1>4, <1>5, <1>6, PartsLemma DEF IInv

\* What an answer makes of the requires.
LEMMA OutcomeLemma ==
    ASSUME NEW R, IInv(R), NEW r \in Req, req[r].state \in {"waiting"} \cup Resolved, NEW outcome \in Resolved
    PROVE  /\ [req EXCEPT ![r].state = outcome] \in [Req -> Require \cup {NoRequire}]
           /\ [req EXCEPT ![r].state = outcome][r].of = req[r].of
           /\ [req EXCEPT ![r].state = outcome][r].state # "waiting"
           /\ \A s \in Req \ {r} : [req EXCEPT ![r].state = outcome][s] = req[s]
<1>. DEFINE x == [req[r] EXCEPT !.state = outcome]
<1>1. req \in [Req -> Require \cup {NoRequire}]
  BY PartsLemma
<1>2. req[r] \in Require
  BY <1>1 DEF NoRequire, Resolved
<1>3. x \in Require /\ x.of = req[r].of /\ x.state = outcome
  BY <1>2 DEF Require
<1>4. outcome # "waiting"
  BY DEF Resolved
<1>5. [req EXCEPT ![r].state = outcome] = [req EXCEPT ![r] = x]
  OBVIOUS
<1>. HIDE DEF x
<1>. QED
  BY <1>1, <1>3, <1>4, <1>5

LEMMA RequireCallStep == ASSUME NEW R, IInv(R), RequireCall PROVE IInv(R)'
<1>1. PICK r \in Req : \/ CreateRequire(r) \/ CancelRequire(r) \/ RequireTimeout(r)
                       \/ FreeRequire(r) \/ \E o \in {"done", "error"} : Answer(r, o)
  BY DEF RequireCall
<1>2. CASE CreateRequire(r)
  BY <1>2, CreateRequireStep
<1>3. ASSUME NEW o \in Resolved, MayCall, Resolve(r, [req EXCEPT ![r].state = o]) PROVE IInv(R)'
  <2>1. req[r].state \in {"waiting"} \cup Resolved
    BY <1>3 DEF Resolve, MayResolve
  <2>. DEFINE rq == [req EXCEPT ![r].state = o]
  <2>2. /\ rq \in [Req -> Require \cup {NoRequire}] /\ rq[r].of = req[r].of /\ rq[r].state # "waiting"
        /\ \A s \in Req \ {r} : rq[s] = req[s]
    BY <2>1, OutcomeLemma
  <2>3. Resolve(r, rq)
    BY <1>3
  <2>. HIDE DEF rq
  <2>. QED
    BY <1>3, <2>2, <2>3, ResolveStep
<1>4. CASE CancelRequire(r)
  BY <1>3, <1>4 DEF CancelRequire, Resolved
<1>5. CASE RequireTimeout(r)
  BY <1>3, <1>5 DEF RequireTimeout, MainCalls, Resolved
<1>6. ASSUME NEW o \in {"done", "error"}, Answer(r, o) PROVE IInv(R)'
  <2>1. o \in Resolved /\ MayCall
    BY <1>6 DEF Answer, Resolved
  <2>2. CASE Resolve(r, [req EXCEPT ![r].state = o])
    BY <1>3, <2>1, <2>2
  <2>3. CASE ~Resolve(r, [req EXCEPT ![r].state = o])
    <3>. DEFINE rq == [req EXCEPT ![r].state = o]
    <3>1. /\ req[r].state \in Resolved /\ req' = rq /\ frames' = Called
          /\ ctx' = ctx /\ pending' = pending /\ queues' = queues /\ tickLeft' = tickLeft
      BY <1>6, <2>3 DEF Answer
    <3>2. /\ rq \in [Req -> Require \cup {NoRequire}] /\ rq[r].of = req[r].of /\ rq[r].state # "waiting"
          /\ \A s \in Req \ {r} : rq[s] = req[s]
      BY <2>1, <3>1, OutcomeLemma
    <3>. HIDE DEF rq
    <3>. QED
      BY <2>1, <3>1, <3>2, LateStep
  <2>. QED
    BY <2>2, <2>3
<1>7. CASE FreeRequire(r)
  <2>. DEFINE rq == [req EXCEPT ![r] = NoRequire]
  <2>1. MayCall
    BY <1>7 DEF FreeRequire
  <2>2. rq \in [Req -> Require \cup {NoRequire}] /\ rq[r] = NoRequire /\ \A s \in Req \ {r} : rq[s] = req[s]
    BY PartsLemma
  <2>3. CASE Resolve(r, [req EXCEPT ![r] = NoRequire])
    <3>1. Resolve(r, rq)
      BY <2>3
    <3>. HIDE DEF rq
    <3>. QED
      BY <2>1, <2>2, <3>1, ResolveStep
  <2>4. CASE ~Resolve(r, [req EXCEPT ![r] = NoRequire])
    <3>1. /\ req[r].state \in Resolved /\ req' = rq /\ frames' = Called
          /\ ctx' = ctx /\ pending' = pending /\ queues' = queues /\ tickLeft' = tickLeft
      BY <1>7, <2>4 DEF FreeRequire
    <3>. HIDE DEF rq
    <3>. QED
      BY <2>1, <2>2, <3>1, LateStep
  <2>. QED
    BY <2>3, <2>4
<1>. QED
  BY <1>1, <1>2, <1>4, <1>5, <1>6, <1>7

-----------------------------------------------------------------------------
(* Queues *)

\* A pending context joins a queue, behind its head if there is one.
LEMMA EnqueueStep ==
    ASSUME NEW R, IInv(R), NEW place, NEW q \in Queue, NEW c \in Ctx, NEW list,
           c \notin R, EnqueueAs(place, q, c, list),
           c \notin Members(queues[q]) =>
              /\ list \in Seq(Ctx) /\ IsInjective(list) /\ Members(list) = Members(queues[q]) \cup {c}
              /\ Rear(list) = IF list[1] = c THEN Rear(queues[q]) ELSE Rear(queues[q]) \cup {c}
    PROVE  IInv(R)'
<1>1. /\ MayCall /\ c \in Members(pending) /\ \A p \in Queue : c \notin Members(queues[p])
      /\ queues' = [queues EXCEPT ![q] = list] /\ frames' = Called
      /\ pending' = IF list[1] = c THEN pending ELSE Removed(pending, c)
      /\ ctx' = ctx /\ req' = req /\ tickLeft' = tickLeft
  BY DEF EnqueueAs, MayEnqueue
<1>2. /\ pending' \in Seq(Ctx) /\ IsInjective(pending')
      /\ Members(pending') = IF list[1] = c THEN Members(pending) ELSE Members(pending) \ {c}
  <2>1. pending \in Seq(Ctx) /\ IsInjective(pending)
    BY PartsLemma
  <2>2. /\ Removed(pending, c) \in Seq(Ctx) /\ IsInjective(Removed(pending, c))
        /\ Members(Removed(pending, c)) = Members(pending) \ {c}
    BY <2>1, RemovedLemma
  <2>. QED
    BY <1>1, <2>1, <2>2
<1>3. ~Linked(queues, c)
  BY <1>1 DEF Linked
<1>4. /\ ListsOK(pending', queues')
      /\ \A d \in Ctx : Linked(queues', d) <=> Linked(queues, d) \/ d = c
      /\ \A d \in Ctx : Behind(queues', d) <=> Behind(queues, d) \/ (d = c /\ list[1] # c)
  <2>1. /\ list \in Seq(Ctx) /\ IsInjective(list) /\ Members(list) = Members(queues[q]) \cup {c}
        /\ Rear(list) = IF list[1] = c THEN Rear(queues[q]) ELSE Rear(queues[q]) \cup {c}
    BY <1>1
  <2>2. ListsOK(pending, queues) /\ queues' = [queues EXCEPT ![q] = list]
    BY <1>1, PartsLemma
  <2>3. pending' \in Seq(Ctx) /\ IsInjective(pending')
    BY <1>2
  <2>. QED
    BY <1>3, <2>1, <2>2, <2>3, QueuesJoined
<1>5. FramesOK(frames') /\ \A d \in Ctx : RunsIn(frames', d) <=> RunsIn(frames, d)
  BY <1>1, PartsLemma, CalledLemma
<1>6. ContextOK(ctx[c], RunsIn(frames', c), c \in Members(pending'), Behind(queues', c), Linked(queues', c), c \in R)
  <2>1. ContextOK(ctx[c], RunsIn(frames, c), c \in Members(pending), Behind(queues, c), Linked(queues, c), c \in R)
    BY PartsLemma
  <2>2. /\ Linked(queues', c) /\ ~Behind(queues, c)
        /\ c \in Members(pending') <=> list[1] = c
        /\ Behind(queues', c) <=> list[1] # c
    BY <1>1, <1>2, <1>4, <2>1 DEF ContextOK
  <2>. QED
    BY <1>1, <1>5, <2>1, <2>2 DEF ContextOK
<1>7. \A d \in Ctx \ {c} :
         ContextOK(ctx[d], RunsIn(frames', d), d \in Members(pending'), Behind(queues', d), Linked(queues', d), d \in R)
  BY <1>2, <1>4, <1>5, PartsLemma DEF ContextOK
<1>8. AllOK(R, ctx', frames', pending', queues')
  BY <1>1, <1>6, <1>7 DEF AllOK
<1>. QED
  BY <1>1, <1>4, <1>5, <1>8, PartsLemma DEF IInv

\* The places: at the tail, or after a context that is there.
LEMMA TailPlace ==
    ASSUME NEW l \in Seq(Ctx), IsInjective(l), NEW c \in Ctx, c \notin Members(l)
    PROVE  /\ Append(l, c) \in Seq(Ctx) /\ IsInjective(Append(l, c))
           /\ Members(Append(l, c)) = Members(l) \cup {c}
           /\ Rear(Append(l, c)) = IF Append(l, c)[1] = c THEN Rear(l) ELSE Rear(l) \cup {c}
<1>1. /\ Append(l, c) \in Seq(Ctx) /\ IsInjective(Append(l, c))
      /\ Members(Append(l, c)) = Members(l) \cup {c}
      /\ Rear(Append(l, c)) = IF l = <<>> THEN {} ELSE Rear(l) \cup {c}
  BY AppendLemma
<1>2. Len(l) \in Nat /\ (\A i \in 1..Len(l) : Append(l, c)[i] = l[i]) /\ Append(l, c)[Len(l) + 1] = c
  BY QueueLemma, AppendProperties
<1>3. CASE l = <<>>
  <2>1. Len(l) = 0
    BY <1>3, EmptySeq
  <2>2. Append(l, c)[1] = c /\ Rear(l) = {}
    BY <1>2, <2>1 DEF Rear
  <2>. QED
    BY <1>1, <1>3, <2>2
<1>4. CASE l # <<>>
  <2>1. 1 \in 1..Len(l)
    BY <1>2, <1>4, EmptySeq
  <2>2. Append(l, c)[1] # c
    BY <1>2, <2>1 DEF Members
  <2>. QED
    BY <1>1, <1>4, <2>2
<1>. QED
  BY <1>3, <1>4

LEMMA AfterPlace ==
    ASSUME NEW l \in Seq(Ctx), IsInjective(l), NEW c \in Ctx, c \notin Members(l), NEW pre \in Members(l)
    PROVE  /\ InsertedAfter(l, pre, c) \in Seq(Ctx) /\ IsInjective(InsertedAfter(l, pre, c))
           /\ Members(InsertedAfter(l, pre, c)) = Members(l) \cup {c}
           /\ Rear(InsertedAfter(l, pre, c)) =
                 IF InsertedAfter(l, pre, c)[1] = c THEN Rear(l) ELSE Rear(l) \cup {c}
<1>1. /\ InsertedAfter(l, pre, c) \in Seq(Ctx) /\ IsInjective(InsertedAfter(l, pre, c))
      /\ Members(InsertedAfter(l, pre, c)) = Members(l) \cup {c}
      /\ Rear(InsertedAfter(l, pre, c)) = Rear(l) \cup {c}
      /\ InsertedAfter(l, pre, c)[1] = l[1]
  BY InsertedAfterLemma
<1>2. 1 \in 1..Len(l)
  BY QueueLemma DEF Members
<1>3. l[1] # c
  BY <1>2 DEF Members
<1>. QED
  BY <1>1, <1>3

LEMMA DequeueStep == ASSUME NEW R, IInv(R), NEW q \in Queue, NEW c \in Ctx, Dequeue(q, c) PROVE IInv(R)'
<1>1. /\ MayCall /\ c \in Members(queues[q])
      /\ queues' = [queues EXCEPT ![q] = Removed(@, c)]
      /\ pending' = IF queues[q][1] = c THEN PendingAfterLeaving(c) ELSE Requeued(pending, c)
      /\ frames' = Called /\ ctx' = ctx /\ req' = req /\ tickLeft' = tickLeft
  BY DEF Dequeue
<1>2. \A p \in Queue : p # q => c \notin Members(queues[p])
  BY <1>1, PartsLemma DEF ListsOK
<1>3. queues' = [p \in Queue |-> Removed(queues[p], c)]
  <2>1. queues \in [Queue -> Seq(Ctx)]
    BY PartsLemma DEF ListsOK
  <2>2. \A p \in Queue : p # q => Removed(queues[p], c) = queues[p]
    BY <1>2 DEF Removed
  <2>. QED
    BY <1>1, <2>1, <2>2
<1>4. Linked(queues, c) /\ (queues[q][1] # c => Behind(queues, c))
  <2>1. PICK i \in 1..Len(queues[q]) : queues[q][i] = c
    BY <1>1 DEF Members
  <2>2. queues[q][1] # c => i \in 2..Len(queues[q])
    BY <2>1, PartsLemma, QueueLemma DEF ListsOK
  <2>. QED
    BY <1>1, <2>1, <2>2 DEF Linked, Behind, Rear
<1>5. (\A p \in Queue : c \in Members(queues[p]) => queues[p][1] = c) <=> queues[q][1] = c
  BY <1>1, <1>2
<1>6. queues[q][1] = c => ~Behind(queues, c)
  BY <1>5, PartsLemma, HeadLemma
<1>7. /\ PendingAfterLeaving(c) \in Seq(Ctx) /\ IsInjective(PendingAfterLeaving(c))
      /\ Members(PendingAfterLeaving(c)) = Members(pending) \cup Woken(c)
      /\ \A n \in Woken(c) : n \in Ctx /\ n # c /\ Behind(queues, n) /\ Linked(queues, n)
      /\ Behind(queues, c) => Woken(c) = {}
  BY PartsLemma, WokenLemma
<1>8. /\ Requeued(pending, c) \in Seq(Ctx) /\ IsInjective(Requeued(pending, c))
      /\ Members(Requeued(pending, c)) = Members(pending) \cup {c}
  BY PartsLemma, RequeuedLemma
<1>9. /\ pending' \in Seq(Ctx) /\ IsInjective(pending')
      /\ \A d \in Ctx : d \in Members(pending') <=>
            d \in Members(pending) \/ d \in Woken(c) \/ (d = c /\ Behind(queues, c))
  BY <1>1, <1>4, <1>6, <1>7, <1>8
<1>10. /\ ListsOK(pending', queues')
       /\ \A d \in Ctx : Linked(queues', d) <=> Linked(queues, d) /\ d # c
       /\ \A d \in Ctx : Behind(queues', d) <=> Behind(queues, d) /\ d # c /\ d \notin Woken(c)
  BY <1>3, <1>9, PartsLemma, QueuesLeft
<1>11. FramesOK(frames') /\ \A d \in Ctx : RunsIn(frames', d) <=> RunsIn(frames, d)
  BY <1>1, PartsLemma, CalledLemma
<1>12. ASSUME NEW d \in Ctx
       PROVE  ContextOK(ctx[d], RunsIn(frames', d), d \in Members(pending'), Behind(queues', d), Linked(queues', d), d \in R)
  <2>1. ContextOK(ctx[d], RunsIn(frames, d), d \in Members(pending), Behind(queues, d), Linked(queues, d), d \in R)
    BY PartsLemma
  <2>2. RunsIn(frames', d) <=> RunsIn(frames, d)
    BY <1>11
  <2>3. CASE d = c
    <3>1. d \notin Woken(c) /\ ~Behind(queues', d) /\ Linked(queues, d)
      BY <1>4, <1>7, <1>10, <2>3
    <3>2. d \in Members(pending') <=> d \in Members(pending) \/ Behind(queues, d)
      BY <1>9, <2>3, <3>1
    <3>. QED
      BY <2>1, <2>2, <3>1, <3>2 DEF ContextOK
  <2>4. CASE d \in Woken(c)
    <3>1. d \in Members(pending') /\ ~Behind(queues', d) /\ Behind(queues, d) /\ Linked(queues, d)
      BY <1>7, <1>9, <1>10, <2>4
    <3>. QED
      BY <2>1, <2>2, <3>1 DEF ContextOK
  <2>5. CASE d # c /\ d \notin Woken(c)
    <3>1. /\ d \in Members(pending') <=> d \in Members(pending)
          /\ Behind(queues', d) <=> Behind(queues, d)
          /\ Linked(queues', d) <=> Linked(queues, d)
      BY <1>9, <1>10, <2>5
    <3>. QED
      BY <2>1, <2>2, <3>1 DEF ContextOK
  <2>. QED
    BY <2>3, <2>4, <2>5
<1>13. AllOK(R, ctx', frames', pending', queues')
  BY <1>1, <1>12 DEF AllOK
<1>. QED
  BY <1>1, <1>10, <1>11, <1>13, PartsLemma DEF IInv

LEMMA QueueCallStep == ASSUME NEW R, R = {}, IInv(R), QueueCall PROVE IInv(R)'
<1>1. PICK q \in Queue, c \in Ctx :
         \/ EnqueueTail(q, c) \/ EnqueueHead(q, c) \/ Dequeue(q, c)
         \/ \E pre \in Ctx : EnqueueAfter(q, pre, c)
  BY DEF QueueCall
<1>. DEFINE l == queues[q]
<1>2. l \in Seq(Ctx) /\ IsInjective(l)
  BY PartsLemma DEF ListsOK
<1>3. CASE EnqueueTail(q, c)
  <2>1. EnqueueAs("tail", q, c, Append(l, c))
    BY <1>3 DEF EnqueueTail
  <2>2. c \notin Members(l) =>
           /\ Append(l, c) \in Seq(Ctx) /\ IsInjective(Append(l, c))
           /\ Members(Append(l, c)) = Members(l) \cup {c}
           /\ Rear(Append(l, c)) = IF Append(l, c)[1] = c THEN Rear(l) ELSE Rear(l) \cup {c}
    BY <1>2, TailPlace
  <2>. QED
    BY <2>1, <2>2, EnqueueStep
<1>4. ASSUME NEW place, NEW pre \in Members(l), EnqueueAs(place, q, c, InsertedAfter(l, pre, c))
      PROVE  IInv(R)'
  <2>1. c \notin Members(l) =>
           /\ InsertedAfter(l, pre, c) \in Seq(Ctx) /\ IsInjective(InsertedAfter(l, pre, c))
           /\ Members(InsertedAfter(l, pre, c)) = Members(l) \cup {c}
           /\ Rear(InsertedAfter(l, pre, c)) =
                 IF InsertedAfter(l, pre, c)[1] = c THEN Rear(l) ELSE Rear(l) \cup {c}
    BY <1>2, AfterPlace
  <2>. QED
    BY <1>4, <2>1, EnqueueStep
<1>5. CASE EnqueueHead(q, c) /\ l # <<>>
  <2>1. EnqueueAs("head", q, c, InsertedAfter(l, l[1], c))
    BY <1>5 DEF EnqueueHead
  <2>2. l[1] \in Members(l)
    BY <1>2, <1>5, QueueLemma, EmptySeq DEF Members
  <2>. QED
    BY <1>4, <2>1, <2>2
<1>6. CASE EnqueueHead(q, c) /\ l = <<>>
  <2>1. <<c>> = Append(l, c)
    BY <1>6
  <2>2. EnqueueAs("head", q, c, <<c>>)
    BY <1>6 DEF EnqueueHead
  <2>3. EnqueueAs("head", q, c, Append(l, c))
    BY <2>1, <2>2
  <2>4. c \notin Members(l) =>
           /\ Append(l, c) \in Seq(Ctx) /\ IsInjective(Append(l, c))
           /\ Members(Append(l, c)) = Members(l) \cup {c}
           /\ Rear(Append(l, c)) = IF Append(l, c)[1] = c THEN Rear(l) ELSE Rear(l) \cup {c}
    BY <1>2, TailPlace
  <2>. QED
    BY <2>3, <2>4, EnqueueStep
<1>7. ASSUME NEW pre \in Ctx, EnqueueAfter(q, pre, c) PROVE IInv(R)'
  <2>1. pre \in Members(l) /\ EnqueueAs("after", q, c, InsertedAfter(l, pre, c))
    BY <1>7 DEF EnqueueAfter
  <2>. QED
    BY <1>4, <2>1
<1>8. CASE Dequeue(q, c)
  BY <1>8, DequeueStep
<1>. QED
  BY <1>1, <1>3, <1>5, <1>6, <1>7, <1>8

-----------------------------------------------------------------------------
(* Running *)

\* The action on top, and what is left when it returns.
LEMMA OpLemma ==
    ASSUME NEW R, IInv(R), NEW c, frames # <<>>, Top.kind = "op", Top.ctx = c
    PROVE  /\ c \in Ctx /\ RunsIn(frames, c) /\ c \notin R /\ R = R \ {c}
           /\ FramesOK(Below) /\ Below # <<>>
           /\ \A d \in Ctx : RunsIn(Below, d) <=> RunsIn(frames, d) /\ d # c
           /\ Top.old \in {"waiting", "idle", "error"}
           /\ ctx[c] \in Context /\ ctx[c].commits = 0 /\ ctx[c].state \in {"idle"} \cup Terminal
           /\ c \notin Members(pending) /\ ~Behind(queues, c)
           /\ ctx[c].state # "absent" /\ ctx[c].left \in 0..MaxActions
<1>1. /\ c \in Ctx /\ RunsIn(frames, c) /\ FramesOK(Below) /\ Below # <<>> /\ Top \in Frame
      /\ \A d \in Ctx : RunsIn(Below, d) <=> RunsIn(frames, d) /\ ~(Top.kind = "op" /\ Top.ctx = d)
  BY PartsLemma, BelowLemma
<1>2. Top.old \in {"waiting", "idle", "error"}
  BY <1>1, FrameLemma
<1>3. ctx[c] \in Context /\ ctx[c].commits \in Nat
  BY <1>1, PartsLemma, StateOfLemma
<1>4. ContextOK(ctx[c], RunsIn(frames, c), c \in Members(pending), Behind(queues, c), Linked(queues, c), c \in R)
  BY <1>1, PartsLemma
<1>5. /\ ctx[c].commits = 0 /\ ctx[c].state \in {"idle"} \cup Terminal /\ ctx[c].state # "absent"
      /\ c \notin Members(pending) /\ ~Behind(queues, c)
  BY <1>1, <1>3, <1>4 DEF ContextOK, Terminal
<1>6. ctx[c].left \in 0..MaxActions
  BY <1>3 DEF Context
<1>7. c \notin R
  BY <1>1, <1>4 DEF ContextOK
<1>8. R = R \ {c}
  BY <1>7
<1>. QED
  BY <1>1, <1>2, <1>3, <1>5, <1>6, <1>7, <1>8

LEMMA OpWaitsStep == ASSUME NEW R, IInv(R), NEW c \in Ctx, OpWaits(c) PROVE IInv(R)'
<1>1. /\ frames # <<>> /\ Top.kind = "op" /\ Top.ctx = c /\ ctx[c].waits > 0 /\ EndRun(c, ctx)
      /\ ~ctx[c].deleting => req' = req
  BY DEF OpWaits
<1>2. CASE ctx[c].deleting
  <2>1. Release(c, Below)
    BY <1>1, <1>2 DEF EndRun
  <2>. QED
    BY <1>1, <2>1, OpLemma, ReleaseStep
<1>3. CASE ~ctx[c].deleting
  <2>. DEFINE old == Top.old
  <2>1. /\ StateChange(c, old, ctx, Below) /\ req' = req /\ queues' = queues /\ tickLeft' = tickLeft
    BY <1>1, <1>3 DEF EndRun
  <2>2. /\ RunsIn(frames, c) /\ ~RunsIn(Below, c) /\ FramesOK(Below) /\ Below # <<>>
        /\ \A d \in Ctx \ {c} : ctx[d] = ctx[d] /\ (RunsIn(Below, d) <=> RunsIn(frames, d))
    BY <1>1, OpLemma
  <2>3. MidOK(ctx[c], old, RunsIn(Below, c), c \in Members(pending), Behind(queues, c), Linked(queues, c), c \in R)
    <3>1. ContextOK(ctx[c], RunsIn(frames, c), c \in Members(pending), Behind(queues, c), Linked(queues, c), c \in R)
      BY PartsLemma
    <3>2. StateOf(ctx[c]) # "idle"
      BY <1>1, OpLemma, StateOfLemma
    <3>3. /\ ctx[c].commits = 0 /\ ctx[c].state \in {"idle"} \cup Terminal
          /\ c \notin Members(pending) /\ ~Behind(queues, c)
      BY <1>1, OpLemma
    <3>. QED
      BY <3>1, <3>2, <3>3 DEF MidOK, ContextOK
  <2>. HIDE DEF old
  <2>4. RequiresOK(req', ctx) /\ ctx \in [Ctx -> Context]
    BY <2>1, PartsLemma
  <2>. QED
    BY <2>1, <2>2, <2>3, <2>4, ChangeStep
<1>. QED
  BY <1>2, <1>3

\* The count and the position of c after its action is popped.
LEMMA PoppedContext ==
    ASSUME NEW R, IInv(R), NEW c \in Ctx, NEW n \in 0..MaxActions
    PROVE  /\ Popped(c, n) \in [Ctx -> Context]
           /\ \A d \in Ctx \ {c} : Popped(c, n)[d] = ctx[d]
           /\ Popped(c, n)[c].waits = 0 /\ Popped(c, n)[c].left = n
           /\ Popped(c, n)[c].state = ctx[c].state /\ Popped(c, n)[c].errno = ctx[c].errno
           /\ Popped(c, n)[c].commits = ctx[c].commits /\ Popped(c, n)[c].deleting = ctx[c].deleting
<1>. DEFINE x == [ctx[c] EXCEPT !.waits = 0, !.left = n]
<1>1. ctx \in [Ctx -> Context] /\ ctx[c] \in Context
  BY PartsLemma
<1>2. /\ x \in Context /\ x.waits = 0 /\ x.left = n /\ x.state = ctx[c].state /\ x.errno = ctx[c].errno
      /\ x.commits = ctx[c].commits /\ x.deleting = ctx[c].deleting
  BY <1>1 DEF Context
<1>3. Popped(c, n) = [ctx EXCEPT ![c] = x]
  BY <1>1 DEF Popped
<1>. HIDE DEF x
<1>. QED
  BY <1>1, <1>2, <1>3

LEMMA OpNextStep == ASSUME NEW R, IInv(R), NEW c \in Ctx, OpNext(c) PROVE IInv(R)'
<1>1. /\ frames # <<>> /\ Top.kind = "op" /\ Top.ctx = c /\ ctx[c].state = "idle"
      /\ req' = ReqPopped(c) /\ frames' = [frames EXCEPT ![Len(frames)].calls = 0]
      /\ pending' = pending /\ queues' = queues /\ tickLeft' = tickLeft
  BY DEF OpNext
<1>2. PICK n \in 1..(ctx[c].left - 1) : ctx' = Popped(c, n)
  BY DEF OpNext
<1>3. /\ RunsIn(frames, c) /\ ctx[c].commits = 0 /\ c \notin Members(pending) /\ ~Behind(queues, c)
      /\ ctx[c].left \in 0..MaxActions
  BY <1>1, OpLemma
<1>4. n \in 0..MaxActions /\ n > 0
  BY <1>3, LimitAssumption
<1>5. /\ ctx' \in [Ctx -> Context]
      /\ \A d \in Ctx \ {c} : ctx'[d] = ctx[d]
      /\ ctx'[c].waits = 0 /\ ctx'[c].left = n /\ ctx'[c].state = ctx[c].state /\ ctx'[c].errno = ctx[c].errno
      /\ ctx'[c].commits = ctx[c].commits
  BY <1>2, <1>4, PoppedContext
<1>6. FramesOK(frames') /\ \A d \in Ctx : RunsIn(frames', d) <=> RunsIn(frames, d)
  <2>1. 0 \in 0..MaxCalls
    BY LimitAssumption
  <2>. QED
    BY <1>1, <2>1, PartsLemma, CountLemma
<1>7. RequiresOK(req', ctx')
  <2>1. /\ \A d \in Ctx : ctx[d].state # "absent" => ctx'[d].state # "absent"
        /\ \A d \in Ctx : ctx'[d].waits = IF d = c THEN 0 ELSE ctx[d].waits
    BY <1>5
  <2>2. RequiresOK(ReqPopped(c), ctx')
    BY <2>1, PartsLemma, PoppedLemma
  <2>. QED
    BY <1>1, <2>2
<1>8. ContextOK(ctx'[c], RunsIn(frames', c), c \in Members(pending), Behind(queues, c), Linked(queues, c), c \in R)
  <2>. DEFINE y == ctx'[c]
  <2>1. RunsIn(frames', c) /\ c \notin Members(pending) /\ ~Behind(queues, c) /\ c \notin R
    BY <1>1, <1>3, <1>6, OpLemma
  <2>2. y.state = "idle" /\ y.commits = 0 /\ y.waits = 0 /\ y.left > 0
    BY <1>1, <1>3, <1>4, <1>5
  <2>. HIDE DEF y
  <2>3. ContextOK(y, RunsIn(frames', c), c \in Members(pending), Behind(queues, c), Linked(queues, c), c \in R)
    BY <2>1, <2>2 DEF ContextOK
  <2>. QED
    BY <2>3 DEF y
<1>9. \A d \in Ctx \ {c} :
         ContextOK(ctx'[d], RunsIn(frames', d), d \in Members(pending), Behind(queues, d), Linked(queues, d), d \in R)
  BY <1>5, <1>6, PartsLemma DEF ContextOK
<1>10. AllOK(R, ctx', frames', pending', queues')
  BY <1>1, <1>8, <1>9 DEF AllOK
<1>. QED
  BY <1>1, <1>5, <1>6, <1>7, <1>10, PartsLemma DEF IInv

\* What the run did to c when its loop is left.
LEMMA EndedLemma ==
    ASSUME NEW R, IInv(R), NEW c \in Ctx, OpEnds(c)
    PROVE  \E cx \in [Ctx -> Context] :
              /\ EndRun(c, cx) /\ \A d \in Ctx \ {c} : cx[d] = ctx[d]
              /\ cx[c].deleting = ctx[c].deleting /\ cx[c].waits = 0 /\ cx[c].commits = 0
              /\ ~ctx[c].deleting => /\ cx[c].state \in {"idle"} \cup Terminal
                                     /\ cx[c].state = "idle" => cx[c].errno
<1>1. /\ frames # <<>> /\ Top.kind = "op" /\ Top.ctx = c
      /\ ~ctx[c].deleting => req' = ReqPopped(c)
  BY DEF OpEnds
<1>2. PICK n \in 0..(ctx[c].left - 1), null \in BOOLEAN :
        /\ n > 0 => ctx[c].state # "idle" \/ ctx[c].deleting
        /\ EndRun(c, IF ctx[c].errno \/ n > 0 THEN Popped(c, n)
                     ELSE [Popped(c, n) EXCEPT ![c].state = IF null THEN "error" ELSE "done",
                                               ![c].errno = null])
  BY DEF OpEnds
<1>. DEFINE y  == [Popped(c, n)[c] EXCEPT !.state = IF null THEN "error" ELSE "done", !.errno = null]
            cx == IF ctx[c].errno \/ n > 0 THEN Popped(c, n)
                  ELSE [Popped(c, n) EXCEPT ![c].state = IF null THEN "error" ELSE "done",
                                            ![c].errno = null]
<1>3. /\ RunsIn(frames, c) /\ FramesOK(Below) /\ Below # <<>>
      /\ \A d \in Ctx : RunsIn(Below, d) <=> RunsIn(frames, d) /\ d # c
      /\ ctx[c].commits = 0 /\ c \notin Members(pending) /\ ~Behind(queues, c) /\ c \notin R /\ R = R \ {c}
      /\ ctx[c].state \in {"idle"} \cup Terminal /\ ctx[c].left \in 0..MaxActions
  BY <1>1, OpLemma
<1>4. n \in 0..MaxActions
  BY <1>3, LimitAssumption
<1>5. /\ Popped(c, n) \in [Ctx -> Context]
      /\ \A d \in Ctx \ {c} : Popped(c, n)[d] = ctx[d]
      /\ Popped(c, n)[c].waits = 0 /\ Popped(c, n)[c].left = n
      /\ Popped(c, n)[c].state = ctx[c].state /\ Popped(c, n)[c].errno = ctx[c].errno
      /\ Popped(c, n)[c].commits = ctx[c].commits /\ Popped(c, n)[c].deleting = ctx[c].deleting
  BY <1>4, PoppedContext
<1>6. /\ y \in Context /\ y.waits = 0 /\ y.state = IF null THEN "error" ELSE "done"
      /\ y.commits = ctx[c].commits /\ y.deleting = ctx[c].deleting
  <2>. DEFINE p == Popped(c, n)[c]
              s == IF null THEN "error" ELSE "done"
  <2>1. p \in Context /\ p.waits = 0 /\ p.commits = ctx[c].commits /\ p.deleting = ctx[c].deleting
    BY <1>5
  <2>2. s \in Terminal
    BY DEF Terminal
  <2>. HIDE DEF p, s
  <2>3. [p EXCEPT !.state = s, !.errno = null] \in Context
    BY <2>1, <2>2 DEF Context
  <2>4. /\ [p EXCEPT !.state = s, !.errno = null].waits = 0
        /\ [p EXCEPT !.state = s, !.errno = null].state = s
        /\ [p EXCEPT !.state = s, !.errno = null].commits = p.commits
        /\ [p EXCEPT !.state = s, !.errno = null].deleting = p.deleting
    BY <2>1 DEF Context
  <2>. QED
    BY <2>1, <2>3, <2>4 DEF p, s
<1>7. /\ cx \in [Ctx -> Context]
      /\ \A d \in Ctx \ {c} : cx[d] = ctx[d]
      /\ cx[c] = IF ctx[c].errno \/ n > 0 THEN Popped(c, n)[c] ELSE y
  <2>1. CASE ctx[c].errno \/ n > 0
    BY <1>5, <2>1
  <2>2. CASE ~(ctx[c].errno \/ n > 0)
    <3>. HIDE DEF y
    <3>1. cx = [Popped(c, n) EXCEPT ![c] = y]
      BY <1>5, <2>2 DEF y
    <3>. HIDE DEF cx
    <3>. QED
      BY <1>5, <1>6, <2>2, <3>1
  <2>. QED
    BY <2>1, <2>2
<1>8. EndRun(c, cx)
  BY <1>2
<1>. HIDE DEF cx, y
<1>9. cx[c].deleting = ctx[c].deleting /\ cx[c].waits = 0 /\ cx[c].commits = 0 /\ cx[c] \in Context
  BY <1>3, <1>5, <1>6, <1>7
<1>10. ASSUME ~ctx[c].deleting
       PROVE  cx[c].state \in {"idle"} \cup Terminal /\ (cx[c].state = "idle" => cx[c].errno)
  <2>1. ctx[c].state \in Terminal \/ (ctx[c].errno /\ n = 0) \/ (~ctx[c].errno /\ n = 0)
    BY <1>2, <1>3, <1>4, <1>10
  <2>2. CASE ctx[c].errno \/ n > 0
    BY <1>2, <1>3, <1>5, <1>7, <1>10, <2>1, <2>2 DEF Terminal
  <2>3. CASE ~(ctx[c].errno \/ n > 0)
    BY <1>6, <1>7, <2>3 DEF Terminal
  <2>. QED
    BY <2>2, <2>3
<1>. QED
  BY <1>7, <1>8, <1>9, <1>10

LEMMA OpEndsStep == ASSUME NEW R, IInv(R), NEW c \in Ctx, OpEnds(c) PROVE IInv(R)'
<1>1. /\ frames # <<>> /\ Top.kind = "op" /\ Top.ctx = c
      /\ ~ctx[c].deleting => req' = ReqPopped(c)
  BY DEF OpEnds
<1>2. /\ RunsIn(frames, c) /\ FramesOK(Below) /\ Below # <<>>
      /\ \A d \in Ctx : RunsIn(Below, d) <=> RunsIn(frames, d) /\ d # c
      /\ c \notin Members(pending) /\ ~Behind(queues, c) /\ c \notin R /\ R = R \ {c}
  BY <1>1, OpLemma
<1>3. PICK cx \in [Ctx -> Context] :
         /\ EndRun(c, cx) /\ \A d \in Ctx \ {c} : cx[d] = ctx[d]
         /\ cx[c].deleting = ctx[c].deleting /\ cx[c].waits = 0 /\ cx[c].commits = 0
         /\ ~ctx[c].deleting => /\ cx[c].state \in {"idle"} \cup Terminal
                                /\ cx[c].state = "idle" => cx[c].errno
  BY EndedLemma
<1>4. CASE ctx[c].deleting
  <2>1. Release(c, Below)
    BY <1>3, <1>4 DEF EndRun
  <2>. QED
    BY <1>2, <2>1, ReleaseStep
<1>5. CASE ~ctx[c].deleting
  <2>. DEFINE old == Top.old
  <2>1. /\ StateChange(c, old, cx, Below) /\ req' = ReqPopped(c) /\ queues' = queues /\ tickLeft' = tickLeft
    BY <1>1, <1>3, <1>5 DEF EndRun
  <2>2. StateOf(cx[c]) # "idle"
    BY <1>3, <1>5, StateOfLemma DEF Terminal
  <2>. HIDE DEF old
  <2>3. MidOK(cx[c], old, RunsIn(Below, c), c \in Members(pending), Behind(queues, c), Linked(queues, c), c \in R)
    BY <1>2, <1>3, <1>5, <2>2 DEF MidOK
  <2>4. RequiresOK(req', cx)
    <3>1. /\ \A d \in Ctx : ctx[d].state # "absent" => cx[d].state # "absent"
          /\ \A d \in Ctx : cx[d].waits = IF d = c THEN 0 ELSE ctx[d].waits
      BY <1>3, <1>5 DEF Terminal
    <3>2. RequiresOK(ReqPopped(c), cx)
      BY <3>1, PartsLemma, PoppedLemma
    <3>. QED
      BY <2>1, <3>2
  <2>5. \A d \in Ctx \ {c} : cx[d] = ctx[d] /\ (RunsIn(Below, d) <=> RunsIn(frames, d))
    BY <1>2, <1>3
  <2>. QED
    BY <1>2, <1>3, <2>1, <2>3, <2>4, <2>5, ChangeStep
<1>. QED
  BY <1>4, <1>5

LEMMA CommitReturnsStep ==
    ASSUME NEW R, IInv(R), CommitReturns, NEW c, c = Top.ctx, CommitFrees \/ c \notin R,
           NEW S, S = R \ {c}
    PROVE  IInv(S)'
<1>1. frames # <<>> /\ Top.kind = "commit"
  BY DEF CommitReturns
<1>2. /\ FramesOK(Below) /\ c \in Ctx
      /\ \A d \in Ctx : RunsIn(Below, d) <=> RunsIn(frames, d)
  BY <1>1, PartsLemma, BelowLemma
<1>3. CASE CommitFrees /\ ctx[c].commits > 0
  <2>1. Release(c, Below)
    BY <1>3 DEF CommitReturns
  <2>2. ~RunsIn(frames, c)
    <3>1. ctx[c].commits \in Nat /\ ctx[c].commits <= 1
      BY <1>2, PartsLemma, StateOfLemma DEF ContextOK
    <3>2. ctx[c].commits = 1
      BY <1>3, <3>1
    <3>. QED
      BY <1>2, <3>2, PartsLemma DEF ContextOK
  <2>3. \A d \in Ctx : RunsIn(Below, d) <=> RunsIn(frames, d) /\ d # c
    BY <1>2, <2>2
  <2>. QED
    BY <1>2, <2>1, <2>3, ReleaseStep
<1>4. CASE ~(CommitFrees /\ ctx[c].commits > 0)
  <2>1. /\ frames' = Below /\ ctx' = ctx /\ req' = req /\ pending' = pending /\ queues' = queues
        /\ tickLeft' = tickLeft
    BY <1>4 DEF CommitReturns
  <2>2. R = S
    <3>1. c \in R => ctx[c].commits = 1
      BY <1>2, PartsLemma DEF ContextOK
    <3>. QED
      BY <1>4, <3>1
  <2>3. AllOK(S, ctx', frames', pending', queues')
    BY <1>2, <2>1, <2>2, PartsLemma DEF AllOK, ContextOK
  <2>. QED
    BY <1>2, <2>1, <2>3, PartsLemma DEF IInv
<1>. QED
  BY <1>3, <1>4

-----------------------------------------------------------------------------
(* The main loop *)

\* While the main loop is on top nothing runs.
LEMMA MainLemma ==
    ASSUME NEW R, IInv(R), InMain
    PROVE  /\ frames # <<>> /\ \A d \in Ctx : ~RunsIn(frames, d)
           /\ FramesOK(<<MainFrame>>) /\ \A d \in Ctx : ~RunsIn(<<MainFrame>>, d)
           /\ FramesOK(<<>>) /\ \A d \in Ctx : ~RunsIn(<<>>, d)
<1>1. frames # <<>> /\ frames[Len(frames)].kind = "main"
  BY DEF InMain, Top
<1>2. /\ Len(frames) \in Nat /\ Len(frames) >= 1
      /\ \A i \in 2..Len(frames) : frames[i].kind # "main"
  BY <1>1, PartsLemma, FramesLemma DEF FramesOK
<1>3. Len(frames) = 1
  BY <1>1, <1>2
<1>4. \A d \in Ctx : ~RunsIn(frames, d)
  BY <1>1, <1>3 DEF RunsIn
<1>5. ASSUME NEW f, f = MainFrame
      PROVE  FramesOK(<<f>>) /\ \A d \in Ctx : ~RunsIn(<<f>>, d)
  <2>1. f \in Frame /\ f.kind = "main"
    BY <1>5, LimitAssumption DEF MainFrame, Frame
  <2>2. <<f>> \in Seq(Frame) /\ Len(<<f>>) = 1 /\ <<f>>[1] = f
    BY <2>1
  <2>3. \A i, j \in 1..1 : i = j
    OBVIOUS
  <2>4. FramesOK(<<f>>)
    BY <2>1, <2>2, <2>3 DEF FramesOK
  <2>5. \A d \in Ctx : ~RunsIn(<<f>>, d)
    BY <2>1, <2>2 DEF RunsIn
  <2>. QED
    BY <2>4, <2>5
<1>6. FramesOK(<<>>) /\ \A d \in Ctx : ~RunsIn(<<>>, d)
  BY EmptySeq DEF FramesOK, RunsIn
<1>. QED
  BY <1>1, <1>4, <1>5, <1>6

\* A step that changes the calls in progress only, and lets none of them run.
LEMMA IdleFrames ==
    ASSUME NEW R, IInv(R), InMain, FramesOK(frames'), \A d \in Ctx : ~RunsIn(frames', d),
           ctx' = ctx, req' = req, pending' = pending, queues' = queues, tickLeft' \in 0..TickMax
    PROVE  IInv(R)'
<1>1. \A d \in Ctx : RunsIn(frames', d) <=> RunsIn(frames, d)
  BY MainLemma
<1>2. AllOK(R, ctx', frames', pending', queues')
  BY <1>1, PartsLemma DEF AllOK, ContextOK
<1>. QED
  BY <1>2, PartsLemma DEF IInv

LEMMA TickStartStep == ASSUME NEW R, IInv(R), TickStart PROVE IInv(R)'
<1>1. /\ InMain /\ frames' = <<MainFrame>>
      /\ \E max \in 1..TickMax : tickLeft' = TickCount(max)
      /\ ctx' = ctx /\ req' = req /\ pending' = pending /\ queues' = queues
  BY DEF TickStart
<1>2. \A max \in 1..TickMax : TickCount(max) \in 0..TickMax
  <2>1. Len(pending) \in Nat /\ TickMax \in Nat
    BY PartsLemma, QueueLemma, LimitAssumption
  <2>. QED
    BY <2>1 DEF TickCount
<1>. QED
  BY <1>1, <1>2, MainLemma, IdleFrames

LEMMA TickCrashStep == ASSUME NEW R, IInv(R), TickCrash PROVE IInv(R)'
<1>1. /\ InMain /\ frames' = <<>>
      /\ ctx' = ctx /\ req' = req /\ pending' = pending /\ queues' = queues /\ tickLeft' = tickLeft
  BY DEF TickCrash
<1>. QED
  BY <1>1, MainLemma, IdleFrames, PartsLemma

LEMMA TickExecuteStep == ASSUME NEW R, IInv(R), InMain => R = {}, TickExecute PROVE IInv(R)'
<1>. DEFINE c == pending[1]
<1>1. /\ InMain /\ tickLeft > 0 /\ pending # <<>> /\ tickLeft' = tickLeft - 1
      /\ ctx' = ctx /\ req' = req /\ queues' = queues
  BY DEF TickExecute
<1>2. tickLeft' \in 0..TickMax
  BY <1>1, PartsLemma, LimitAssumption
<1>3. CASE ctx[c].state = "idle"
  <2>1. Begin(c, ctx, frames, pending)
    BY <1>3 DEF TickExecute
  <2>2. c \in Ctx /\ c \in Members(pending)
    <3>1. Len(pending) \in Nat /\ Len(pending) # 0 /\ \A i \in 1..Len(pending) : pending[i] \in Ctx
      BY <1>1, PartsLemma, QueueLemma, EmptySeq
    <3>2. 1 \in 1..Len(pending)
      BY <3>1
    <3>. QED
      BY <3>1, <3>2 DEF Members
  <2>. HIDE DEF c
  <2>3. ContextOK(ctx[c], RunsIn(frames, c), c \in Members(pending), Behind(queues, c), Linked(queues, c), c \in R)
    BY <2>2, PartsLemma
  <2>4. ctx[c].commits \in Nat
    BY <2>2, PartsLemma, StateOfLemma
  <2>5. ~RunsIn(frames, c) /\ ~Behind(queues, c) /\ ctx[c].commits # 1 /\ ctx[c].commits <= 1
    BY <1>1, <1>3, <2>2, <2>3 DEF ContextOK
  <2>6. ctx[c].commits = 0
    BY <2>4, <2>5
  <2>7. FramesOK(frames) /\ frames # <<>>
    BY <1>1, PartsLemma, MainLemma
  <2>. QED
    BY <1>1, <1>2, <1>3, <2>1, <2>2, <2>5, <2>6, <2>7, RunStep
<1>4. CASE ctx[c].state # "idle"
  <2>1. frames' = frames /\ pending' = pending
    BY <1>4 DEF TickExecute
  <2>. QED
    BY <1>1, <1>2, <2>1, MainLemma, IdleFrames, PartsLemma
<1>. QED
  BY <1>3, <1>4

-----------------------------------------------------------------------------
(* The invariant holds *)

LEMMA InitIInv == Init => IInv({})
<1>. SUFFICES ASSUME Init PROVE IInv({})
  OBVIOUS
<1>1. /\ ctx = [c \in Ctx |-> Absent] /\ req = [r \in Req |-> NoRequire]
      /\ pending = <<>> /\ queues = [q \in Queue |-> <<>>]
      /\ frames = <<MainFrame>> /\ tickLeft = 0
  BY DEF Init
<1>2. /\ Absent \in Context /\ Absent.state = "absent" /\ Absent.waits = 0
      /\ Absent.commits = 0 /\ StateOf(Absent) = "absent"
  BY LimitAssumption DEF Absent, Context, StateOf
<1>3. ctx \in [Ctx -> Context] /\ \A c \in Ctx : ctx[c] = Absent
  BY <1>1, <1>2
<1>4. FramesOK(frames) /\ \A d \in Ctx : ~RunsIn(frames, d)
  <2>1. ASSUME NEW f, f = MainFrame
        PROVE  FramesOK(<<f>>) /\ \A d \in Ctx : ~RunsIn(<<f>>, d)
    <3>1. f \in Frame /\ f.kind = "main"
      BY <2>1, LimitAssumption DEF MainFrame, Frame
    <3>2. <<f>> \in Seq(Frame) /\ Len(<<f>>) = 1 /\ <<f>>[1] = f
      BY <3>1
    <3>3. \A i, j \in 1..1 : i = j
      OBVIOUS
    <3>. QED
      BY <3>1, <3>2, <3>3 DEF FramesOK, RunsIn
  <2>. QED
    BY <1>1, <2>1
<1>5. /\ <<>> \in Seq(Ctx) /\ IsInjective(<<>>) /\ Members(<<>>) = {} /\ Rear(<<>>) = {}
  <2>1. <<>> \in Seq(Ctx) /\ Len(<<>>) = 0
    BY EmptySeq
  <2>2. \A i, j \in 1..Len(<<>>) : <<>>[i] = <<>>[j] => i = j
    BY <2>1
  <2>3. IsInjective(<<>>)
    BY <2>1, <2>2, QueueLemma
  <2>. QED
    BY <2>1, <2>3 DEF Members, Rear
<1>6. ListsOK(pending, queues)
  BY <1>1, <1>5 DEF ListsOK
<1>7. AllOK({}, ctx, frames, pending, queues)
  <2>1. ASSUME NEW c \in Ctx
        PROVE  c \notin Members(pending) /\ ~Behind(queues, c) /\ ~Linked(queues, c)
    BY <1>1, <1>5 DEF Behind, Linked
  <2>. QED
    BY <1>2, <1>3, <1>4, <2>1 DEF AllOK, ContextOK, Terminal
<1>8. RequiresOK(req, ctx)
  <2>1. NoRequire.state = "absent"
    BY DEF NoRequire
  <2>2. \A c \in Ctx : WaitingOf(req, c) = {}
    BY <1>1, <2>1 DEF WaitingOf
  <2>. QED
    BY <1>1, <1>2, <1>3, <2>2, FS_EmptySet DEF RequiresOK
<1>9. tickLeft \in 0..TickMax
  BY <1>1, LimitAssumption
<1>. QED
  BY <1>3, <1>4, <1>6, <1>7, <1>8, <1>9 DEF IInv

LEMMA ContextCallStep == ASSUME NEW R, R = {}, IInv(R), ContextCall PROVE IInv(R)'
<1>1. PICK c \in Ctx : \/ Create(c) \/ Bind(c) \/ Execute(c) \/ Cancel(c)
                       \/ Timeout(c) \/ ErrnoSet(c) \/ Free(c)
  BY DEF ContextCall
<1>2. CASE Cancel(c)
  <2>1. MayCall /\ Leave(c, "cancel") /\ "cancel" \in Terminal
    BY <1>2 DEF Cancel, Terminal
  <2>. QED
    BY <2>1, LeaveStep
<1>3. CASE Timeout(c)
  <2>1. MayCall /\ Leave(c, "timeout") /\ "timeout" \in Terminal
    BY <1>3 DEF Timeout, MainCalls, Terminal
  <2>. QED
    BY <2>1, LeaveStep
<1>. QED
  BY <1>1, <1>2, <1>3, CreateStep, BindStep, ExecuteStep, ErrnoStep, FreeStep

LEMMA StutterStep == ASSUME NEW R, IInv(R), UNCHANGED vars PROVE IInv(R)'
<1>1. /\ ctx' = ctx /\ req' = req /\ pending' = pending /\ queues' = queues
      /\ frames' = frames /\ tickLeft' = tickLeft
  BY DEF vars
<1>2. AllOK(R, ctx', frames', pending', queues')
  BY <1>1 DEF IInv
<1>. QED
  BY <1>1, <1>2, PartsLemma DEF IInv

LEMMA NextIInv == IInv({}) /\ [Next]_vars => IInv({})'
<1>. SUFFICES ASSUME NEW R, R = {}, IInv(R), [Next]_vars PROVE IInv(R)'
  OBVIOUS
<1>1. CASE ContextCall
  BY <1>1, ContextCallStep
<1>2. CASE RequireCall
  BY <1>2, RequireCallStep
<1>3. CASE QueueCall
  BY <1>3, QueueCallStep
<1>4. ASSUME NEW c \in Ctx, OpReturns(c) PROVE IInv(R)'
  BY <1>4, OpWaitsStep, OpNextStep, OpEndsStep DEF OpReturns
<1>5. CASE CommitReturns
  <2>1. Top.ctx \notin R /\ R = R \ {Top.ctx}
    OBVIOUS
  <2>. QED
    BY <1>5, <2>1, CommitReturnsStep
<1>6. CASE Tick
  BY <1>6, TickStartStep, TickExecuteStep, TickCrashStep DEF Tick
<1>7. CASE UNCHANGED vars
  BY <1>7, StutterStep
<1>. QED
  BY <1>1, <1>2, <1>3, <1>4, <1>5, <1>6, <1>7 DEF Next

\* The inductive invariant of the scheduler holds in every behaviour.
THEOREM Invariance == Spec => []IInv({})
BY InitIInv, NextIInv, PTL DEF Spec

-----------------------------------------------------------------------------
(* What follows from it *)

\* Whatever contexts are apart.
LEMMA SafetyLemma ==
    ASSUME NEW R, IInv(R)
    PROVE  /\ WaitsAgree /\ NoDangling /\ LinkedOnce
           /\ CommitOnce /\ OnlyHeadRuns /\ NoneLost
<1>1. WaitsAgree
  BY DEF IInv, WaitsAgree, RequiresOK, WaitingOf
<1>2. NoDangling
  <2>1. \A c \in Ctx : c \in Members(pending) \/ Linked(queues, c) \/ Running(c) => Alive(c)
    BY PartsLemma DEF ContextOK, Running, Alive, Terminal
  <2>2. Members(pending) \subseteq Ctx /\ \A q \in Queue : Members(queues[q]) \subseteq Ctx
    BY PartsLemma, QueueLemma DEF ListsOK
  <2>3. \A r \in Req : req[r] # NoRequire => Alive(req[r].of)
    BY DEF IInv, RequiresOK, Alive
  <2>. QED
    BY <2>1, <2>2, <2>3 DEF NoDangling, Linked
<1>3. LinkedOnce
  BY DEF IInv, LinkedOnce, ListsOK, FramesOK
<1>4. CommitOnce
  BY DEF IInv, CommitOnce, AllOK, ContextOK, Running
<1>5. OnlyHeadRuns
  <2>1. SUFFICES ASSUME NEW q \in Queue, NEW i \in 2..Len(queues[q])
                 PROVE  queues[q][i] \notin Members(pending) /\ ~Running(queues[q][i])
    BY DEF OnlyHeadRuns
  <2>. DEFINE c == queues[q][i]
  <2>2. c \in Rear(queues[q])
    BY DEF Rear
  <2>3. c \in Ctx
    BY <2>2, PartsLemma, QueueLemma DEF ListsOK
  <2>4. Behind(queues, c)
    BY <2>2 DEF Behind
  <2>. HIDE DEF c
  <2>5. c \notin Members(pending) /\ ~RunsIn(frames, c)
    BY <2>3, <2>4, PartsLemma DEF ContextOK
  <2>. QED
    BY <2>5 DEF Running, c
<1>6. NoneLost
  <2>1. SUFFICES ASSUME NEW c \in Ctx, StateOf(ctx[c]) = "idle", ~Running(c), c \notin Members(pending)
                 PROVE  \E q \in Queue : c \in Members(queues[q]) /\ queues[q][1] # c
    BY DEF NoneLost
  <2>2. Behind(queues, c)
    BY <2>1, PartsLemma DEF ContextOK, Running
  <2>3. PICK q \in Queue : c \in Rear(queues[q])
    BY <2>2 DEF Behind
  <2>4. /\ Len(queues[q]) \in Nat
        /\ \A i, j \in 1..Len(queues[q]) : queues[q][i] = queues[q][j] => i = j
        /\ Rear(queues[q]) \subseteq Members(queues[q])
    BY PartsLemma, QueueLemma DEF ListsOK
  <2>5. PICK i \in 2..Len(queues[q]) : queues[q][i] = c
    BY <2>3 DEF Rear
  <2>6. i \in 1..Len(queues[q]) /\ 1 \in 1..Len(queues[q]) /\ i # 1
    BY <2>4
  <2>7. queues[q][1] # c
    BY <2>4, <2>5, <2>6
  <2>. QED
    BY <2>3, <2>4, <2>7
<1>. QED
  BY <1>1, <1>2, <1>3, <1>4, <1>5, <1>6

\* Every variable keeps its type; the counts of waiting requires never go below
\* zero and a context has never more than its actions left.
THEOREM TypeCorrect == Spec => []TypeOK
<1>1. IInv({}) => TypeOK
  BY DEF IInv, TypeOK, RequiresOK, ListsOK, FramesOK
<1>. QED
  BY <1>1, Invariance, PTL

\* m_require_waiting_count is the number of the requires that wait: every answer,
\* late, repeated or after a cancel, is counted once.
THEOREM WaitsAreCounted == Spec => []WaitsAgree
<1>1. IInv({}) => WaitsAgree
  BY SafetyLemma
<1>. QED
  BY <1>1, Invariance, PTL

\* The lists, the calls in progress and the requires refer to living contexts
\* only, whatever an action or a commit callback freed meanwhile.
THEOREM NothingDangles == Spec => []NoDangling
<1>1. IInv({}) => NoDangling
  BY SafetyLemma
<1>. QED
  BY <1>1, Invariance, PTL

\* A context is once in the pending list, in one queue at most, and run by one
\* call of logic_context_execute at a time.
THEOREM EachIsLinkedOnce == Spec => []LinkedOnce
<1>1. IInv({}) => LinkedOnce
  BY SafetyLemma
<1>. QED
  BY <1>1, Invariance, PTL

\* The commit callback of a context is called once, and no action of it is run
\* afterwards.
THEOREM CommitsOnce == Spec => []CommitOnce
<1>1. IInv({}) => CommitOnce
  BY SafetyLemma
<1>. QED
  BY <1>1, Invariance, PTL

\* A context that waits behind another one in a queue is neither pending nor
\* running: what logic_queue.c asserts.
THEOREM OnlyTheHeadRuns == Spec => []OnlyHeadRuns
<1>1. IInv({}) => OnlyHeadRuns
  BY SafetyLemma
<1>. QED
  BY <1>1, Invariance, PTL

\* A context that is idle and does not run is in the pending list or waits behind
\* another one in a queue: no sequence of calls loses it.
THEOREM NoContextIsLost == Spec => []NoneLost
<1>1. IInv({}) => NoneLost
  BY SafetyLemma
<1>. QED
  BY <1>1, Invariance, PTL

-----------------------------------------------------------------------------
(* What a step does to the contexts.  Every step but those of the tick is  *)
(* about one context c: the others are only moved in the lists.            *)

\* The order PendingInOrder asks for.
InOrder(p, r) ==
    \A b, c \in Members(r) : b \in Members(p) =>
        IF c \in Members(p) THEN Before(p, b, c) => Before(r, b, c) ELSE Before(r, b, c)

\* An action or a commit of c is in progress.
Busy(fs, c) == RunsIn(fs, c) \/ Held(fs, c)

\* What the tick may count on: pending contexts no call in progress is about.
Ready(fs, pend) == {d \in Ctx : d \in Members(pend) /\ ~Busy(fs, d)}

\* The steps of ContextLife.
Edge(p, q) ==
    \/ p = q
    \/ p = "none" /\ q = "new"
    \/ p = "new" /\ q = "ready"
    \/ p \in {"ready", "waiting", "failed"} /\ q = "running"
    \/ p = "running" /\ q \in {"waiting", "committed", "failed"}
    \/ p = "waiting" /\ q = "ready"
    \/ p \in {"new", "ready", "waiting"} /\ q \in {"failed", "committed"}
    \/ p # "none" /\ q = "none"

Alone(c) ==
    /\ \A d \in Ctx \ {c} :
          /\ ctx'[d] = ctx[d]
          /\ RunsIn(frames', d) <=> RunsIn(frames, d)
          /\ Busy(frames', d) => Busy(frames, d)
          /\ d \in Members(pending) => d \in Members(pending')
    /\ InOrder(pending, pending')
    /\ frames' # <<>>

Lives(c)  == Edge(PhaseIn(ctx[c], RunsIn(frames, c)), PhaseIn(ctx'[c], RunsIn(frames', c)))
Spared(c) == c \in Ready(frames, pending) => c \in Ready(frames', pending')

\* A step about c.  Without calls on foreign contexts it takes nothing from the
\* tick in progress.
Moves(c) ==
    /\ Alone(c) /\ Lives(c)
    /\ tickLeft' = tickLeft
    /\ OpCalls \subseteq {"errno"} /\ tickLeft > 0 => Spared(c)

\* The orders the operations on the pending list keep.
LEMMA SameOrder == ASSUME NEW p PROVE InOrder(p, p)
BY DEF InOrder

LEMMA LeftOrder ==
    ASSUME NEW S, NEW p, NEW r \in Seq(S), IsInjective(r), InOrder(p, r), NEW c
    PROVE  InOrder(p, Removed(r, c))
<1>1. Members(Removed(r, c)) = Members(r) \ {c}
  BY RemovedLemma
<1>2. \A x, y : Before(r, x, y) /\ x # c /\ y # c => Before(Removed(r, c), x, y)
  BY RemovedOrder
<1>. QED
  BY <1>1, <1>2 DEF InOrder

LEMMA JoinedOrder ==
    ASSUME NEW S, NEW p \in Seq(S), IsInjective(p), NEW c \in S, c \notin Members(p)
    PROVE  InOrder(p, Append(p, c)) /\ Requeued(p, c) = Append(p, c)
<1>1. Members(Append(p, c)) = Members(p) \cup {c}
  BY AppendLemma
<1>2. /\ \A x, y : Before(p, x, y) => Before(Append(p, c), x, y)
      /\ \A x \in Members(p) : Before(Append(p, c), x, c)
  BY AppendOrder
<1>3. Requeued(p, c) = Append(p, c)
  BY DEF Requeued, Removed
<1>. QED
  BY <1>1, <1>2, <1>3 DEF InOrder

\* The phase of a context, case by case.
LEMMA PhaseLemma ==
    ASSUME NEW x \in Context, NEW run
    PROVE  /\ x.state = "absent" => PhaseIn(x, run) = "none"
           /\ x.state # "absent" /\ run => PhaseIn(x, run) = "running"
           /\ x.state # "absent" /\ ~run /\ x.commits > 0 => PhaseIn(x, run) = "committed"
           /\ x.state # "absent" /\ ~run /\ ~(x.commits > 0) =>
                 /\ StateOf(x) = "init" => PhaseIn(x, run) = "new"
                 /\ StateOf(x) = "idle" => PhaseIn(x, run) = "ready"
                 /\ StateOf(x) = "waiting" => PhaseIn(x, run) = "waiting"
                 /\ StateOf(x) \in Terminal => PhaseIn(x, run) = "failed"
           /\ x.state # "absent" => StateOf(x) \in {"init", "idle", "waiting"} \cup Terminal
<1>1. x.state # "absent" => StateOf(x) \in {"init", "idle", "waiting"} \cup Terminal
  <2>1. x.state \in {"absent", "init", "idle"} \cup Terminal
    BY DEF Context
  <2>. QED
    BY <2>1 DEF StateOf, Terminal
<1>2. x.state = "absent" => PhaseIn(x, run) = "none"
  BY DEF PhaseIn
<1>3. x.state # "absent" /\ run => PhaseIn(x, run) = "running"
  BY DEF PhaseIn
<1>4. x.state # "absent" /\ ~run /\ x.commits > 0 => PhaseIn(x, run) = "committed"
  BY DEF PhaseIn
<1>5. ASSUME x.state # "absent", ~run, ~(x.commits > 0)
      PROVE  /\ StateOf(x) = "init" => PhaseIn(x, run) = "new"
             /\ StateOf(x) = "idle" => PhaseIn(x, run) = "ready"
             /\ StateOf(x) = "waiting" => PhaseIn(x, run) = "waiting"
             /\ StateOf(x) \in Terminal => PhaseIn(x, run) = "failed"
  BY <1>5 DEF PhaseIn, Terminal
<1>. QED
  BY <1>1, <1>2, <1>3, <1>4, <1>5

\* The calls in progress, and a context in the middle of a step.
LEMMA BusyCalled ==
    ASSUME FramesOK(frames), MayCall
    PROVE  /\ FramesOK(Called) /\ Called # <<>>
           /\ \A c \in Ctx : /\ RunsIn(Called, c) <=> RunsIn(frames, c)
                             /\ Busy(Called, c) <=> Busy(frames, c)
BY HeldInCall DEF Busy

LEMMA BusyPushed ==
    ASSUME NEW fs, FramesOK(fs), fs # <<>>, NEW f \in Frame,
           f.kind = "commit" \/ (f.kind = "op" /\ ~RunsIn(fs, f.ctx))
    PROVE  \A c \in Ctx : Busy(Append(fs, f), c) <=> Busy(fs, c) \/ f.ctx = c
<1>1. fs \in Seq(Frame)
  BY DEF FramesOK
<1>. QED
  BY <1>1, HeldPushed, PushedLemma DEF Busy

LEMMA BusyBelow ==
    ASSUME FramesOK(frames), frames # <<>>, Top.kind # "main"
    PROVE  /\ FramesOK(Below) /\ Below # <<>> /\ Top.ctx \in Ctx /\ Busy(frames, Top.ctx)
           /\ \A c \in Ctx : Busy(Below, c) => Busy(frames, c)
           /\ \A c \in Ctx \ {Top.ctx} : RunsIn(Below, c) <=> RunsIn(frames, c)
<1>1. Top \in Frame /\ Top.kind \in {"op", "commit"}
  BY BelowLemma, FrameLemma
<1>. QED
  BY <1>1, HeldBelow, BelowLemma DEF Busy

\* While the tick executes, whoever calls is an action or a callback, and without
\* calls on foreign contexts it calls for its own one.
LEMMA OwnCall ==
    ASSUME FramesOK(frames), MayCall, tickLeft > 0
    PROVE  /\ Top.kind # "main" /\ Top.ctx \in Ctx /\ Busy(frames, Top.ctx)
           /\ OpCalls \subseteq {"errno"} =>
                 \A what, c : Allowed(what, c) /\ what # "errno" => c = Top.ctx
<1>1. frames # <<>> /\ Top.kind # "main"
  BY DEF MayCall
<1>. QED
  BY <1>1, BusyBelow DEF Allowed

\* The context that is woken comes last.
LEMMA WokenOrder ==
    ASSUME NEW R, IInv(R), NEW c \in Ctx
    PROVE  InOrder(pending, PendingAfterLeaving(c))
<1>1. /\ pending \in Seq(Ctx) /\ IsInjective(pending)
      /\ \A n \in Woken(c) : n \in Ctx /\ Behind(queues, n)
  BY PartsLemma, WokenLemma
<1>2. CASE Woken(c) = {}
  BY <1>2, SameOrder DEF PendingAfterLeaving
<1>3. CASE Woken(c) # {}
  <2>. DEFINE n == CHOOSE n \in Woken(c) : TRUE
  <2>1. n \in Woken(c) /\ PendingAfterLeaving(c) = Requeued(pending, n)
    BY <1>3 DEF PendingAfterLeaving
  <2>. HIDE DEF n
  <2>2. n \in Ctx /\ n \notin Members(pending)
    BY <1>1, <2>1, PartsLemma DEF ContextOK
  <2>. QED
    BY <1>1, <2>1, <2>2, JoinedOrder
<1>. QED
  BY <1>2, <1>3

\* A call that leaves the lists alone.
LEMMA CallAlone ==
    ASSUME FramesOK(frames), NEW c \in Ctx, \A d \in Ctx \ {c} : ctx'[d] = ctx[d],
           frames' # <<>>,
           \A d \in Ctx : (RunsIn(frames', d) <=> RunsIn(frames, d)) /\ (Busy(frames', d) <=> Busy(frames, d)),
           pending' = pending
    PROVE  Alone(c) /\ Spared(c)
BY SameOrder DEF Alone, Spared, Ready

\* A context is released.
LEMMA ReleaseAlone ==
    ASSUME NEW R, IInv(R), NEW c \in Ctx, ctx[c].state # "absent", NEW fs, fs # <<>>,
           \A d \in Ctx \ {c} : (RunsIn(fs, d) <=> RunsIn(frames, d)) /\ (Busy(fs, d) => Busy(frames, d)),
           Release(c, fs)
    PROVE  Alone(c) /\ Lives(c) /\ tickLeft' = tickLeft
<1>1. /\ ctx' = [ctx EXCEPT ![c] = Absent] /\ frames' = fs /\ tickLeft' = tickLeft
      /\ pending' = Removed(PendingAfterLeaving(c), c)
  BY DEF Release
<1>2. ctx \in [Ctx -> Context] /\ pending \in Seq(Ctx) /\ IsInjective(pending) /\ ListsOK(pending, queues)
  BY PartsLemma
<1>3. /\ PendingAfterLeaving(c) \in Seq(Ctx) /\ IsInjective(PendingAfterLeaving(c))
      /\ Members(PendingAfterLeaving(c)) = Members(pending) \cup Woken(c)
      /\ \A n \in Woken(c) : n \in Ctx /\ n # c /\ Behind(queues, n)
  BY <1>2, WokenLemma
<1>4. Members(pending') = (Members(pending) \cup Woken(c)) \ {c}
  BY <1>1, <1>3, RemovedLemma
<1>5. InOrder(pending, PendingAfterLeaving(c))
  BY WokenOrder
<1>6. InOrder(pending, pending')
  BY <1>1, <1>3, <1>5, LeftOrder
<1>7. ctx'[c] = Absent /\ \A d \in Ctx \ {c} : ctx'[d] = ctx[d]
  BY <1>1, <1>2
<1>8. Lives(c)
  <2>1. Absent.state = "absent" /\ Absent \in Context
    BY LimitAssumption DEF Absent, Context
  <2>2. PhaseIn(ctx'[c], RunsIn(frames', c)) = "none"
    BY <1>7, <2>1, PhaseLemma
  <2>3. PhaseIn(ctx[c], RunsIn(frames, c)) # "none"
    <3>1. ctx[c] \in Context
      BY <1>2
    <3>. QED
      BY <3>1, PhaseLemma
  <2>. QED
    BY <2>2, <2>3 DEF Lives, Edge
<1>. QED
  BY <1>1, <1>4, <1>6, <1>7, <1>8 DEF Alone

\* A context that is idle begins to run.
LEMMA BeginAlone ==
    ASSUME ctx \in [Ctx -> Context], pending \in Seq(Ctx), IsInjective(pending),
           NEW c \in Ctx, NEW cx \in [Ctx -> Context], cx[c].state = "idle",
           NEW fs, FramesOK(fs), fs # <<>>, ~RunsIn(fs, c),
           \A d \in Ctx \ {c} : /\ cx[d] = ctx[d]
                                /\ RunsIn(fs, d) <=> RunsIn(frames, d)
                                /\ Busy(fs, d) => Busy(frames, d),
           ctx' = cx, Begin(c, cx, fs, pending)
    PROVE  /\ Alone(c)
           /\ RunsIn(frames', c) <=> cx[c].left > 0
           /\ frames' = fs \/ cx[c].left > 0
<1>. DEFINE f == OpFrame(c, cx[c])
<1>1. pending' = Removed(pending, c) /\ frames' = IF cx[c].left > 0 THEN Append(fs, f) ELSE fs
  BY DEF Begin
<1>2. f \in Frame /\ f.kind = "op" /\ f.ctx = c
  <2>1. StateOf(cx[c]) \in {"waiting", "idle", "error"}
    BY StateOfLemma
  <2>2. 0 \in 0..MaxCalls
    BY LimitAssumption
  <2>. QED
    BY <2>1, <2>2 DEF OpFrame, Frame
<1>. HIDE DEF f
<1>3. /\ FramesOK(Append(fs, f)) /\ Append(fs, f) # <<>>
      /\ \A d \in Ctx : RunsIn(Append(fs, f), d) <=> RunsIn(fs, d) \/ (f.kind = "op" /\ f.ctx = d)
      /\ \A d \in Ctx : Busy(Append(fs, f), d) <=> Busy(fs, d) \/ f.ctx = d
  BY <1>2, PushedLemma, BusyPushed
<1>4. Members(pending') = Members(pending) \ {c} /\ InOrder(pending, pending')
  BY <1>1, SameOrder, LeftOrder, RemovedLemma
<1>5. CASE cx[c].left > 0
  <2>1. frames' = Append(fs, f)
    BY <1>1, <1>5
  <2>2. RunsIn(frames', c)
    BY <1>2, <1>3, <2>1
  <2>3. \A d \in Ctx \ {c} : (RunsIn(frames', d) <=> RunsIn(frames, d)) /\ (Busy(frames', d) => Busy(frames, d))
    BY <1>2, <1>3, <2>1
  <2>. QED
    BY <1>3, <1>4, <1>5, <2>1, <2>2, <2>3 DEF Alone
<1>6. CASE ~(cx[c].left > 0)
  BY <1>1, <1>4, <1>6 DEF Alone
<1>. QED
  BY <1>5, <1>6

\* A change of state: the phase it leaves c in.
LEMMA ChangeAlone ==
    ASSUME ctx \in [Ctx -> Context], pending \in Seq(Ctx), IsInjective(pending),
           NEW c \in Ctx, NEW old, NEW cx \in [Ctx -> Context], cx[c].state # "absent",
           StateOf(cx[c]) = "idle" => cx[c].left > 0 /\ cx[c].commits = 0,
           NEW fs, FramesOK(fs), fs # <<>>,
           \A d \in Ctx \ {c} : /\ cx[d] = ctx[d]
                                /\ RunsIn(fs, d) <=> RunsIn(frames, d)
                                /\ Busy(fs, d) => Busy(frames, d),
           StateOf(cx[c]) # "idle" \/ c \notin Members(pending),
           StateChange(c, old, cx, fs)
    PROVE  /\ Alone(c)
           /\ \/ /\ Quiet(c, old, StateOf(cx[c]), fs) /\ frames' = fs /\ pending' = pending
                 /\ PhaseIn(ctx'[c], RunsIn(frames', c)) = PhaseIn(cx[c], RunsIn(fs, c))
              \/ /\ ~Quiet(c, old, StateOf(cx[c]), fs)
                 /\ StateOf(cx[c]) = "idle"
                 /\ PhaseIn(ctx'[c], RunsIn(frames', c)) \in {"running", "ready"}
              \/ /\ ~Quiet(c, old, StateOf(cx[c]), fs)
                 /\ StateOf(cx[c]) \in Terminal /\ pending' = pending
                 /\ PhaseIn(ctx'[c], RunsIn(frames', c)) = "committed"
<1>. DEFINE x     == cx[c]
            cur   == StateOf(x)
            quiet == Quiet(c, old, cur, fs)
<1>1. x \in Context /\ cur \in {"absent", "init", "waiting", "idle"} \cup Terminal
      /\ (cur = "idle" => x.state = "idle") /\ x.commits \in Nat
  BY StateOfLemma
<1>2. CASE quiet /\ ctx' = cx /\ frames' = fs /\ pending' = pending
  <2>1. Alone(c)
    BY <1>2, SameOrder DEF Alone
  <2>. QED
    BY <1>2, <2>1
<1>3. CASE ~quiet /\ cur = "idle" /\ ctx' = cx /\ Begin(c, cx, fs, pending)
  <2>1. ~RunsIn(fs, c)
    BY <1>3 DEF Quiet
  <2>2. Alone(c) /\ RunsIn(frames', c)
    BY <1>1, <1>3, <2>1, BeginAlone
  <2>3. PhaseIn(ctx'[c], RunsIn(frames', c)) = "running"
    BY <1>1, <1>3, <2>2, PhaseLemma
  <2>. QED
    BY <1>3, <2>2, <2>3
<1>4. CASE ~quiet /\ cur = "idle" /\ ctx' = cx /\ frames' = fs /\ pending' = Requeued(pending, c)
  <2>1. ~RunsIn(fs, c) /\ c \notin Members(pending)
    BY <1>4 DEF Quiet
  <2>2. Members(pending') = Members(pending) \cup {c} /\ InOrder(pending, pending')
    <3>1. /\ InOrder(pending, Append(pending, c)) /\ Requeued(pending, c) = Append(pending, c)
          /\ Members(Append(pending, c)) = Members(pending) \cup {c}
      BY <2>1, JoinedOrder, AppendLemma
    <3>2. pending' = Append(pending, c)
      BY <1>4, <3>1
    <3>. QED
      BY <3>1, <3>2
  <2>3. Alone(c)
    BY <1>4, <2>2 DEF Alone
  <2>4. PhaseIn(ctx'[c], RunsIn(frames', c)) = "ready"
    BY <1>1, <1>4, <2>1, PhaseLemma
  <2>. QED
    BY <1>4, <2>3, <2>4
<1>5. CASE /\ ~quiet /\ cur \in Terminal
           /\ ctx' = [cx EXCEPT ![c].commits = @ + 1]
           /\ frames' = Append(fs, CommitFrame(c)) /\ pending' = pending
  <2>. DEFINE f == CommitFrame(c)
  <2>1. f \in Frame /\ f.kind = "commit" /\ f.ctx = c
    BY LimitAssumption DEF CommitFrame, Frame
  <2>2. frames' = Append(fs, f)
    BY <1>5
  <2>. HIDE DEF f
  <2>3. f.kind # "op"
    BY <2>1
  <2>4. /\ frames' # <<>>
        /\ \A d \in Ctx : RunsIn(frames', d) <=> RunsIn(fs, d)
        /\ \A d \in Ctx : Busy(frames', d) <=> Busy(fs, d) \/ f.ctx = d
    BY <2>1, <2>2, <2>3, PushedLemma, BusyPushed
  <2>5. ~RunsIn(fs, c)
    BY <1>5 DEF Quiet
  <2>6. /\ ctx'[c].commits = x.commits + 1 /\ ctx'[c].state = x.state
        /\ ctx'[c] = [x EXCEPT !.commits = @ + 1]
        /\ \A d \in Ctx \ {c} : ctx'[d] = cx[d]
    <3>. DEFINE y == [x EXCEPT !.commits = @ + 1]
    <3>1. y.commits = x.commits + 1 /\ y.state = x.state
      BY <1>1 DEF Context
    <3>2. ctx' = [cx EXCEPT ![c] = y]
      BY <1>5
    <3>. HIDE DEF y
    <3>3. ctx'[c] = y /\ \A d \in Ctx \ {c} : ctx'[d] = cx[d]
      BY <3>2
    <3>. QED
      BY <3>1, <3>3 DEF y
  <2>7. PhaseIn(ctx'[c], RunsIn(frames', c)) = "committed"
    <3>1. ctx'[c].commits > 0 /\ ctx'[c].state # "absent" /\ ~RunsIn(frames', c)
      BY <1>1, <2>4, <2>5, <2>6
    <3>. QED
      BY <3>1 DEF PhaseIn
  <2>8. Alone(c)
    BY <1>5, <2>1, <2>4, <2>6, SameOrder DEF Alone
  <2>. QED
    BY <1>5, <2>7, <2>8
<1>. QED
  BY <1>2, <1>3, <1>4, <1>5 DEF StateChange

\* The operations, one by one.
LEMMA CreateMoves == ASSUME NEW R, IInv(R), NEW c \in Ctx, Create(c) PROVE Moves(c)
<1>. DEFINE x == [Absent EXCEPT !.state = "init"]
<1>1. /\ MayCall /\ ctx[c].state = "absent" /\ ctx' = [ctx EXCEPT ![c] = x]
      /\ pending' = Append(pending, c) /\ frames' = Called /\ tickLeft' = tickLeft
  BY DEF Create, Alive
<1>2. x \in Context /\ x.state = "init" /\ x.commits = 0 /\ ~x.errno
  <2>1. Absent \in Context /\ ~Absent.errno /\ Absent.commits = 0
    BY LimitAssumption DEF Absent, Context
  <2>. QED
    BY <2>1 DEF Context
<1>. HIDE DEF x
<1>3. ctx \in [Ctx -> Context] /\ pending \in Seq(Ctx) /\ IsInjective(pending)
  BY PartsLemma
<1>4. ctx'[c] = x /\ \A d \in Ctx \ {c} : ctx'[d] = ctx[d]
  BY <1>1, <1>3
<1>5. ~RunsIn(frames, c) /\ c \notin Members(pending)
  BY <1>1, AbsentLemma
<1>6. /\ frames' # <<>>
      /\ \A d \in Ctx : (RunsIn(frames', d) <=> RunsIn(frames, d)) /\ (Busy(frames', d) <=> Busy(frames, d))
  BY <1>1, PartsLemma, BusyCalled
<1>7. Members(pending') = Members(pending) \cup {c} /\ InOrder(pending, pending')
  BY <1>1, <1>3, <1>5, JoinedOrder, AppendLemma
<1>8. Lives(c)
  <2>1. PhaseIn(ctx[c], RunsIn(frames, c)) = "none"
    BY <1>1, <1>3, PhaseLemma
  <2>2. StateOf(x) = "init"
    BY <1>2 DEF StateOf
  <2>3. PhaseIn(ctx'[c], RunsIn(frames', c)) = "new"
    BY <1>2, <1>4, <1>5, <1>6, <2>2, PhaseLemma
  <2>. QED
    BY <2>1, <2>3 DEF Lives, Edge
<1>. QED
  BY <1>1, <1>4, <1>5, <1>6, <1>7, <1>8 DEF Moves, Alone, Spared, Ready

\* A call that changes one context and no list.
LEMMA CallMoves ==
    ASSUME NEW R, IInv(R), MayCall, frames' = Called, pending' = pending, tickLeft' = tickLeft,
           NEW c \in Ctx, NEW x \in Context, ctx' = [ctx EXCEPT ![c] = x],
           Edge(PhaseIn(ctx[c], RunsIn(frames, c)), PhaseIn(x, RunsIn(frames, c)))
    PROVE  Moves(c)
<1>1. FramesOK(frames) /\ ctx \in [Ctx -> Context]
  BY PartsLemma
<1>2. ctx'[c] = x /\ \A d \in Ctx \ {c} : ctx'[d] = ctx[d]
  BY <1>1
<1>3. /\ frames' # <<>>
      /\ \A d \in Ctx : (RunsIn(frames', d) <=> RunsIn(frames, d)) /\ (Busy(frames', d) <=> Busy(frames, d))
  BY <1>1, BusyCalled
<1>4. Alone(c) /\ Spared(c)
  BY <1>1, <1>2, <1>3, CallAlone
<1>5. PhaseIn(x, RunsIn(frames', c)) = PhaseIn(x, RunsIn(frames, c))
  <2>1. RunsIn(frames', c) = RunsIn(frames, c)
    BY <1>3 DEF RunsIn
  <2>. QED
    BY <2>1
<1>. QED
  BY <1>2, <1>4, <1>5 DEF Moves, Lives

LEMMA BindMoves == ASSUME NEW R, IInv(R), NEW c \in Ctx, Bind(c) PROVE Moves(c)
<1>1. PICK n \in 1..MaxActions : ctx' = [ctx EXCEPT ![c].state = "idle", ![c].left = n]
  BY DEF Bind
<1>. DEFINE x == [ctx[c] EXCEPT !.state = "idle", !.left = n]
            run == RunsIn(frames, c)
<1>2. /\ MayCall /\ ctx[c].state = "init" /\ frames' = Called /\ pending' = pending /\ tickLeft' = tickLeft
  BY DEF Bind
<1>3. ctx[c] \in Context /\ ctx[c].waits \in Nat /\ ctx[c].commits \in Nat
  BY PartsLemma, StateOfLemma
<1>4. /\ x \in Context /\ x.state = "idle" /\ x.errno = ctx[c].errno
      /\ x.waits = ctx[c].waits /\ x.commits = ctx[c].commits
  <2>1. n \in 0..MaxActions
    BY LimitAssumption
  <2>. QED
    BY <1>3, <2>1 DEF Context
<1>5. ctx' = [ctx EXCEPT ![c] = x]
  BY <1>1, PartsLemma
<1>. HIDE DEF x
<1>6. ~run /\ ctx[c].waits = 0
  BY <1>2, <1>3, PartsLemma DEF ContextOK, Terminal
<1>. HIDE DEF run
<1>7. /\ StateOf(x) = IF x.errno THEN "error" ELSE "idle"
      /\ StateOf(ctx[c]) = IF x.errno THEN "error" ELSE "init"
  BY <1>2, <1>4, <1>6 DEF StateOf
<1>8. /\ x.commits > 0 => PhaseIn(ctx[c], run) = "committed" /\ PhaseIn(x, run) = "committed"
      /\ ~(x.commits > 0) /\ x.errno => PhaseIn(ctx[c], run) = "failed" /\ PhaseIn(x, run) = "failed"
      /\ ~(x.commits > 0) /\ ~x.errno => PhaseIn(ctx[c], run) = "new" /\ PhaseIn(x, run) = "ready"
  BY <1>2, <1>3, <1>4, <1>6, <1>7, PhaseLemma DEF Terminal
<1>9. Edge(PhaseIn(ctx[c], run), PhaseIn(x, run))
  BY <1>8 DEF Edge
<1>. QED
  BY <1>2, <1>4, <1>5, <1>9, CallMoves DEF run

LEMMA ErrnoMoves == ASSUME NEW R, IInv(R), NEW c \in Ctx, ErrnoSet(c) PROVE Moves(c)
<1>. DEFINE x == [ctx[c] EXCEPT !.errno = TRUE]
            run == RunsIn(frames, c)
<1>1. /\ MayCall /\ ctx[c].state # "absent" /\ frames' = Called
      /\ ctx' = [ctx EXCEPT ![c].errno = TRUE] /\ pending' = pending /\ tickLeft' = tickLeft
  BY DEF ErrnoSet, Alive
<1>2. ctx[c] \in Context
  BY PartsLemma
<1>3. /\ x \in Context /\ x.state = ctx[c].state /\ x.errno /\ x.commits = ctx[c].commits
  BY <1>2 DEF Context
<1>4. ctx' = [ctx EXCEPT ![c] = x]
  BY <1>1, PartsLemma
<1>. HIDE DEF x, run
<1>5. StateOf(x) \in Terminal
  BY <1>3 DEF StateOf, Terminal
<1>6. Edge(PhaseIn(ctx[c], run), PhaseIn(x, run))
  BY <1>1, <1>2, <1>3, <1>5, PhaseLemma DEF Edge
<1>. QED
  BY <1>1, <1>3, <1>4, <1>6, CallMoves DEF run

LEMMA LeaveMoves ==
    ASSUME NEW R, IInv(R), MayCall, NEW c \in Ctx, NEW state \in Terminal, Leave(c, state),
           OpCalls \subseteq {"errno"} /\ tickLeft > 0 => Busy(frames, c)
    PROVE  Moves(c)
<1>. DEFINE x  == [ctx[c] EXCEPT !.state = state]
            cx == [ctx EXCEPT ![c] = x]
            old == StateOf(ctx[c])
            p == PhaseIn(ctx[c], RunsIn(frames, c))
            q == PhaseIn(ctx'[c], RunsIn(frames', c))
<1>1. /\ ctx[c].state # "absent" /\ StateChange(c, old, [ctx EXCEPT ![c].state = state], Called)
      /\ tickLeft' = tickLeft
  BY DEF Leave, Alive
<1>2. [ctx EXCEPT ![c].state = state] = cx
  BY PartsLemma
<1>3. StateChange(c, old, cx, Called)
  BY <1>1, <1>2
<1>4. /\ ctx \in [Ctx -> Context] /\ pending \in Seq(Ctx) /\ IsInjective(pending) /\ ctx[c] \in Context
      /\ ctx[c].commits \in Nat
  BY PartsLemma, StateOfLemma
<1>5. x \in Context /\ x.state = state /\ x.commits = ctx[c].commits
  BY <1>4 DEF Context
<1>6. cx \in [Ctx -> Context] /\ cx[c] = x /\ \A d \in Ctx \ {c} : cx[d] = ctx[d]
  BY <1>4, <1>5
<1>. HIDE DEF x, cx
<1>7. StateOf(x) \in Terminal /\ StateOf(x) # "idle" /\ x.state # "absent" /\ StateOf(x) \notin UnderIdle
  BY <1>5 DEF StateOf, Terminal, UnderIdle
<1>8. FramesOK(Called) /\ Called # <<>>
      /\ \A d \in Ctx : (RunsIn(Called, d) <=> RunsIn(frames, d)) /\ (Busy(Called, d) <=> Busy(frames, d))
  BY PartsLemma, BusyCalled
<1>9. /\ Alone(c)
      /\ \/ Quiet(c, old, StateOf(x), Called) /\ q = PhaseIn(x, RunsIn(Called, c))
         \/ ~Quiet(c, old, StateOf(x), Called) /\ q = "committed"
  <2>. HIDE DEF old
  <2>. QED
    BY <1>3, <1>4, <1>6, <1>7, <1>8, ChangeAlone
<1>10. Edge(p, q)
  <2>1. CASE RunsIn(frames, c)
    <3>1. p = "running"
      BY <1>1, <1>4, <2>1, PhaseLemma
    <3>2. q \in {"running", "committed"}
      BY <1>5, <1>7, <1>8, <1>9, <2>1, PhaseLemma
    <3>. QED
      BY <3>1, <3>2 DEF Edge
  <2>2. CASE ~RunsIn(frames, c) /\ old \in Terminal
    <3>1. q = PhaseIn(x, RunsIn(Called, c)) /\ ~RunsIn(Called, c)
      BY <1>8, <1>9, <2>2 DEF Quiet, UpToIdle, Terminal
    <3>2. q = p
      BY <1>1, <1>4, <1>5, <1>7, <2>2, <3>1, PhaseLemma
    <3>. QED
      BY <3>2 DEF Edge
  <2>3. CASE ~RunsIn(frames, c) /\ old \notin Terminal
    <3>1. old \in {"init", "idle", "waiting"}
      BY <1>1, <1>4, <2>3, PhaseLemma
    <3>2. q = "committed"
      BY <1>7, <1>8, <1>9, <2>3, <3>1 DEF Quiet, UpToIdle
    <3>3. ~(ctx[c].commits > 0)
      BY <1>4, <2>3, PartsLemma DEF ContextOK
    <3>4. p \in {"new", "ready", "waiting"}
      BY <1>1, <1>4, <2>3, <3>1, <3>3, PhaseLemma
    <3>. QED
      BY <3>2, <3>4 DEF Edge
  <2>. QED
    BY <2>1, <2>2, <2>3
<1>. QED
  BY <1>1, <1>9, <1>10 DEF Moves, Lives, Spared, Ready

LEMMA FreeMoves == ASSUME NEW R, IInv(R), NEW c \in Ctx, Free(c) PROVE Moves(c)
<1>1. MayCall /\ ctx[c].state # "absent" /\ Allowed("free", c)
  BY DEF Free, Alive
<1>2. CASE /\ RunsIn(frames, c) /\ ctx' = [ctx EXCEPT ![c].deleting = TRUE] /\ frames' = Called
           /\ pending' = pending /\ tickLeft' = tickLeft
  <2>. DEFINE x == [ctx[c] EXCEPT !.deleting = TRUE]
  <2>1. ctx[c] \in Context
    BY PartsLemma
  <2>2. x \in Context /\ x.state = ctx[c].state
    BY <2>1 DEF Context
  <2>3. ctx' = [ctx EXCEPT ![c] = x]
    BY <1>2, PartsLemma
  <2>. HIDE DEF x
  <2>4. PhaseIn(ctx[c], RunsIn(frames, c)) = "running" /\ PhaseIn(x, RunsIn(frames, c)) = "running"
    BY <1>1, <1>2, <2>1, <2>2, PhaseLemma
  <2>5. Edge(PhaseIn(ctx[c], RunsIn(frames, c)), PhaseIn(x, RunsIn(frames, c)))
    BY <2>4 DEF Edge
  <2>. QED
    BY <1>1, <1>2, <2>2, <2>3, <2>5, CallMoves
<1>3. CASE Release(c, Called)
  <2>1. /\ Called # <<>>
        /\ \A d \in Ctx : (RunsIn(Called, d) <=> RunsIn(frames, d)) /\ (Busy(Called, d) <=> Busy(frames, d))
    BY <1>1, PartsLemma, BusyCalled
  <2>2. Alone(c) /\ Lives(c) /\ tickLeft' = tickLeft
    BY <1>1, <1>3, <2>1, ReleaseAlone
  <2>3. OpCalls \subseteq {"errno"} /\ tickLeft > 0 => Busy(frames, c)
    BY <1>1, PartsLemma, OwnCall
  <2>. QED
    BY <2>2, <2>3 DEF Moves, Spared, Ready
<1>. QED
  BY <1>2, <1>3 DEF Free, Running

LEMMA ExecuteMoves == ASSUME NEW R, IInv(R), NEW c \in Ctx, Execute(c) PROVE Moves(c)
<1>1. /\ MayCall /\ StateOf(ctx[c]) \in {"idle", "waiting"} /\ ~RunsIn(frames, c)
      /\ Allowed("execute", c)
      /\ Begin(c, ctx, Called, pending) /\ ctx' = ctx /\ tickLeft' = tickLeft
  BY DEF Execute, Running
<1>2. ctx \in [Ctx -> Context] /\ ctx[c] \in Context /\ ctx[c].commits \in Nat
  BY PartsLemma, StateOfLemma
<1>3. ctx[c].state = "idle" /\ ~ctx[c].errno
  BY <1>1, <1>2, StateOfLemma
<1>4. ~(ctx[c].commits > 0) /\ ctx[c].left > 0
  <2>1. StateOf(ctx[c]) \notin Terminal
    BY <1>1 DEF Terminal
  <2>. QED
    BY <1>2, <1>3, <2>1, PartsLemma DEF ContextOK
<1>5. /\ FramesOK(Called) /\ Called # <<>>
      /\ \A d \in Ctx : (RunsIn(Called, d) <=> RunsIn(frames, d)) /\ (Busy(Called, d) <=> Busy(frames, d))
  BY <1>1, PartsLemma, BusyCalled
<1>6. Alone(c) /\ RunsIn(frames', c)
  BY <1>1, <1>2, <1>3, <1>4, <1>5, PartsLemma, BeginAlone
<1>7. /\ PhaseIn(ctx[c], RunsIn(frames, c)) \in {"ready", "waiting"}
      /\ PhaseIn(ctx'[c], RunsIn(frames', c)) = "running"
  <2>1. ctx[c].state # "absent" /\ ctx'[c] = ctx[c]
    BY <1>1, <1>3
  <2>2. PhaseIn(ctx[c], RunsIn(frames, c)) \in {"ready", "waiting"}
    BY <1>1, <1>2, <1>4, <2>1, PhaseLemma
  <2>3. PhaseIn(ctx[c], RunsIn(frames', c)) = "running"
    BY <1>2, <1>6, <2>1, PhaseLemma
  <2>. QED
    BY <2>1, <2>2, <2>3
<1>8. OpCalls \subseteq {"errno"} /\ tickLeft > 0 => Busy(frames, c)
  BY <1>1, PartsLemma, OwnCall
<1>. QED
  BY <1>1, <1>6, <1>7, <1>8 DEF Moves, Lives, Edge, Spared, Ready

LEMMA CreateRequireMoves ==
    ASSUME NEW R, IInv(R), NEW r \in Req, CreateRequire(r) PROVE \E c \in Ctx : Moves(c)
<1>. DEFINE c == Top.ctx
            x == [ctx[c] EXCEPT !.waits = @ + 1]
<1>1. /\ MayCall /\ frames # <<>> /\ Top.kind = "op" /\ ctx' = [ctx EXCEPT ![c].waits = @ + 1]
      /\ frames' = Called /\ pending' = pending /\ tickLeft' = tickLeft
  BY DEF CreateRequire, MayCall
<1>2. c \in Ctx /\ RunsIn(frames, c) /\ ctx[c].state # "absent" /\ ctx[c] \in Context
  BY <1>1, OpLemma
<1>. HIDE DEF c
<1>3. x \in Context /\ x.state = ctx[c].state
  BY <1>2 DEF Context
<1>4. ctx' = [ctx EXCEPT ![c] = x]
  BY <1>1, <1>2, PartsLemma
<1>. HIDE DEF x
<1>5. PhaseIn(ctx[c], RunsIn(frames, c)) = "running" /\ PhaseIn(x, RunsIn(frames, c)) = "running"
  BY <1>2, <1>3, PhaseLemma
<1>6. Edge(PhaseIn(ctx[c], RunsIn(frames, c)), PhaseIn(x, RunsIn(frames, c)))
  BY <1>5 DEF Edge
<1>7. Moves(c)
  BY <1>1, <1>2, <1>3, <1>4, <1>6, CallMoves
<1>. QED
  BY <1>2, <1>7

LEMMA ResolveMoves ==
    ASSUME NEW R, IInv(R), MayCall, NEW r \in Req, NEW rq \in [Req -> Require \cup {NoRequire}],
           rq[r] = NoRequire \/ (rq[r].of = req[r].of /\ rq[r].state # "waiting"),
           \A s \in Req \ {r} : rq[s] = req[s], Resolve(r, rq)
    PROVE  \E c \in Ctx : Moves(c)
<1>0. PICK c \in Ctx : c = req[r].of
  <2>1. req[r].state = "waiting"
    BY DEF Resolve, MayResolve
  <2>2. req[r] # NoRequire
    BY <2>1 DEF NoRequire
  <2>. QED
    BY <2>2, PartsLemma, RequireLemma
<1>. DEFINE x   == [ctx[c] EXCEPT !.waits = @ - 1]
            cx  == [ctx EXCEPT ![c].waits = @ - 1]
            old == StateOf(ctx[c])
            p   == PhaseIn(ctx[c], RunsIn(frames, c))
            q   == PhaseIn(ctx'[c], RunsIn(frames', c))
<1>1. req[r].state = "waiting" /\ StateChange(c, old, cx, Called) /\ tickLeft' = tickLeft
  BY <1>0 DEF Resolve, MayResolve
<1>2. c \in Ctx
  BY <1>0
<1>3. ctx \in [Ctx -> Context] /\ ctx[c] \in Context /\ cx = [ctx EXCEPT ![c] = x]
  BY <1>2, PartsLemma
<1>4. x.state = ctx[c].state /\ x.waits = ctx[c].waits - 1 /\ x.commits = ctx[c].commits
      /\ x.errno = ctx[c].errno /\ x.left = ctx[c].left
  BY <1>3 DEF Context
<1>5. \A d \in Ctx : cx[d] = IF d = c THEN x ELSE ctx[d]
  BY <1>2, <1>3
<1>6. ctx[c].waits > 0 /\ ctx[c].state # "absent"
  <2>. HIDE DEF x, cx
  <2>1. /\ \A d \in Ctx : cx[d].state = ctx[d].state
        /\ \A d \in Ctx : cx[d].waits = IF d = c THEN ctx[d].waits - 1 ELSE ctx[d].waits
    BY <1>4, <1>5
  <2>. QED
    BY <1>0, <1>1, <2>1, PartsLemma, ResolvedLemma
<1>7. /\ ctx[c].waits \in Nat /\ ctx[c].commits \in Nat
      /\ ContextOK(ctx[c], RunsIn(frames, c), c \in Members(pending), Behind(queues, c), Linked(queues, c), c \in R)
  BY <1>2, <1>3, PartsLemma, StateOfLemma
<1>8. x \in Context
  <2>1. ctx[c].waits - 1 \in Nat
    BY <1>6, <1>7
  <2>. QED
    BY <1>3, <2>1 DEF Context
<1>9. cx \in [Ctx -> Context] /\ cx[c] = x
  BY <1>2, <1>3, <1>8
<1>. HIDE DEF x, cx
<1>10. /\ FramesOK(Called) /\ Called # <<>>
       /\ \A d \in Ctx : (RunsIn(Called, d) <=> RunsIn(frames, d)) /\ (Busy(Called, d) <=> Busy(frames, d))
  BY PartsLemma, BusyCalled
<1>11. c \notin Members(pending) /\ ctx[c].state \in {"idle"} \cup Terminal
  BY <1>6, <1>7 DEF ContextOK
<1>12. /\ StateOf(x) = "idle" => x.state = "idle" /\ ~x.errno /\ x.waits = 0
       /\ StateOf(x) \in Terminal <=> x.errno \/ x.state \in Terminal
       /\ old \in Terminal <=> ctx[c].errno \/ ctx[c].state \in Terminal
  BY <1>3, <1>8, StateOfLemma
<1>13. StateOf(x) = "idle" => x.left > 0 /\ x.commits = 0
  <2>1. SUFFICES ASSUME StateOf(x) = "idle" PROVE x.left > 0 /\ x.commits = 0
    OBVIOUS
  <2>2. ctx[c].state = "idle" /\ ~ctx[c].errno
    BY <1>4, <1>12, <2>1
  <2>3. ctx[c].left > 0
    BY <1>7, <2>2 DEF ContextOK
  <2>4. old \notin Terminal
    BY <1>12, <2>2 DEF Terminal
  <2>5. ctx[c].commits # 1 /\ ctx[c].commits <= 1
    BY <1>7, <2>4 DEF ContextOK
  <2>. QED
    BY <1>4, <1>7, <2>3, <2>5
<1>14. \A d \in Ctx \ {c} : /\ cx[d] = ctx[d]
                            /\ RunsIn(Called, d) <=> RunsIn(frames, d)
                            /\ Busy(Called, d) => Busy(frames, d)
  BY <1>5, <1>10
<1>15. /\ Alone(c)
       /\ \/ Quiet(c, old, StateOf(x), Called) /\ q = PhaseIn(x, RunsIn(Called, c))
          \/ ~Quiet(c, old, StateOf(x), Called) /\ StateOf(x) = "idle" /\ q \in {"running", "ready"}
          \/ ~Quiet(c, old, StateOf(x), Called) /\ StateOf(x) \in Terminal /\ q = "committed"
  <2>. HIDE DEF old
  <2>1. cx[c].state # "absent"
    BY <1>4, <1>6, <1>9
  <2>2. StateOf(cx[c]) = "idle" => cx[c].left > 0 /\ cx[c].commits = 0
    BY <1>9, <1>13
  <2>3. ctx \in [Ctx -> Context] /\ pending \in Seq(Ctx) /\ IsInjective(pending)
    BY PartsLemma
  <2>4. StateChange(c, old, cx, Called)
    BY <1>1
  <2>5. StateOf(cx[c]) # "idle" \/ c \notin Members(pending)
    BY <1>11
  <2>6. /\ Alone(c)
        /\ \/ Quiet(c, old, StateOf(cx[c]), Called) /\ q = PhaseIn(cx[c], RunsIn(Called, c))
           \/ ~Quiet(c, old, StateOf(cx[c]), Called) /\ StateOf(cx[c]) = "idle" /\ q \in {"running", "ready"}
           \/ ~Quiet(c, old, StateOf(cx[c]), Called) /\ StateOf(cx[c]) \in Terminal /\ q = "committed"
    BY <1>9, <1>10, <1>14, <2>1, <2>2, <2>3, <2>4, <2>5, ChangeAlone
  <2>. QED
    BY <1>9, <2>6
<1>16. Edge(p, q)
  <2>1. CASE RunsIn(frames, c)
    <3>1. p = "running"
      BY <1>3, <1>6, <2>1, PhaseLemma
    <3>2. q = "running"
      BY <1>2, <1>4, <1>6, <1>8, <1>10, <1>15, <2>1, PhaseLemma DEF Quiet
    <3>. QED
      BY <3>1, <3>2 DEF Edge
  <2>2. CASE ~RunsIn(frames, c) /\ old \in Terminal
    <3>1. StateOf(x) \in Terminal
      BY <1>4, <1>12, <2>2
    <3>2. q = PhaseIn(x, RunsIn(Called, c)) /\ ~RunsIn(Called, c)
      BY <1>2, <1>10, <1>15, <2>2 DEF Quiet, UpToIdle, Terminal
    <3>3. p = PhaseIn(x, RunsIn(Called, c))
      BY <1>3, <1>4, <1>6, <1>8, <2>2, <3>1, <3>2, PhaseLemma
    <3>. QED
      BY <3>2, <3>3 DEF Edge
  <2>3. CASE ~RunsIn(frames, c) /\ old \notin Terminal
    <3>1. ctx[c].state = "idle" /\ ~ctx[c].errno
      BY <1>11, <1>12, <2>3
    <3>2. old = "waiting"
      BY <1>6, <3>1 DEF StateOf
    <3>3. ~(ctx[c].commits > 0)
      BY <1>7, <2>3 DEF ContextOK
    <3>4. p = "waiting"
      BY <1>3, <1>6, <2>3, <3>2, <3>3, PhaseLemma
    <3>5. StateOf(x) \in {"idle", "waiting"}
      BY <1>4, <3>1 DEF StateOf
    <3>6. StateOf(x) = "waiting" => PhaseIn(x, RunsIn(Called, c)) = "waiting"
      BY <1>2, <1>4, <1>6, <1>8, <1>10, <2>3, <3>3, PhaseLemma
    <3>7. q \in {"waiting", "running", "ready"}
      BY <1>2, <1>10, <1>15, <2>3, <3>2, <3>5, <3>6 DEF Quiet, UpToIdle, UnderIdle, Terminal
    <3>. QED
      BY <3>4, <3>7 DEF Edge
  <2>. QED
    BY <2>1, <2>2, <2>3
<1>17. Moves(c)
  BY <1>1, <1>11, <1>15, <1>16 DEF Moves, Lives, Spared, Ready
<1>. QED
  BY <1>2, <1>17

\* A call that changes no context.
LEMMA NothingMoves ==
    ASSUME NEW R, IInv(R), MayCall, frames' = Called, ctx' = ctx, pending' = pending,
           tickLeft' = tickLeft, NEW c \in Ctx
    PROVE  Moves(c)
<1>1. ctx[c] \in Context /\ ctx' = [ctx EXCEPT ![c] = ctx[c]]
  BY PartsLemma
<1>2. Edge(PhaseIn(ctx[c], RunsIn(frames, c)), PhaseIn(ctx[c], RunsIn(frames, c)))
  BY DEF Edge
<1>. QED
  BY <1>1, <1>2, CallMoves

LEMMA LateMoves ==
    ASSUME NEW R, IInv(R), MayCall, NEW r \in Req, req[r].state \in Resolved,
           frames' = Called, ctx' = ctx, pending' = pending, tickLeft' = tickLeft
    PROVE  \E c \in Ctx : Moves(c)
<1>1. req[r] # NoRequire
  BY DEF NoRequire, Resolved
<1>2. req[r].of \in Ctx
  BY <1>1, PartsLemma, RequireLemma
<1>. QED
  BY <1>2, NothingMoves

LEMMA RequireCallMoves == ASSUME NEW R, IInv(R), RequireCall PROVE \E c \in Ctx : Moves(c)
<1>1. PICK r \in Req : \/ CreateRequire(r) \/ CancelRequire(r) \/ RequireTimeout(r)
                       \/ FreeRequire(r) \/ \E o \in {"done", "error"} : Answer(r, o)
  BY DEF RequireCall
<1>2. CASE CreateRequire(r)
  BY <1>2, CreateRequireMoves
<1>3. ASSUME NEW o \in Resolved, MayCall, Resolve(r, [req EXCEPT ![r].state = o])
      PROVE  \E c \in Ctx : Moves(c)
  <2>1. req[r].state \in {"waiting"} \cup Resolved
    BY <1>3 DEF Resolve, MayResolve
  <2>. DEFINE rq == [req EXCEPT ![r].state = o]
  <2>2. /\ rq \in [Req -> Require \cup {NoRequire}] /\ rq[r].of = req[r].of /\ rq[r].state # "waiting"
        /\ \A s \in Req \ {r} : rq[s] = req[s]
    BY <2>1, OutcomeLemma
  <2>3. Resolve(r, rq)
    BY <1>3
  <2>. HIDE DEF rq
  <2>. QED
    BY <1>3, <2>2, <2>3, ResolveMoves
<1>4. CASE CancelRequire(r)
  BY <1>3, <1>4 DEF CancelRequire, Resolved
<1>5. CASE RequireTimeout(r)
  BY <1>3, <1>5 DEF RequireTimeout, MainCalls, Resolved
<1>6. ASSUME NEW o \in {"done", "error"}, Answer(r, o) PROVE \E c \in Ctx : Moves(c)
  <2>1. o \in Resolved /\ MayCall
    BY <1>6 DEF Answer, Resolved
  <2>2. CASE Resolve(r, [req EXCEPT ![r].state = o])
    BY <1>3, <2>1, <2>2
  <2>3. CASE ~Resolve(r, [req EXCEPT ![r].state = o])
    BY <1>6, <2>1, <2>3, LateMoves DEF Answer
  <2>. QED
    BY <2>2, <2>3
<1>7. CASE FreeRequire(r)
  <2>. DEFINE rq == [req EXCEPT ![r] = NoRequire]
  <2>1. MayCall
    BY <1>7 DEF FreeRequire
  <2>2. rq \in [Req -> Require \cup {NoRequire}] /\ rq[r] = NoRequire /\ \A s \in Req \ {r} : rq[s] = req[s]
    BY PartsLemma
  <2>3. CASE Resolve(r, [req EXCEPT ![r] = NoRequire])
    <3>1. Resolve(r, rq)
      BY <2>3
    <3>. HIDE DEF rq
    <3>. QED
      BY <2>1, <2>2, <3>1, ResolveMoves
  <2>4. CASE ~Resolve(r, [req EXCEPT ![r] = NoRequire])
    BY <1>7, <2>1, <2>4, LateMoves DEF FreeRequire
  <2>. QED
    BY <2>3, <2>4
<1>. QED
  BY <1>1, <1>2, <1>4, <1>5, <1>6, <1>7

LEMMA ContextCallMoves == ASSUME NEW R, IInv(R), ContextCall PROVE \E c \in Ctx : Moves(c)
<1>1. PICK c \in Ctx : \/ Create(c) \/ Bind(c) \/ Execute(c) \/ Cancel(c)
                       \/ Timeout(c) \/ ErrnoSet(c) \/ Free(c)
  BY DEF ContextCall
<1>2. CASE Cancel(c)
  <2>1. MayCall /\ Allowed("cancel", c) /\ Leave(c, "cancel") /\ "cancel" \in Terminal
    BY <1>2 DEF Cancel, Terminal
  <2>2. OpCalls \subseteq {"errno"} /\ tickLeft > 0 => Busy(frames, c)
    BY <2>1, PartsLemma, OwnCall
  <2>. QED
    BY <2>1, <2>2, LeaveMoves
<1>3. CASE Timeout(c)
  <2>1. MayCall /\ tickLeft = 0 /\ Leave(c, "timeout") /\ "timeout" \in Terminal
    BY <1>3 DEF Timeout, MainCalls, MayCall, Terminal
  <2>2. ~(tickLeft > 0)
    BY <2>1
  <2>. QED
    BY <2>1, <2>2, LeaveMoves
<1>. QED
  BY <1>1, <1>2, <1>3, CreateMoves, BindMoves, ExecuteMoves, ErrnoMoves, FreeMoves

\* A call on c that touches the lists only.
LEMMA ListMoves ==
    ASSUME NEW R, IInv(R), NEW c \in Ctx, MayCall, Allowed("enqueue", c),
           frames' = Called, ctx' = ctx, tickLeft' = tickLeft,
           InOrder(pending, pending'), Members(pending) \ {c} \subseteq Members(pending')
    PROVE  Moves(c)
<1>1. /\ frames' # <<>>
      /\ \A d \in Ctx : (RunsIn(frames', d) <=> RunsIn(frames, d)) /\ (Busy(frames', d) <=> Busy(frames, d))
  BY PartsLemma, BusyCalled
<1>2. RunsIn(frames', c) = RunsIn(frames, c)
  BY <1>1 DEF RunsIn
<1>3. OpCalls \subseteq {"errno"} /\ tickLeft > 0 => Busy(frames, c)
  BY PartsLemma, OwnCall
<1>. QED
  BY <1>1, <1>2, <1>3 DEF Moves, Alone, Lives, Edge, Spared, Ready

LEMMA QueueCallMoves == ASSUME NEW R, IInv(R), QueueCall PROVE \E c \in Ctx : Moves(c)
<1>1. PICK q \in Queue, c \in Ctx :
         \/ EnqueueTail(q, c) \/ EnqueueHead(q, c) \/ Dequeue(q, c)
         \/ \E pre \in Ctx : EnqueueAfter(q, pre, c)
  BY DEF QueueCall
<1>2. pending \in Seq(Ctx) /\ IsInjective(pending)
  BY PartsLemma
<1>3. ASSUME NEW place, NEW list, EnqueueAs(place, q, c, list) PROVE Moves(c)
  <2>1. /\ MayCall /\ Allowed("enqueue", c) /\ frames' = Called /\ ctx' = ctx /\ tickLeft' = tickLeft
        /\ pending' = IF list[1] = c THEN pending ELSE Removed(pending, c)
    BY <1>3 DEF EnqueueAs, MayEnqueue
  <2>2. /\ InOrder(pending, pending) /\ InOrder(pending, Removed(pending, c))
        /\ Members(Removed(pending, c)) = Members(pending) \ {c}
    BY <1>2, SameOrder, LeftOrder, RemovedLemma
  <2>3. InOrder(pending, pending') /\ Members(pending) \ {c} \subseteq Members(pending')
    BY <2>1, <2>2
  <2>. QED
    BY <2>1, <2>3, ListMoves
<1>4. CASE EnqueueTail(q, c) \/ EnqueueHead(q, c) \/ \E pre \in Ctx : EnqueueAfter(q, pre, c)
  BY <1>3, <1>4 DEF EnqueueTail, EnqueueHead, EnqueueAfter
<1>5. CASE Dequeue(q, c)
  <2>1. /\ MayCall /\ Allowed("enqueue", c) /\ frames' = Called /\ ctx' = ctx /\ tickLeft' = tickLeft
        /\ c \in Members(queues[q])
        /\ pending' = IF queues[q][1] = c THEN PendingAfterLeaving(c) ELSE Requeued(pending, c)
    BY <1>5 DEF Dequeue
  <2>2. CASE queues[q][1] = c
    <3>1. Members(PendingAfterLeaving(c)) = Members(pending) \cup Woken(c)
      BY PartsLemma, WokenLemma
    <3>2. InOrder(pending, pending') /\ Members(pending) \ {c} \subseteq Members(pending')
      BY <2>1, <2>2, <3>1, WokenOrder
    <3>. QED
      BY <2>1, <3>2, ListMoves
  <2>3. CASE queues[q][1] # c
    <3>1. Behind(queues, c)
      <4>1. PICK i \in 1..Len(queues[q]) : queues[q][i] = c
        BY <2>1 DEF Members
      <4>2. i \in 2..Len(queues[q])
        BY <2>3, <4>1, PartsLemma, QueueLemma DEF ListsOK
      <4>. QED
        BY <4>1, <4>2 DEF Behind, Rear
    <3>2. c \notin Members(pending)
      BY <3>1, PartsLemma DEF ContextOK
    <3>3. /\ InOrder(pending, Append(pending, c)) /\ Requeued(pending, c) = Append(pending, c)
          /\ Members(Append(pending, c)) = Members(pending) \cup {c}
      BY <1>2, <3>2, JoinedOrder, AppendLemma
    <3>4. InOrder(pending, pending') /\ Members(pending) \ {c} \subseteq Members(pending')
      BY <2>1, <2>3, <3>3
    <3>. QED
      BY <2>1, <3>4, ListMoves
  <2>. QED
    BY <2>2, <2>3
<1>. QED
  BY <1>1, <1>4, <1>5

\* The end of a run of c, with what the run did to it.
LEMMA EndMoves ==
    ASSUME NEW R, IInv(R), NEW c \in Ctx, frames # <<>>, Top.kind = "op", Top.ctx = c,
           NEW cx \in [Ctx -> Context], \A d \in Ctx \ {c} : cx[d] = ctx[d],
           cx[c].deleting = ctx[c].deleting, cx[c].commits = 0,
           ~ctx[c].deleting => cx[c].state # "absent" /\ StateOf(cx[c]) # "idle",
           ~ctx[c].deleting => StateOf(cx[c]) # "init",
           EndRun(c, cx)
    PROVE  Moves(c)
<1>1. /\ RunsIn(frames, c) /\ FramesOK(Below) /\ Below # <<>> /\ ~RunsIn(Below, c)
      /\ ctx[c] \in Context /\ ctx[c].state # "absent"
  BY OpLemma
<1>2. /\ Busy(frames, c)
      /\ \A d \in Ctx \ {c} : (RunsIn(Below, d) <=> RunsIn(frames, d)) /\ (Busy(Below, d) => Busy(frames, d))
  <2>1. Top.kind # "main"
    OBVIOUS
  <2>. QED
    BY <2>1, PartsLemma, BusyBelow
<1>3. Spared(c)
  BY <1>2 DEF Spared, Ready
<1>4. CASE ctx[c].deleting
  <2>1. Release(c, Below)
    BY <1>4 DEF EndRun
  <2>2. Alone(c) /\ Lives(c) /\ tickLeft' = tickLeft
    BY <1>1, <1>2, <2>1, ReleaseAlone
  <2>. QED
    BY <1>3, <2>2 DEF Moves
<1>5. CASE ~ctx[c].deleting
  <2>. DEFINE old == Top.old
              q   == PhaseIn(ctx'[c], RunsIn(frames', c))
  <2>1. StateChange(c, old, cx, Below) /\ tickLeft' = tickLeft
    BY <1>5 DEF EndRun
  <2>. HIDE DEF old
  <2>2. cx[c].state # "absent" /\ StateOf(cx[c]) # "idle" /\ StateOf(cx[c]) # "init"
    BY <1>5
  <2>3. ctx \in [Ctx -> Context] /\ pending \in Seq(Ctx) /\ IsInjective(pending)
    BY PartsLemma
  <2>4. \A d \in Ctx \ {c} : /\ cx[d] = ctx[d]
                             /\ RunsIn(Below, d) <=> RunsIn(frames, d)
                             /\ Busy(Below, d) => Busy(frames, d)
    BY <1>2
  <2>5. Alone(c) /\ (q = PhaseIn(cx[c], RunsIn(Below, c)) \/ q = "committed")
    BY <1>1, <2>1, <2>2, <2>3, <2>4, ChangeAlone
  <2>6. PhaseIn(cx[c], RunsIn(Below, c)) \in {"waiting", "failed"}
    <3>1. cx[c] \in Context /\ ~(cx[c].commits > 0)
      OBVIOUS
    <3>. QED
      BY <1>1, <2>2, <3>1, PhaseLemma
  <2>7. PhaseIn(ctx[c], RunsIn(frames, c)) = "running"
    BY <1>1, PhaseLemma
  <2>8. Lives(c)
    BY <2>5, <2>6, <2>7 DEF Lives, Edge
  <2>. QED
    BY <1>3, <2>1, <2>5, <2>8 DEF Moves
<1>. QED
  BY <1>4, <1>5

LEMMA OpReturnsMoves == ASSUME NEW R, IInv(R), NEW c \in Ctx, OpReturns(c) PROVE Moves(c)
<1>1. frames # <<>> /\ Top.kind = "op" /\ Top.ctx = c
  BY DEF OpReturns, OpWaits, OpNext, OpEnds
<1>2. /\ ctx[c] \in Context /\ ctx[c].commits = 0 /\ ctx[c].state \in {"idle"} \cup Terminal
      /\ ctx[c].state # "absent" /\ RunsIn(frames, c) /\ ctx[c].left \in 0..MaxActions
  BY <1>1, OpLemma
<1>3. CASE OpWaits(c)
  <2>1. ctx[c].waits > 0 /\ EndRun(c, ctx) /\ ctx \in [Ctx -> Context]
    BY <1>3, PartsLemma DEF OpWaits
  <2>2. StateOf(ctx[c]) # "idle" /\ StateOf(ctx[c]) # "init"
    BY <1>2, <2>1, StateOfLemma DEF Terminal
  <2>. QED
    BY <1>1, <1>2, <2>1, <2>2, EndMoves
<1>4. CASE OpNext(c)
  <2>1. /\ frames' = [frames EXCEPT ![Len(frames)].calls = 0]
        /\ pending' = pending /\ tickLeft' = tickLeft
    BY <1>4 DEF OpNext
  <2>2. PICK n \in 1..(ctx[c].left - 1) : ctx' = Popped(c, n)
    BY <1>4 DEF OpNext
  <2>3. n \in 0..MaxActions
    BY <1>2, LimitAssumption
  <2>4. /\ ctx' \in [Ctx -> Context] /\ \A d \in Ctx \ {c} : ctx'[d] = ctx[d]
        /\ ctx'[c].state = ctx[c].state
    BY <2>2, <2>3, PoppedContext
  <2>5. /\ frames' # <<>>
        /\ \A d \in Ctx : (RunsIn(frames', d) <=> RunsIn(frames, d)) /\ (Busy(frames', d) <=> Busy(frames, d))
    <3>1. 0 \in 0..MaxCalls
      BY LimitAssumption
    <3>. QED
      BY <1>1, <2>1, <3>1, PartsLemma, CountLemma, HeldCalled DEF Busy
  <2>6. Alone(c) /\ Spared(c)
    BY <2>1, <2>4, <2>5, PartsLemma, CallAlone
  <2>7. PhaseIn(ctx[c], RunsIn(frames, c)) = "running"
    BY <1>2, PhaseLemma
  <2>8. PhaseIn(ctx'[c], RunsIn(frames', c)) = "running"
    <3>1. ctx'[c] \in Context /\ ctx'[c].state # "absent" /\ RunsIn(frames', c)
      BY <1>2, <2>4, <2>5
    <3>. QED
      BY <3>1, PhaseLemma
  <2>. QED
    BY <2>1, <2>6, <2>7, <2>8 DEF Moves, Lives, Edge
<1>5. CASE OpEnds(c)
  <2>1. PICK cx \in [Ctx -> Context] :
           /\ EndRun(c, cx) /\ \A d \in Ctx \ {c} : cx[d] = ctx[d]
           /\ cx[c].deleting = ctx[c].deleting /\ cx[c].waits = 0 /\ cx[c].commits = 0
           /\ ~ctx[c].deleting => /\ cx[c].state \in {"idle"} \cup Terminal
                                  /\ cx[c].state = "idle" => cx[c].errno
    BY <1>5, EndedLemma
  <2>2. cx[c] \in Context
    OBVIOUS
  <2>3. ~ctx[c].deleting => /\ cx[c].state # "absent" /\ StateOf(cx[c]) # "idle"
                            /\ StateOf(cx[c]) # "init"
    BY <2>1, <2>2, StateOfLemma DEF Terminal
  <2>. QED
    BY <1>1, <2>1, <2>3, EndMoves
<1>. QED
  BY <1>3, <1>4, <1>5 DEF OpReturns

LEMMA CommitReturnsMoves == ASSUME NEW R, IInv(R), CommitReturns PROVE \E c \in Ctx : Moves(c)
<1>1. frames # <<>> /\ Top.kind = "commit"
  BY DEF CommitReturns
<1>2. Top.kind # "main"
  BY <1>1
<1>3. PICK c \in Ctx : c = Top.ctx
  BY <1>1, <1>2, PartsLemma, BusyBelow
<1>4. /\ Below # <<>> /\ Busy(frames, c)
      /\ \A d \in Ctx : Busy(Below, d) => Busy(frames, d)
      /\ \A d \in Ctx : RunsIn(Below, d) <=> RunsIn(frames, d)
  BY <1>1, <1>2, <1>3, PartsLemma, BusyBelow, BelowLemma
<1>5. Spared(c)
  BY <1>4 DEF Spared, Ready
<1>6. CASE CommitFrees /\ ctx[c].commits > 0
  <2>1. Release(c, Below)
    BY <1>3, <1>6 DEF CommitReturns
  <2>2. ctx[c].state # "absent"
    <3>1. ctx[c].commits \in Nat
      BY PartsLemma, StateOfLemma
    <3>2. ctx[c].commits = 1
      BY <1>6, <3>1, PartsLemma DEF ContextOK
    <3>. QED
      BY <3>2, PartsLemma DEF ContextOK, Terminal
  <2>3. Alone(c) /\ Lives(c) /\ tickLeft' = tickLeft
    BY <1>4, <2>1, <2>2, ReleaseAlone
  <2>. QED
    BY <1>5, <2>3 DEF Moves
<1>7. CASE ~(CommitFrees /\ ctx[c].commits > 0)
  <2>1. frames' = Below /\ ctx' = ctx /\ pending' = pending /\ tickLeft' = tickLeft
    BY <1>3, <1>7 DEF CommitReturns
  <2>2. RunsIn(frames', c) = RunsIn(frames, c)
    BY <1>4, <2>1 DEF RunsIn
  <2>. QED
    BY <1>4, <1>5, <2>1, <2>2, SameOrder DEF Moves, Alone, Lives, Edge
<1>. QED
  BY <1>6, <1>7

LEMMA CallsMove ==
    ASSUME NEW R, IInv(R),
           \/ ContextCall \/ RequireCall \/ QueueCall
           \/ \E c \in Ctx : OpReturns(c)
           \/ CommitReturns
    PROVE  \E c \in Ctx : Moves(c)
BY ContextCallMoves, RequireCallMoves, QueueCallMoves, OpReturnsMoves, CommitReturnsMoves

\* The tick executes the context in front, when no call is in progress.
LEMMA ExecutedMoves ==
    ASSUME NEW R, IInv(R), InMain => R = {}, TickExecute
    PROVE  /\ pending # <<>> /\ pending[1] \in Ctx /\ ctx' = ctx
           /\ \/ Alone(pending[1]) /\ Lives(pending[1])
              \/ frames' = frames /\ pending' = pending
<1>1. /\ InMain /\ pending # <<>> /\ ctx' = ctx /\ R = {}
  BY DEF TickExecute
<1>2. pending[1] \in Ctx /\ pending[1] \in Members(pending)
  <2>1. Len(pending) \in Nat /\ Len(pending) # 0 /\ \A i \in 1..Len(pending) : pending[i] \in Ctx
    BY <1>1, PartsLemma, QueueLemma, EmptySeq
  <2>2. 1 \in 1..Len(pending)
    BY <2>1
  <2>. QED
    BY <2>1, <2>2 DEF Members
<1>3. ASSUME ctx[pending[1]].state = "idle" PROVE Alone(pending[1]) /\ Lives(pending[1])
  <2>1. PICK c \in Ctx : c = pending[1]
    BY <1>2
  <2>2. ctx[c].state = "idle" /\ c \in Members(pending) /\ Begin(c, ctx, frames, pending)
    BY <1>2, <1>3, <2>1 DEF TickExecute
  <2>3. FramesOK(frames) /\ frames # <<>> /\ ~RunsIn(frames, c)
    BY <1>1, PartsLemma, MainLemma
  <2>4. /\ ctx \in [Ctx -> Context] /\ pending \in Seq(Ctx) /\ IsInjective(pending)
        /\ ctx[c] \in Context /\ ctx[c].commits \in Nat
    BY PartsLemma, StateOfLemma
  <2>5. Alone(c) /\ (RunsIn(frames', c) <=> ctx[c].left > 0) /\ (frames' = frames \/ ctx[c].left > 0)
    BY <1>1, <2>2, <2>3, <2>4, BeginAlone
  <2>6. ContextOK(ctx[c], RunsIn(frames, c), c \in Members(pending), Behind(queues, c), Linked(queues, c), c \in R)
    BY PartsLemma
  <2>7. ~(ctx[c].commits > 0)
    BY <1>1, <2>2, <2>4, <2>6 DEF ContextOK
  <2>8. ctx[c].state # "absent" /\ ctx[c].waits = 0
    <3>1. ctx[c].waits \in Nat
      BY <2>4, StateOfLemma
    <3>. QED
      BY <2>2, <2>6, <3>1 DEF ContextOK
  <2>9. PhaseIn(ctx[c], RunsIn(frames, c)) \in {"ready", "failed"}
    <3>1. StateOf(ctx[c]) \in {"idle", "error"}
      BY <2>2, <2>8 DEF StateOf
    <3>. QED
      BY <2>3, <2>4, <2>7, <2>8, <3>1, PhaseLemma DEF Terminal
  <2>10. Lives(c)
    <3>1. CASE ctx[c].left > 0
      <4>1. PhaseIn(ctx'[c], RunsIn(frames', c)) = "running"
        BY <1>1, <2>4, <2>5, <2>8, <3>1, PhaseLemma
      <4>. QED
        BY <2>9, <4>1 DEF Lives, Edge
    <3>2. CASE ~(ctx[c].left > 0)
      BY <1>1, <2>5, <3>2 DEF Lives, Edge
    <3>. QED
      BY <3>1, <3>2
  <2>. QED
    BY <2>1, <2>5, <2>10
<1>. QED
  BY <1>1, <1>2, <1>3 DEF TickExecute

\* The other steps of the tick.
LEMMA TickStands ==
    ASSUME NEW R, IInv(R), TickStart \/ TickCrash
    PROVE  /\ ctx' = ctx /\ pending' = pending
           /\ \A c : ~RunsIn(frames, c) /\ ~RunsIn(frames', c) /\ ~Held(frames, c) /\ ~Held(frames', c)
<1>1. /\ InMain /\ ctx' = ctx /\ pending' = pending /\ frames' \in {<<MainFrame>>, <<>>}
  BY DEF TickStart, TickCrash
<1>2. \A c : ~RunsIn(frames, c) /\ ~Held(frames, c)
  BY <1>1, PartsLemma, MainHolds DEF InMain
<1>3. ASSUME NEW f, f = MainFrame PROVE \A c : ~RunsIn(<<f>>, c) /\ ~Held(<<f>>, c)
  <2>1. f.kind = "main" /\ Len(<<f>>) = 1 /\ <<f>>[1] = f
    BY <1>3 DEF MainFrame
  <2>. QED
    BY <2>1 DEF RunsIn, Held
<1>4. \A c : ~RunsIn(<<>>, c) /\ ~Held(<<>>, c)
  BY EmptySeq DEF RunsIn, Held
<1>. QED
  BY <1>1, <1>2, <1>3, <1>4

-----------------------------------------------------------------------------
(* The order of the pending list *)

LEMMA OrderStep ==
    ASSUME NEW R, IInv(R), InMain => R = {}, [Next]_vars
    PROVE  InOrder(pending, pending')
<1>1. CASE TickExecute
  BY <1>1, ExecutedMoves, SameOrder DEF Alone
<1>2. CASE TickStart \/ TickCrash
  BY <1>2, TickStands, SameOrder
<1>3. CASE UNCHANGED vars
  BY <1>3, SameOrder DEF vars
<1>4. CASE \/ ContextCall \/ RequireCall \/ QueueCall
           \/ \E c \in Ctx : OpReturns(c)
           \/ CommitReturns
  BY <1>4, CallsMove DEF Moves, Alone
<1>. QED
  BY <1>1, <1>2, <1>3, <1>4 DEF Next, Tick

\* No operation of src/usf/logic, however the calls nest, lets a context overtake
\* another one in m_pending_contexts.
THEOREM PendingKeepsOrder == Spec => PendingInOrder
<1>1. IInv({}) /\ [Next]_vars => InOrder(pending, pending')
  BY OrderStep
<1>2. IInv({}) /\ [Next]_vars =>
         [\A b, c \in Members(pending') : b \in Members(pending) =>
             IF c \in Members(pending) THEN Before(pending, b, c) => Before(pending', b, c)
             ELSE Before(pending', b, c)]_vars
  BY <1>1 DEF InOrder
<1>. QED
  BY <1>2, Invariance, PTL DEF Spec, PendingInOrder

-----------------------------------------------------------------------------
(* Every context lives the life of ContextLife. *)

LEMMA LifeMoves ==
    ASSUME NEW c \in Ctx, Lives(c),
           \A d \in Ctx \ {c} : ctx'[d] = ctx[d] /\ (RunsIn(frames', d) <=> RunsIn(frames, d))
    PROVE  [Life!Next]_Phase
<1>. DEFINE p == PhaseIn(ctx[c], RunsIn(frames, c))
            q == PhaseIn(ctx'[c], RunsIn(frames', c))
<1>1. /\ Phase = [d \in Ctx |-> PhaseIn(ctx[d], RunsIn(frames, d))]
      /\ Phase' = [d \in Ctx |-> PhaseIn(ctx'[d], RunsIn(frames', d))]
  BY DEF Phase, Running
<1>2. ASSUME NEW d \in Ctx \ {c} PROVE Phase'[d] = Phase[d]
  <2>1. RunsIn(frames', d) = RunsIn(frames, d) /\ ctx'[d] = ctx[d]
    BY DEF RunsIn
  <2>. QED
    BY <1>1, <2>1
<1>3. Phase[c] = p /\ Phase' = [Phase EXCEPT ![c] = q]
  BY <1>1, <1>2
<1>4. p \in Life!Phases
  BY DEF PhaseIn, Life!Phases
<1>5. Edge(p, q)
  BY DEF Lives
<1>. HIDE DEF p, q
<1>6. CASE p = q
  <2>1. Phase' = Phase
    BY <1>1, <1>3, <1>6
  <2>. QED
    BY <2>1
<1>7. CASE p = "none" /\ q = "new"
  BY <1>3, <1>7 DEF Life!Next, Life!Create, Life!Move
<1>8. CASE p = "new" /\ q = "ready"
  BY <1>3, <1>8 DEF Life!Next, Life!Bind, Life!Move
<1>9. CASE p \in {"ready", "waiting", "failed"} /\ q = "running"
  BY <1>3, <1>9 DEF Life!Next, Life!Start, Life!Move
<1>10. CASE p = "running" /\ q \in {"waiting", "committed", "failed"}
  BY <1>3, <1>10 DEF Life!Next, Life!Finish, Life!Move
<1>11. CASE p = "waiting" /\ q = "ready"
  BY <1>3, <1>11 DEF Life!Next, Life!Wake, Life!Move
<1>12. CASE p \in {"new", "ready", "waiting"} /\ q = "failed"
  BY <1>3, <1>12 DEF Life!Next, Life!Fail, Life!Move
<1>13. CASE p \in {"new", "ready", "waiting"} /\ q = "committed"
  BY <1>3, <1>13 DEF Life!Next, Life!Leave, Life!Move
<1>14. CASE p # "none" /\ q = "none"
  BY <1>3, <1>4, <1>14 DEF Life!Next, Life!Free, Life!Move
<1>. QED
  BY <1>5, <1>6, <1>7, <1>8, <1>9, <1>10, <1>11, <1>12, <1>13, <1>14 DEF Edge

LEMMA LifeStands ==
    ASSUME ctx' = ctx, \A d \in Ctx : RunsIn(frames', d) <=> RunsIn(frames, d)
    PROVE  Phase' = Phase
<1>1. \A d \in Ctx : RunsIn(frames', d) = RunsIn(frames, d)
  BY DEF RunsIn
<1>. QED
  BY <1>1 DEF Phase, Running

LEMMA LifeStep ==
    ASSUME NEW R, IInv(R), InMain => R = {}, [Next]_vars
    PROVE  [Life!Next]_Phase
<1>1. CASE TickExecute
  <2>1. CASE Alone(pending[1]) /\ Lives(pending[1])
    <3>1. PICK c \in Ctx : c = pending[1]
      BY <1>1, ExecutedMoves
    <3>2. Lives(c) /\ \A d \in Ctx \ {c} : ctx'[d] = ctx[d] /\ (RunsIn(frames', d) <=> RunsIn(frames, d))
      BY <2>1, <3>1 DEF Alone
    <3>. QED
      BY <3>2, LifeMoves
  <2>2. CASE frames' = frames
    BY <1>1, <2>2, ExecutedMoves, LifeStands
  <2>. QED
    BY <1>1, <2>1, <2>2, ExecutedMoves
<1>2. CASE TickStart \/ TickCrash
  BY <1>2, TickStands, LifeStands
<1>3. CASE UNCHANGED vars
  BY <1>3, LifeStands DEF vars
<1>4. CASE \/ ContextCall \/ RequireCall \/ QueueCall
           \/ \E c \in Ctx : OpReturns(c)
           \/ CommitReturns
  <2>1. PICK c \in Ctx : Moves(c)
    BY <1>4, CallsMove
  <2>2. Lives(c) /\ \A d \in Ctx \ {c} : ctx'[d] = ctx[d] /\ (RunsIn(frames', d) <=> RunsIn(frames, d))
    BY <2>1 DEF Moves, Alone
  <2>. QED
    BY <2>2, LifeMoves
<1>. QED
  BY <1>1, <1>2, <1>3, <1>4 DEF Next, Tick

\* The scheduler implements ContextLife: whatever is called from wherever, no
\* context skips a stage, runs after its commit, or comes back without being freed.
THEOREM ContextsLiveTheirLife == Spec => LifeSpec
<1>1. Init => Life!Init
  <2>. SUFFICES ASSUME Init PROVE Life!Init
    OBVIOUS
  <2>1. Absent.state = "absent"
    BY DEF Absent
  <2>2. \A x, run : x.state = "absent" => PhaseIn(x, run) = "none"
    BY DEF PhaseIn
  <2>3. \A c \in Ctx : PhaseIn(ctx[c], Running(c)) = "none"
    BY <2>1, <2>2 DEF Init
  <2>. QED
    BY <2>3 DEF Phase, Life!Init
<1>2. IInv({}) /\ [Next]_vars => [Life!Next]_Phase
  BY LifeStep
<1>. QED
  BY <1>1, <1>2, Invariance, PTL DEF Spec, LifeSpec, Life!Spec

-----------------------------------------------------------------------------
(* The tick never finds the list empty. *)

LEMMA MembersFinite ==
    ASSUME NEW S, NEW q \in Seq(S)
    PROVE  /\ IsFiniteSet(Members(q))
           /\ IsInjective(q) => Cardinality(Members(q)) = Len(q)
<1>. DEFINE n == Len(q)
            f == [i \in 1..n |-> q[i]]
<1>1. n \in Nat /\ (IsInjective(q) <=> \A i, j \in 1..n : q[i] = q[j] => i = j)
  BY QueueLemma
<1>2. IsFiniteSet(1..n) /\ Cardinality(1..n) = n
  BY <1>1, FS_Interval
<1>3. f \in Surjection(1..n, Members(q))
  BY DEF Surjection, Members
<1>4. /\ IsFiniteSet(Members(q))
      /\ Cardinality(Members(q)) = Cardinality(1..n) <=> f \in Injection(1..n, Members(q))
  BY <1>2, <1>3, FS_Surjection
<1>5. IsInjective(q) => f \in Injection(1..n, Members(q))
  BY <1>1, <1>3 DEF Injection, Surjection
<1>. QED
  BY <1>2, <1>4, <1>5

LEMMA ReadyFinite ==
    ASSUME NEW fs, NEW pend \in Seq(Ctx)
    PROVE  IsFiniteSet(Ready(fs, pend)) /\ Cardinality(Ready(fs, pend)) \in Nat
<1>1. Ready(fs, pend) \subseteq Members(pend)
  BY DEF Ready
<1>. QED
  BY <1>1, MembersFinite, FS_Subset, FS_CardinalityType

\* As many contexts as the tick has still to execute are pending, and no call in
\* progress can take one of them away.
TickOK ==
    /\ frames # <<>>
    /\ tickLeft > 0 => tickLeft <= Cardinality(Ready(frames, pending))

\* A step that takes none of them away.
LEMMA TickGrows ==
    ASSUME pending \in Seq(Ctx), pending' \in Seq(Ctx), tickLeft \in Nat, TickOK,
           frames' # <<>>, tickLeft' = tickLeft,
           tickLeft > 0 => Ready(frames, pending) \subseteq Ready(frames', pending')
    PROVE  TickOK'
<1>1. ASSUME tickLeft > 0 PROVE tickLeft <= Cardinality(Ready(frames', pending'))
  <2>1. /\ IsFiniteSet(Ready(frames', pending')) /\ Cardinality(Ready(frames', pending')) \in Nat
        /\ Cardinality(Ready(frames, pending)) \in Nat
    BY ReadyFinite
  <2>2. Cardinality(Ready(frames, pending)) <= Cardinality(Ready(frames', pending'))
    BY <1>1, <2>1, FS_Subset
  <2>. QED
    BY <1>1, <2>1, <2>2 DEF TickOK
<1>. QED
  BY <1>1 DEF TickOK

LEMMA TickKept ==
    ASSUME OpCalls \subseteq {"errno"}, NEW R, IInv(R), pending' \in Seq(Ctx), TickOK,
           NEW c \in Ctx, Moves(c)
    PROVE  TickOK'
<1>1. frames' # <<>> /\ tickLeft' = tickLeft
  BY DEF Moves, Alone
<1>2. tickLeft > 0 => Ready(frames, pending) \subseteq Ready(frames', pending')
  BY DEF Moves, Alone, Spared, Ready
<1>3. pending \in Seq(Ctx) /\ tickLeft \in Nat
  BY PartsLemma, LimitAssumption
<1>. QED
  BY <1>1, <1>2, <1>3, TickGrows

LEMMA TickOKStep ==
    ASSUME OpCalls \subseteq {"errno"}, NEW R, IInv(R), InMain => R = {}, pending' \in Seq(Ctx),
           TickOK, [Next]_vars
    PROVE  TickOK'
<1>. DEFINE ready == Ready(frames, pending)
            after == Ready(frames', pending')
<1>1. /\ pending \in Seq(Ctx) /\ IsInjective(pending) /\ tickLeft \in Nat
      /\ IsFiniteSet(ready) /\ Cardinality(ready) \in Nat
      /\ IsFiniteSet(after) /\ Cardinality(after) \in Nat
  BY PartsLemma, ReadyFinite, LimitAssumption
<1>2. CASE TickStart
  <2>1. PICK max \in 1..TickMax : tickLeft' = TickCount(max) /\ frames' # <<>>
    BY <1>2 DEF TickStart
  <2>2. after = Members(pending)
    <3>1. Members(pending) \subseteq Ctx
      BY <1>1, QueueLemma
    <3>. QED
      BY <1>2, <3>1, TickStands DEF Ready, Busy
  <2>3. Cardinality(after) = Len(pending) /\ Len(pending) \in Nat
    BY <1>1, <2>2, MembersFinite, QueueLemma
  <2>4. TickCount(max) <= Len(pending)
    BY <2>3, LimitAssumption DEF TickCount
  <2>. QED
    BY <2>1, <2>3, <2>4 DEF TickOK
<1>3. CASE TickCrash
  <2>1. tickLeft > 0 /\ pending = <<>>
    BY <1>3 DEF TickCrash
  <2>2. ready = {}
    BY <2>1, EmptySeq DEF Ready, Members
  <2>3. tickLeft <= 0
    BY <2>1, <2>2, FS_EmptySet DEF TickOK
  <2>. QED
    BY <1>1, <2>1, <2>3
<1>4. CASE TickExecute
  <2>1. PICK c \in Ctx : c = pending[1]
    BY <1>4, ExecutedMoves
  <2>2. tickLeft > 0 /\ tickLeft' = tickLeft - 1
    BY <1>4 DEF TickExecute
  <2>3. (frames' = frames /\ pending' = pending) \/ Alone(c)
    BY <1>4, <2>1, ExecutedMoves
  <2>4. frames' # <<>>
    BY <2>3 DEF Alone, TickOK
  <2>5. ready \ {c} \subseteq after
    BY <2>3 DEF Alone, Ready
  <2>6. IsFiniteSet(ready \ {c}) /\ Cardinality(ready \ {c}) >= Cardinality(ready) - 1
    <3>. HIDE DEF ready
    <3>1. /\ IsFiniteSet(ready \ {c})
          /\ Cardinality(ready \ {c}) = IF c \in ready THEN Cardinality(ready) - 1 ELSE Cardinality(ready)
      BY <1>1, FS_RemoveElement
    <3>. QED
      BY <1>1, <3>1
  <2>7. Cardinality(ready \ {c}) <= Cardinality(after) /\ Cardinality(ready \ {c}) \in Nat
    BY <1>1, <2>5, <2>6, FS_Subset, FS_CardinalityType
  <2>. HIDE DEF ready, after
  <2>8. tickLeft <= Cardinality(ready)
    BY <2>2 DEF TickOK, ready
  <2>9. tickLeft - 1 <= Cardinality(after)
    BY <1>1, <2>6, <2>7, <2>8
  <2>. QED
    BY <2>2, <2>4, <2>9 DEF TickOK, after
<1>5. CASE UNCHANGED vars
  BY <1>5 DEF vars, TickOK
<1>6. CASE \/ ContextCall \/ RequireCall \/ QueueCall
           \/ \E c \in Ctx : OpReturns(c)
           \/ CommitReturns
  BY <1>6, CallsMove, TickKept
<1>. QED
  BY <1>2, <1>3, <1>4, <1>5, <1>6 DEF Next, Tick

\* As long as an action or callback frees, executes, cancels and enqueues its own
\* context only, the count logic_manage_tick takes before its loop stays good: it
\* never takes the head of an empty list.
THEOREM TickNeverCrashes ==
    ASSUME OpCalls \subseteq {"errno"}
    PROVE  Spec => []NoCrash
<1>1. Init => TickOK
  BY DEF Init, TickOK
<1>2. IInv({}) /\ IInv({})' /\ TickOK /\ [Next]_vars => TickOK'
  <2>. SUFFICES ASSUME NEW R, R = {}, IInv(R), IInv(R)', TickOK, [Next]_vars PROVE TickOK'
    OBVIOUS
  <2>1. pending' \in Seq(Ctx)
    BY DEF IInv, ListsOK
  <2>. QED
    BY <2>1, TickOKStep
<1>3. TickOK => NoCrash
  BY DEF TickOK, NoCrash
<1>. QED
  BY <1>1, <1>2, <1>3, Invariance, PTL DEF Spec
=============================================================================
