-------------------------- MODULE LogicStack_proofs --------------------------
(***************************************************************************)
(* Proofs about LogicStack for every tree that logic_executor_build can    *)
(* produce, of any depth and width, and any number of requires.  First the *)
(* invariants of the machine, then that its log is a derivation by the     *)
(* rules of LogicTree.                                                     *)
(***************************************************************************)
EXTENDS LogicStack, SequenceTheorems, TLAPS

\* Where the loop of logic_stack_exec stands: it either descends, or returns a
\* result to a parent, or is in or before an action that is on top.
Control ==
    /\ todo # None => phase = "run" /\ popped = NoItem
    /\ popped # NoItem => phase = "run"
    /\ phase \in {"op", "blocked"} =>
          stack # <<>> /\ tree.kind[Top.node] = "action"

\* Every item of the stack has its entry in the history.
SameHeight == Len(open) = Len(stack)

\* The inductive invariant.
IInv == TypeOK /\ Control /\ OnlyTopWaits /\ StackIsPath /\ SameHeight

-----------------------------------------------------------------------------
(* The ways the stack is changed. *)

\* Popping keeps everything below the top.
LEMMA PopLemma ==
    ASSUME NEW S, NEW s \in Seq(S), s # <<>>
    PROVE  /\ SubSeq(s, 1, Len(s) - 1) \in Seq(S)
           /\ Len(SubSeq(s, 1, Len(s) - 1)) = Len(s) - 1
           /\ \A i \in 1..(Len(s) - 1) : SubSeq(s, 1, Len(s) - 1)[i] = s[i]
           /\ Len(s) \in Nat \ {0}
           /\ s[Len(s)] \in S
<1>. DEFINE n == Len(s) - 1
            t == SubSeq(s, 1, n)
<1>1. Len(s) \in Nat \ {0}
  BY EmptySeq
<1>2. \A i \in 1..Len(s) : s[i] \in S
  BY ElementOfSeq
<1>3. n \in Nat /\ Len(s) = n + 1
  BY <1>1
<1>4. \A i \in 1..n : s[i] \in S
  BY <1>1, <1>2
<1>. HIDE DEF n
<1>5. /\ t \in Seq(S)
      /\ Len(t) = IF 1 <= n THEN n - 1 + 1 ELSE 0
      /\ \A i \in 1..(n - 1 + 1) : t[i] = s[1 + i - 1]
  BY <1>3, <1>4, SubSeqProperties
<1>. HIDE DEF t
<1>6. Len(t) = n
  BY <1>3, <1>5
<1>7. \A i \in 1..n : t[i] = s[i]
  <2>1. TAKE i \in 1..n
  <2>2. i \in 1..(n - 1 + 1) /\ 1 + i - 1 = i
    BY <1>3
  <2>. QED
    BY <1>5, <2>2
<1>8. s[Len(s)] \in S
  BY <1>1, <1>2
<1>. QED
  BY <1>1, <1>5, <1>6, <1>7, <1>8 DEF t, n

\* Writing the top keeps the length and everything below it.
LEMMA SetTopLemma ==
    ASSUME NEW S, NEW s \in Seq(S), s # <<>>, NEW e \in S
    PROVE  LET t == [s EXCEPT ![Len(s)] = e] IN
           /\ t \in Seq(S)
           /\ Len(t) = Len(s)
           /\ t # <<>>
           /\ t[Len(s)] = e
           /\ \A i \in 1..(Len(s) - 1) : t[i] = s[i]
  OBVIOUS

\* Pushing puts the new item on top of the old ones.
LEMMA PushLemma ==
    ASSUME NEW S, NEW s \in Seq(S), NEW e \in S
    PROVE  LET t == Append(s, e) IN
           /\ t \in Seq(S)
           /\ Len(t) = Len(s) + 1
           /\ t # <<>>
           /\ t[Len(s) + 1] = e
           /\ \A i \in 1..Len(s) : t[i] = s[i]
  OBVIOUS

-----------------------------------------------------------------------------
(* The tree. *)

\* The child logic_stack_push descends to is a child.
LEMMA FirstChildLemma ==
    ASSUME tree \in TreeShape, NEW n \in Node
    PROVE  /\ FirstChild(n) \in Node \cup {None}
           /\ FirstChild(n) # None => IsChild(n, FirstChild(n))
<1>1. tree.sub[n] \in Seq(Node \cup {None})
  BY DEF TreeShape
<1>2. CASE tree.sub[n] = <<>>
  BY <1>2 DEF FirstChild
<1>3. CASE tree.sub[n] # <<>>
  <2>1. Len(tree.sub[n]) \in Nat \ {0}
    BY <1>1, <1>3, EmptySeq
  <2>2. 1 \in 1..Len(tree.sub[n])
    BY <2>1
  <2>3. tree.sub[n][1] \in Node \cup {None}
    BY <1>1, <2>2, ElementOfSeq
  <2>. QED
    BY <1>3, <2>2, <2>3 DEF FirstChild, IsChild
<1>. QED
  BY <1>2, <1>3

\* TAILQ_NEXT of a child is a child.
LEMMA NextMemberLemma ==
    ASSUME tree \in TreeShape, NEW p \in Node, NEW n, IsChild(p, n)
    PROVE  /\ NextMember(p, n) \in Node \cup {None}
           /\ NextMember(p, n) # None => IsChild(p, NextMember(p, n))
<1>1. tree.sub[p] \in Seq(Node \cup {None})
  BY DEF TreeShape
<1>. DEFINE i == CHOOSE j \in 1..Len(tree.sub[p]) : tree.sub[p][j] = n
<1>2. i \in 1..Len(tree.sub[p])
  BY DEF IsChild
<1>3. NextMember(p, n) = IF i = Len(tree.sub[p]) THEN None ELSE tree.sub[p][i + 1]
  BY DEF NextMember
<1>. HIDE DEF i
<1>4. Len(tree.sub[p]) \in Nat
  BY <1>1, LenProperties
<1>5. ASSUME i # Len(tree.sub[p])
      PROVE  i + 1 \in 1..Len(tree.sub[p]) /\ tree.sub[p][i + 1] \in Node \cup {None}
  <2>1. i + 1 \in 1..Len(tree.sub[p])
    BY <1>2, <1>4, <1>5
  <2>. QED
    BY <1>1, <2>1, ElementOfSeq
<1>. QED
  BY <1>3, <1>5 DEF IsChild

\* What a parent pushes after one of its children is a child of it.
LEMMA CompositeNextLemma ==
    ASSUME tree \in TreeShape, NEW p \in Node, NEW n, NEW k, NEW c, IsChild(p, n)
    PROVE  /\ CompositeNext(p, n, k, c) \in Node \cup {None}
           /\ CompositeNext(p, n, k, c) # None => IsChild(p, CompositeNext(p, n, k, c))
  BY NextMemberLemma DEF CompositeNext

LEMMA ConditionNextLemma ==
    ASSUME tree \in TreeShape, NEW p \in Node, NEW n, NEW c, tree.kind[p] = "condition"
    PROVE  /\ ConditionNext(p, n, c) \in Node \cup {None}
           /\ ConditionNext(p, n, c) # None => IsChild(p, ConditionNext(p, n, c))
<1>1. tree.sub[p] \in Seq(Node \cup {None}) /\ Len(tree.sub[p]) = 3
  BY DEF TreeShape
<1>2. /\ 2 \in 1..Len(tree.sub[p]) /\ 3 \in 1..Len(tree.sub[p])
      /\ tree.sub[p][2] \in Node \cup {None} /\ tree.sub[p][3] \in Node \cup {None}
  BY <1>1, ElementOfSeq
<1>3. ConditionNext(p, n, c) \in {tree.sub[p][2], tree.sub[p][3], None}
  BY DEF ConditionNext
<1>. QED
  BY <1>2, <1>3 DEF IsChild

\* The results the rules of the parents compute.
LEMMA RvLemma ==
    ASSUME NEW k \in Kind, NEW old \in Rv, NEW c \in Rv, NEW p, NEW n
    PROVE  /\ InitialRv(k) \in Rv
           /\ CompositeRv(k, old, c) \in Rv
           /\ DecoratorRv(k, c) \in Rv
           /\ ConditionRv(p, n, old, c) \in Rv
  BY DEF InitialRv, CompositeRv, DecoratorRv, ConditionRv, Rv, Kind, Composite, Selection, Parallel, Decorator

-----------------------------------------------------------------------------
(* The history. *)

LEMMA TopLemma ==
    ASSUME IInv, stack # <<>>
    PROVE  /\ stack \in Seq(Item) /\ Top \in Item
           /\ open \in Seq(Open) /\ open # <<>> /\ open[Len(open)] \in Open
           /\ log \in Seq(Entry) /\ Len(log) \in Nat
<1>1. stack \in Seq(Item) /\ open \in Seq(Open) /\ log \in Seq(Entry) /\ Len(open) = Len(stack)
  BY DEF IInv, TypeOK, SameHeight
<1>2. Len(stack) # 0
  BY <1>1, EmptySeq
<1>3. open # <<>>
  BY <1>1, <1>2, EmptySeq
<1>. QED
  BY <1>1, <1>3, PopLemma, LenProperties DEF Top

\* A node that ends: it leaves the stack and its entry is in the log.
EndsWith(rv, kids) ==
    /\ stack # <<>> /\ stack' = Below
    /\ log' = Logged(rv, kids) /\ open' = Ended

LEMMA EndingSteps ==
    ASSUME IInv, PopInner \/ UpDecorator \/ \E rv \in Rv : ReturnPopped(rv)
    PROVE  \E rv \in Rv, kids \in Seq(Nat) :
              /\ EndsWith(rv, kids)
              /\ popped'.node = Top.node /\ popped'.rv = rv /\ popped' \in Item
<1>1. stack # <<>>
  BY DEF IInv, PopInner, UpDecorator, ReturnPopped, Control
<1>2. /\ Top \in Item /\ open[Len(open)] \in Open /\ Len(log) \in Nat
      /\ tree \in TreeShape
  BY <1>1, TopLemma DEF IInv, TypeOK
<1>3. Top.node \in Node /\ Top.rv \in Rv /\ tree.kind[Top.node] \in Kind /\ Kids \in Seq(Nat)
  BY <1>2 DEF Item, Open, Kids, TreeShape
<1>4. CASE PopInner
  BY <1>1, <1>2, <1>3, <1>4 DEF PopInner, EndsWith
<1>5. CASE UpDecorator
  <2>. DEFINE rv == DecoratorRv(tree.kind[Top.node], popped.rv)
  <2>1. popped.rv \in Rv
    BY <1>5 DEF IInv, UpDecorator, TypeOK, Item
  <2>2. rv \in Rv
    BY <1>3, <2>1, RvLemma
  <2>3. Append(Kids, Len(log)) \in Seq(Nat)
    BY <1>2, <1>3
  <2>4. popped' = [Top EXCEPT !.rv = rv] /\ EndsWith(rv, Append(Kids, Len(log)))
    BY <1>1, <1>5 DEF UpDecorator, EndsWith
  <2>. HIDE DEF rv
  <2>. QED
    BY <1>2, <2>2, <2>3, <2>4 DEF Item
<1>6. ASSUME NEW rv \in Rv, ReturnPopped(rv)
      PROVE  /\ EndsWith(rv, <<>>)
             /\ popped'.node = Top.node /\ popped'.rv = rv /\ popped' \in Item
  BY <1>1, <1>2, <1>6 DEF ReturnPopped, EndsWith, Item
<1>7. <<>> \in Seq(Nat)
  OBVIOUS
<1>. QED
  BY <1>4, <1>5, <1>6, <1>7

\* The entries of the stack stay as many as its items, and the log a list of entries.
LEMMA HistoryInv ==
    ASSUME IInv, Next
    PROVE  log' \in Seq(Entry) /\ open' \in Seq(Open) /\ SameHeight'
<1>1. /\ stack \in Seq(Item) /\ open \in Seq(Open) /\ log \in Seq(Entry)
      /\ Len(open) = Len(stack) /\ Len(log) \in Nat /\ Len(stack) \in Nat
  BY LenProperties DEF IInv, TypeOK, SameHeight
<1>2. CASE Push
  <2>1. [from |-> Len(log) + 1, kids |-> <<>>] \in Open
    BY <1>1 DEF Open
  <2>2. open' \in Seq(Open) /\ Len(open') = Len(open) + 1
    BY <1>1, <1>2, <2>1, PushLemma DEF Push, Begun
  <2>3. Len(stack') = Len(stack) + 1 /\ log' = log
    BY <1>1, <1>2 DEF Push
  <2>. QED
    BY <1>1, <2>2, <2>3 DEF SameHeight
<1>3. CASE PopInner \/ UpDecorator \/ \E rv \in Rv : ReturnPopped(rv)
  <2>1. PICK rv \in Rv, kids \in Seq(Nat) : EndsWith(rv, kids)
    BY <1>3, EndingSteps
  <2>2. Top \in Item /\ open[Len(open)] \in Open /\ open # <<>> /\ stack # <<>>
    BY <2>1, TopLemma DEF EndsWith
  <2>. DEFINE e == [node |-> Top.node, rv |-> rv, from |-> open[Len(open)].from, kids |-> kids]
  <2>3. e \in Entry
    BY <2>2 DEF Item, Open, Entry
  <2>4. log' = Append(log, e)
    BY <2>1 DEF EndsWith, Logged
  <2>5. log' \in Seq(Entry)
    BY <1>1, <2>3, <2>4, PushLemma
  <2>6. open' \in Seq(Open) /\ Len(open') = Len(open) - 1
    BY <1>1, <2>1, <2>2, PopLemma DEF EndsWith, Ended
  <2>7. Len(stack') = Len(stack) - 1
    BY <1>1, <2>1, <2>2, PopLemma DEF EndsWith, Below
  <2>. QED
    BY <1>1, <2>5, <2>6, <2>7 DEF SameHeight
<1>4. CASE UpComposite \/ UpCondition
  <2>1. stack # <<>> /\ log' = log /\ open' = Taken
    BY <1>4 DEF UpComposite, UpCondition
  <2>2. open[Len(open)] \in Open /\ open # <<>>
    BY <2>1, TopLemma
  <2>3. Append(Kids, Len(log)) \in Seq(Nat)
    BY <1>1, <2>2 DEF Kids, Open
  <2>4. open' = [open EXCEPT ![Len(open)] = [from |-> open[Len(open)].from, kids |-> Append(Kids, Len(log))]]
    BY <2>1 DEF Taken
  <2>5. [from |-> open[Len(open)].from, kids |-> Append(Kids, Len(log))] \in Open
    BY <2>2, <2>3 DEF Open
  <2>6. open' \in Seq(Open) /\ Len(open') = Len(open)
    BY <1>1, <2>2, <2>4, <2>5, SetTopLemma
  <2>7. Len(stack') = Len(stack)
    BY <1>1, <1>4 DEF UpComposite, UpCondition, SetTop
  <2>. QED
    BY <1>1, <2>1, <2>6, <2>7 DEF SameHeight
<1>5. CASE CreateRequire \/ Answer \/ \E rv \in Rv : ReturnBlocked(rv)
  <2>1. log' = log /\ open' = open /\ Len(stack') = Len(stack)
    BY <1>1, <1>5 DEF CreateRequire, Answer, ReturnBlocked, SetTop
  <2>. QED
    BY <1>1, <2>1 DEF SameHeight
<1>6. CASE CallOp \/ LeaveStopped \/ Resume \/ ExecuteEarly \/ Stop \/ Finish
  BY <1>1, <1>6 DEF CallOp, LeaveStopped, Resume, ExecuteEarly, Stop, Finish, SameHeight
<1>. QED
  BY <1>2, <1>3, <1>4, <1>5, <1>6 DEF Next, Machine, Return

-----------------------------------------------------------------------------
(* The initial states. *)

LEMMA InitIInv == Init => IInv
<1>. SUFFICES ASSUME Init PROVE IInv
  OBVIOUS
<1>. USE DEF Init
<1>1. TypeOK
  BY RootAssumption, TreesAssumption, BoundAssumption, EmptySeq DEF TypeOK, Rv
<1>2. Control
  BY DEF Control
<1>3. OnlyTopWaits
  BY EmptySeq DEF OnlyTopWaits
<1>4. StackIsPath
  BY EmptySeq DEF StackIsPath
<1>5. SameHeight
  BY EmptySeq DEF SameHeight
<1>. QED
  BY <1>1, <1>2, <1>3, <1>4, <1>5 DEF IInv

-----------------------------------------------------------------------------
(* The actions that push. *)

LEMMA PushInv == IInv /\ Push => IInv'
<1>. SUFFICES ASSUME IInv, Push PROVE IInv'
  OBVIOUS
<1>. DEFINE e == [node |-> todo, rv |-> InitialRv(tree.kind[todo]), waits |-> 0]
<1>. USE DEF IInv
<1>1. todo \in Node /\ tree.kind[todo] \in Kind /\ stack \in Seq(Item)
  BY DEF Push, TypeOK, TreeShape
<1>2. e \in Item
  BY <1>1, RvLemma DEF Item, Rv
<1>3. /\ stack' \in Seq(Item) /\ Len(stack') = Len(stack) + 1 /\ stack' # <<>>
      /\ stack'[Len(stack) + 1] = e
      /\ \A i \in 1..Len(stack) : stack'[i] = stack[i]
      /\ Len(stack) \in Nat
  BY <1>1, <1>2, PushLemma, LenProperties DEF Push
<1>4. todo' \in Node \cup {None} /\ (todo' # None => IsChild(todo, todo'))
  BY <1>1, FirstChildLemma DEF Push, TypeOK
<1>5. TypeOK' /\ SameHeight'
  BY <1>3, <1>4, HistoryInv DEF TypeOK, Push, Next, Machine
<1>6. Control'
  BY <1>3, RootAssumption DEF Control, Push, TypeOK
<1>7. \A i \in 1..Len(stack) : ~(stack[i].waits > 0)
  BY DEF OnlyTopWaits, Push
<1>8. OnlyTopWaits'
  BY <1>3, <1>7 DEF OnlyTopWaits, Push
<1>9. StackIsPath'
  <2>1. tree' = tree /\ popped' = NoItem /\ stack'[Len(stack')] = e
    BY <1>3, RootAssumption DEF Push, Control, TypeOK
  <2>2. stack'[1].node = Root
    <3>1. CASE stack = <<>>
      BY <1>3, <3>1 DEF StackIsPath, Push
    <3>2. CASE stack # <<>>
      BY <1>1, <1>3, <3>2, EmptySeq DEF StackIsPath
    <3>. QED
      BY <3>1, <3>2
  <2>3. ASSUME NEW i \in 1..(Len(stack') - 1)
        PROVE  IsChild(stack'[i].node, stack'[i + 1].node)
    <3>1. CASE i < Len(stack)
      <4>1. stack'[i] = stack[i] /\ stack'[i + 1] = stack[i + 1] /\ i \in 1..(Len(stack) - 1)
        BY <1>3, <3>1
      <4>. QED
        BY <4>1 DEF StackIsPath
    <3>2. CASE i = Len(stack)
      <4>1. stack'[i] = Top /\ stack'[i + 1] = e /\ stack # <<>>
        BY <1>3, <3>2, EmptySeq DEF Top
      <4>. QED
        BY <4>1 DEF StackIsPath, Push
    <3>. QED
      BY <1>3, <3>1, <3>2
  <2>. QED
    BY <1>3, <1>4, <2>1, <2>2, <2>3 DEF StackIsPath, IsChild, Top
<1>. QED
  BY <1>5, <1>6, <1>8, <1>9

-----------------------------------------------------------------------------
(* A path of the tree is one after its top was popped or written. *)

Path(s) ==
    /\ s # <<>> => s[1].node = Root
    /\ \A i \in 1..(Len(s) - 1) : IsChild(s[i].node, s[i + 1].node)

LEMMA PathPop ==
    ASSUME stack \in Seq(Item), stack # <<>>, Path(stack)
    PROVE  /\ Path(Below)
           /\ IF Below = <<>> THEN Top.node = Root
              ELSE IsChild(Below[Len(Below)].node, Top.node)
<1>1. /\ Below \in Seq(Item) /\ Len(Below) = Len(stack) - 1
      /\ \A i \in 1..(Len(stack) - 1) : Below[i] = stack[i]
      /\ Len(stack) \in Nat \ {0}
  BY PopLemma DEF Below
<1>2. Below # <<>> => Len(Below) \in Nat \ {0}
  BY <1>1, EmptySeq
<1>3. Below = <<>> => Len(stack) = 1
  BY <1>1, EmptySeq
<1>4. Path(Below)
  <2>1. Below # <<>> => Below[1] = stack[1]
    BY <1>1, <1>2
  <2>2. \A i \in 1..(Len(Below) - 1) : Below[i] = stack[i] /\ Below[i + 1] = stack[i + 1]
    BY <1>1
  <2>. QED
    BY <1>1, <2>1, <2>2 DEF Path
<1>5. CASE Below = <<>>
  BY <1>3, <1>4, <1>5 DEF Path, Top
<1>6. CASE Below # <<>>
  <2>1. Len(stack) - 1 \in 1..(Len(stack) - 1) /\ Len(stack) - 1 + 1 = Len(stack)
    BY <1>1, <1>2, <1>6
  <2>2. IsChild(stack[Len(stack) - 1].node, Top.node)
    BY <2>1 DEF Path, Top
  <2>. QED
    BY <1>1, <1>4, <1>6, <2>1, <2>2
<1>. QED
  BY <1>5, <1>6

LEMMA PathSet ==
    ASSUME stack \in Seq(Item), stack # <<>>, Path(stack), NEW e \in Item, e.node = Top.node
    PROVE  Path(SetTop(e))
<1>. DEFINE t == SetTop(e)
<1>1. /\ t \in Seq(Item) /\ Len(t) = Len(stack) /\ t[Len(stack)] = e
      /\ \A i \in 1..(Len(stack) - 1) : t[i] = stack[i]
      /\ Len(stack) \in Nat \ {0}
  BY SetTopLemma, EmptySeq DEF SetTop
<1>. HIDE DEF t
<1>2. \A i \in 1..Len(stack) : t[i].node = stack[i].node
  BY <1>1 DEF Top
<1>3. 1 \in 1..Len(stack) /\ \A i \in 1..(Len(stack) - 1) : i \in 1..Len(stack) /\ i + 1 \in 1..Len(stack)
  BY <1>1
<1>4. Path(t)
  BY <1>1, <1>2, <1>3 DEF Path
<1>. QED
  BY <1>4 DEF t

-----------------------------------------------------------------------------
(* The actions that write the item on top. *)

\* An op waits on the action on top only: the items below wait for nothing.
LEMMA BelowQuiet ==
    ASSUME OnlyTopWaits, NEW i \in 1..Len(stack), i # Len(stack)
    PROVE  ~(stack[i].waits > 0)
  BY DEF OnlyTopWaits

LEMMA SetTopInv ==
    ASSUME IInv, stack # <<>>, NEW e \in Item, e.node = Top.node, stack' = SetTop(e), tree' = tree
    PROVE  /\ stack' \in Seq(Item) /\ stack' # <<>> /\ Len(stack') = Len(stack)
           /\ Top' = e
           /\ Path(stack')
           /\ \A i \in 1..Len(stack') : stack'[i].waits > 0 => i = Len(stack') /\ e.waits > 0
<1>. USE DEF IInv
<1>1. stack \in Seq(Item) /\ Path(stack)
  BY DEF TypeOK, StackIsPath, Path
<1>2. /\ stack' \in Seq(Item) /\ Len(stack') = Len(stack) /\ stack'[Len(stack)] = e
      /\ \A i \in 1..(Len(stack) - 1) : stack'[i] = stack[i]
      /\ stack' # <<>>
      /\ Len(stack) \in Nat \ {0}
  BY <1>1, SetTopLemma, EmptySeq DEF SetTop
<1>3. Path(stack')
  BY <1>1, PathSet
<1>4. ASSUME NEW i \in 1..Len(stack'), stack'[i].waits > 0
      PROVE  i = Len(stack') /\ e.waits > 0
  <2>1. CASE i = Len(stack)
    BY <1>2, <1>4, <2>1
  <2>2. CASE i # Len(stack)
    BY <1>2, <1>4, <2>2, BelowQuiet
  <2>. QED
    BY <2>1, <2>2
<1>. QED
  BY <1>2, <1>3, <1>4 DEF Top

\* The op, and whoever answers: only the counter and the result change.
LEMMA OpWritesInv ==
    IInv /\ (CreateRequire \/ Answer \/ \E rv \in Rv : ReturnBlocked(rv)) => IInv'
<1>. SUFFICES ASSUME IInv, CreateRequire \/ Answer \/ \E rv \in Rv : ReturnBlocked(rv)
              PROVE  IInv'
  OBVIOUS
<1>. USE DEF IInv
<1>1. /\ phase \in {"op", "blocked"} /\ stack \in Seq(Item)
      /\ stack # <<>> /\ tree.kind[Top.node] = "action" /\ todo = None /\ popped = NoItem
  BY DEF CreateRequire, Answer, ReturnBlocked, Control, TypeOK
<1>2. Top \in Item
  BY <1>1, PopLemma DEF Top
<1>3. PICK e \in Item : e.node = Top.node /\ stack' = SetTop(e)
  <2>1. CASE CreateRequire
    BY <1>2, <2>1 DEF CreateRequire, Item
  <2>2. CASE Answer
    BY <1>2, <2>2 DEF Answer, Item
  <2>3. CASE \E rv \in Rv : ReturnBlocked(rv)
    BY <1>2, <2>3 DEF ReturnBlocked, Item
  <2>. QED
    BY <2>1, <2>2, <2>3
<1>4. tree' = tree /\ todo' = None /\ popped' = NoItem
  BY <1>1 DEF CreateRequire, Answer, ReturnBlocked
<1>5. /\ stack' \in Seq(Item) /\ stack' # <<>> /\ Len(stack') = Len(stack)
      /\ Top' = e
      /\ Path(stack')
      /\ \A i \in 1..Len(stack') : stack'[i].waits > 0 => i = Len(stack') /\ e.waits > 0
  BY <1>1, <1>3, <1>4, SetTopInv
<1>6. TypeOK'
  <2>1. made' \in 0..MaxRequires
    <3>1. made \in 0..MaxRequires
      BY DEF TypeOK
    <3>2. made' = made \/ (made < MaxRequires /\ made' = made + 1)
      BY DEF CreateRequire, Answer, ReturnBlocked
    <3>. QED
      BY BoundAssumption, <3>1, <3>2
  <2>2. phase' \in {"run", "op", "blocked", "stopped", "finished"} /\ live' \in BOOLEAN
    BY DEF TypeOK, CreateRequire, Answer, ReturnBlocked
  <2>3. UNCHANGED <<tree, result, log, open>>
    BY DEF CreateRequire, Answer, ReturnBlocked
  <2>. QED
    BY <1>4, <1>5, <2>1, <2>2, <2>3 DEF TypeOK
<1>7. Control'
  BY <1>1, <1>3, <1>4, <1>5 DEF Control
<1>8. OnlyTopWaits'
  <2>. SUFFICES ASSUME NEW i \in 1..Len(stack'), stack'[i].waits > 0
                PROVE  i = Len(stack') /\ tree'.kind[stack'[i].node] = "action"
    BY <1>4 DEF OnlyTopWaits
  <2>1. i = Len(stack')
    BY <1>5
  <2>2. stack'[i] = e
    BY <1>5, <2>1 DEF Top
  <2>. QED
    BY <1>1, <1>3, <1>4, <2>1, <2>2
<1>9. StackIsPath'
  BY <1>4, <1>5 DEF StackIsPath, Path, IsChild
<1>10. SameHeight'
  BY HistoryInv DEF Next, Return
<1>. QED
  BY <1>6, <1>7, <1>8, <1>9, <1>10

\* A parent takes the result of its child and may push the next one.
LEMMA UpInv == IInv /\ (UpComposite \/ UpCondition) => IInv'
<1>. SUFFICES ASSUME IInv, UpComposite \/ UpCondition PROVE IInv'
  OBVIOUS
<1>. USE DEF IInv
<1>1. /\ popped # NoItem /\ popped \in Item /\ stack # <<>> /\ stack \in Seq(Item)
      /\ tree \in TreeShape /\ todo = None /\ phase = "run"
      /\ IsChild(Top.node, popped.node)
  BY DEF UpComposite, UpCondition, TypeOK, Control, StackIsPath
<1>2. Top \in Item
  BY <1>1, PopLemma DEF Top
<1>3. Top.node \in Node /\ popped.rv \in Rv /\ Top.rv \in Rv /\ tree.kind[Top.node] \in Kind
  BY <1>1, <1>2 DEF Item, TreeShape
<1>4. tree' = tree /\ popped' = NoItem /\ phase' = phase
  BY DEF UpComposite, UpCondition
<1>5. PICK e \in Item : e.node = Top.node /\ e.waits = Top.waits /\ stack' = SetTop(e)
  <2>1. CASE UpComposite
    BY <1>2, <1>3, <2>1, RvLemma DEF UpComposite, Item
  <2>2. CASE UpCondition
    BY <1>2, <1>3, <2>2, RvLemma DEF UpCondition, Item
  <2>. QED
    BY <2>1, <2>2
<1>6. todo' \in Node \cup {None} /\ (todo' # None => IsChild(Top.node, todo'))
  <2>1. CASE UpComposite
    BY <1>1, <1>3, <2>1, CompositeNextLemma DEF UpComposite
  <2>2. CASE UpCondition
    BY <1>1, <1>3, <2>2, ConditionNextLemma DEF UpCondition
  <2>. QED
    BY <2>1, <2>2
<1>7. /\ stack' \in Seq(Item) /\ stack' # <<>> /\ Len(stack') = Len(stack)
      /\ Top' = e
      /\ Path(stack')
      /\ \A i \in 1..Len(stack') : stack'[i].waits > 0 => i = Len(stack') /\ e.waits > 0
  BY <1>1, <1>4, <1>5, SetTopInv
<1>8. TypeOK' /\ SameHeight'
  <2>1. log' \in Seq(Entry) /\ open' \in Seq(Open) /\ SameHeight'
    BY HistoryInv DEF Next, Machine
  <2>. QED
    BY <1>4, <1>6, <1>7, <2>1 DEF TypeOK, UpComposite, UpCondition
<1>9. Control'
  BY <1>1, <1>4 DEF Control
<1>10. OnlyTopWaits'
  <2>1. ~(Top.waits > 0)
    <3>1. Len(stack) \in 1..Len(stack)
      BY <1>1, EmptySeq
    <3>. QED
      BY <1>1, <3>1 DEF OnlyTopWaits, Top
  <2>. QED
    BY <1>5, <1>7, <2>1 DEF OnlyTopWaits
<1>11. StackIsPath'
  BY <1>4, <1>5, <1>6, <1>7 DEF StackIsPath, Path, IsChild
<1>. QED
  BY <1>8, <1>9, <1>10, <1>11

-----------------------------------------------------------------------------
(* The actions that pop. *)

LEMMA PopInv ==
    IInv /\ (PopInner \/ UpDecorator \/ \E rv \in Rv : ReturnPopped(rv)) => IInv'
<1>. SUFFICES ASSUME IInv, PopInner \/ UpDecorator \/ \E rv \in Rv : ReturnPopped(rv)
              PROVE  IInv'
  OBVIOUS
<1>. USE DEF IInv
<1>1. /\ stack # <<>> /\ stack \in Seq(Item) /\ Path(stack)
      /\ tree \in TreeShape /\ todo = None
  BY DEF PopInner, UpDecorator, ReturnPopped, AtLoopHead, TypeOK, Control, StackIsPath, Path
<1>2. Top \in Item
  BY <1>1, PopLemma DEF Top
<1>3. Top.node \in Node /\ Top.rv \in Rv /\ tree.kind[Top.node] \in Kind
  BY <1>1, <1>2 DEF Item, TreeShape
<1>4. tree' = tree /\ todo' = None /\ stack' = Below /\ phase' = "run"
  BY <1>1 DEF PopInner, UpDecorator, ReturnPopped, AtLoopHead, Control
<1>5. popped' \in Item /\ popped'.node = Top.node
  BY EndingSteps
<1>6. /\ Below \in Seq(Item) /\ Len(Below) = Len(stack) - 1
      /\ \A i \in 1..(Len(stack) - 1) : Below[i] = stack[i]
      /\ Len(stack) \in Nat \ {0}
  BY <1>1, PopLemma DEF Below
<1>7. /\ Path(Below)
      /\ IF Below = <<>> THEN Top.node = Root ELSE IsChild(Below[Len(Below)].node, Top.node)
  BY <1>1, PathPop
<1>8. TypeOK' /\ SameHeight'
  <2>1. log' \in Seq(Entry) /\ open' \in Seq(Open) /\ SameHeight'
    BY HistoryInv DEF Next, Machine, Return
  <2>. QED
    BY <1>4, <1>5, <1>6, <2>1 DEF TypeOK, PopInner, UpDecorator, ReturnPopped
<1>9. Control'
  BY <1>4 DEF Control
<1>10. OnlyTopWaits'
  BY <1>4, <1>6, BelowQuiet DEF OnlyTopWaits
<1>11. StackIsPath'
  BY <1>4, <1>5, <1>7 DEF StackIsPath, Path, IsChild, Top
<1>. QED
  BY <1>8, <1>9, <1>10, <1>11

-----------------------------------------------------------------------------
(* The actions that leave the stack alone. *)

LEMMA FinishInv == IInv /\ Finish => IInv'
<1>. SUFFICES ASSUME IInv, Finish PROVE IInv'
  OBVIOUS
<1>1. TypeOK'
  BY DEF IInv, Finish, TypeOK, Item
<1>2. Control'
  BY DEF IInv, Finish, Control
<1>3. OnlyTopWaits'
  BY DEF IInv, Finish, OnlyTopWaits
<1>4. StackIsPath'
  BY DEF IInv, Finish, StackIsPath, IsChild, Top, Control
<1>5. SameHeight'
  BY DEF IInv, Finish, SameHeight
<1>. QED
  BY <1>1, <1>2, <1>3, <1>4, <1>5 DEF IInv

LEMMA ControlInv ==
    IInv /\ (CallOp \/ LeaveStopped \/ Resume \/ ExecuteEarly \/ Stop) => IInv'
<1>. SUFFICES ASSUME IInv, CallOp \/ LeaveStopped \/ Resume \/ ExecuteEarly \/ Stop
              PROVE  IInv'
  OBVIOUS
<1>1. UNCHANGED <<tree, stack, todo, popped, result, made, log, open>>
  BY DEF CallOp, LeaveStopped, Resume, ExecuteEarly, Stop
<1>2. TypeOK'
  BY <1>1 DEF IInv, TypeOK, CallOp, LeaveStopped, Resume, ExecuteEarly, Stop
<1>3. todo = None /\ popped = NoItem
  BY DEF IInv, Control, CallOp, LeaveStopped, Resume, ExecuteEarly, Stop, AtLoopHead
<1>4. Control'
  BY <1>1, <1>3 DEF IInv, Control, CallOp, LeaveStopped, Resume, ExecuteEarly, Stop, Top
<1>5. OnlyTopWaits'
  BY <1>1 DEF IInv, OnlyTopWaits
<1>6. StackIsPath'
  BY <1>1 DEF IInv, StackIsPath, IsChild, Top
<1>7. SameHeight'
  BY <1>1 DEF IInv, SameHeight
<1>. QED
  BY <1>2, <1>4, <1>5, <1>6, <1>7 DEF IInv

-----------------------------------------------------------------------------
LEMMA StepIInv == IInv /\ [Next]_vars => IInv'
<1>. SUFFICES ASSUME IInv, [Next]_vars PROVE IInv'
  OBVIOUS
<1>1. CASE Push
  BY <1>1, PushInv
<1>2. CASE CallOp \/ LeaveStopped \/ Resume \/ ExecuteEarly \/ Stop
  BY <1>2, ControlInv
<1>3. CASE CreateRequire \/ Answer \/ \E rv \in Rv : ReturnBlocked(rv)
  BY <1>3, OpWritesInv
<1>4. CASE UpComposite \/ UpCondition
  BY <1>4, UpInv
<1>5. CASE PopInner \/ UpDecorator \/ \E rv \in Rv : ReturnPopped(rv)
  BY <1>5, PopInv
<1>6. CASE Finish
  BY <1>6, FinishInv
<1>7. CASE UNCHANGED vars
  BY <1>7 DEF vars, IInv, TypeOK, Control, OnlyTopWaits, StackIsPath, SameHeight, IsChild, Top
<1>. QED
  BY <1>1, <1>2, <1>3, <1>4, <1>5, <1>6, <1>7 DEF Next, Machine, Return

\* Everything below follows from the inductive invariant.
THEOREM Invariance == Spec => []IInv
<1>. QED
  BY InitIInv, StepIInv, PTL DEF Spec

\* Type correctness of the machine.
THEOREM TypeCorrect == Spec => []TypeOK
<1>1. IInv => TypeOK
  BY DEF IInv
<1>. QED
  BY <1>1, Invariance, PTL

\* The items below the top of the stack wait for no require, so the growth of
\* the extern array, which moves them, leaves no require with a stale m_stack.
THEOREM OnlyTheTopWaits == Spec => []OnlyTopWaits
<1>1. IInv => OnlyTopWaits
  BY DEF IInv
<1>. QED
  BY <1>1, Invariance, PTL

\* The stack is a path of the executor tree from its root.
THEOREM TheStackIsAPath == Spec => []StackIsPath
<1>1. IInv => StackIsPath
  BY DEF IInv
<1>. QED
  BY <1>1, Invariance, PTL

-----------------------------------------------------------------------------
(* The log is a derivation: what the items of the stack have done of theirs. *)

\* The child the item i is about to run, runs, or has just run, or None.
Doing(i) ==
    IF i < Len(stack) THEN stack[i + 1].node
    ELSE IF popped # NoItem THEN popped.node ELSE todo

\* Where the entry of that child begins.
Mark(i) ==
    IF i < Len(stack) THEN open[i + 1].from
    ELSE IF popped # NoItem THEN log[Len(log)].from ELSE Len(log) + 1

\* The rule of a node, as far as it has come: the children ran returned, the item
\* has the result rv, and the child doing is next.
PartOfComposite(t, n, ran, rv, doing) ==
    LET k == t.kind[n]
        s == t.sub[n]
        m == Len(ran)
    IN  /\ m <= Len(s)
        /\ \A i \in 1..m : ran[i].node = s[i]
        /\ \A i \in 1..(m - 1) : ~Ends(k, ran[i].rv, Sentences)
        /\ IF doing # None
           THEN m < Len(s) /\ s[m + 1] = doing /\ (m > 0 => ~Ends(k, ran[m].rv, Sentences))
           ELSE m < Len(s) => m > 0 /\ Ends(k, ran[m].rv, Sentences)
        /\ rv = Outcome(k, Rvs(ran), Sentences)

PartOfCondition(t, n, ran, rv, doing) ==
    \/ ran = <<>> /\ doing = t.sub[n][1]
    \/ /\ Len(ran) = 1 /\ ran[1].node = t.sub[n][1]
       /\ IF doing = None THEN Branch(t, n, ran[1].rv) = <<>> /\ rv = ran[1].rv
          ELSE Branch(t, n, ran[1].rv) = <<doing>>
    \/ /\ Len(ran) = 2 /\ ran[1].node = t.sub[n][1]
       /\ Branch(t, n, ran[1].rv) = <<ran[2].node>>
       /\ doing = None /\ rv = ran[2].rv

Partly(t, n, ran, rv, doing) ==
    CASE t.kind[n] = "action"    -> ran = <<>> /\ doing = None
      [] t.kind[n] \in Decorator -> ran = <<>> /\ doing = t.sub[n][1]
      [] t.kind[n] = "condition" -> PartOfCondition(t, n, ran, rv, doing)
      [] OTHER                      -> PartOfComposite(t, n, ran, rv, doing)

ItemDerives(i) ==
    /\ Fills(log, open[i].from, open[i].kids, Mark(i) - 1)
    /\ Partly(tree, stack[i].node, Ran(log, open[i].kids), stack[i].rv, Doing(i))

Derives ==
    /\ ResultAgrees
    /\ \A i \in 1..Len(stack) : ItemDerives(i)
    /\ \A i \in 0..Len(stack) : Mark(i) \in 1..(Len(log) + 1)
    /\ popped # NoItem =>
          log # <<>> /\ log[Len(log)].node = popped.node /\ log[Len(log)].rv = popped.rv
    /\ IF phase = "finished" THEN stack = <<>> /\ todo = None /\ popped = NoItem ELSE Mark(0) = 1

LEMMA KindLemma ==
    ASSUME tree \in TreeShape, NEW n \in Node
    PROVE  /\ tree.kind[n] \in Kind /\ DOMAIN tree.kind = Node
           /\ tree.sub[n] \in Seq(Node \cup {None}) /\ Len(tree.sub[n]) \in Nat
           /\ \A i \in 1..Len(tree.sub[n]) : tree.sub[n][i] \in Node \cup {None}
           /\ \A i, j \in 1..Len(tree.sub[n]) : tree.sub[n][i] = tree.sub[n][j] => i = j
           /\ tree.kind[n] \in Composite => \A i \in 1..Len(tree.sub[n]) : tree.sub[n][i] # None
           /\ tree.kind[n] \in Decorator => Len(tree.sub[n]) = 1 /\ tree.sub[n][1] \in Node
           /\ tree.kind[n] = "condition" =>
                 Len(tree.sub[n]) = 3 /\ tree.sub[n][1] \in Node /\ tree.sub[n][2] \in Node
           /\ tree.kind[n] = "action" => tree.sub[n] = <<>>
<1>1. /\ tree.kind \in [Node -> Kind] /\ tree.sub[n] \in Seq(Node \cup {None})
      /\ \A i, j \in 1..Len(tree.sub[n]) : tree.sub[n][i] = tree.sub[n][j] => i = j
      /\ tree.kind[n] \in Composite => tree.sub[n] \in Seq(Node)
      /\ tree.kind[n] \in Decorator => Len(tree.sub[n]) = 1 /\ tree.sub[n][1] # None
      /\ tree.kind[n] = "condition" =>
            Len(tree.sub[n]) = 3 /\ tree.sub[n][1] # None /\ tree.sub[n][2] # None
      /\ tree.kind[n] = "action" => tree.sub[n] = <<>>
  BY DEF TreeShape
<1>2. /\ Len(tree.sub[n]) \in Nat
      /\ \A i \in 1..Len(tree.sub[n]) : tree.sub[n][i] \in Node \cup {None}
  BY <1>1, LenProperties, ElementOfSeq
<1>3. ASSUME tree.kind[n] \in Composite PROVE \A i \in 1..Len(tree.sub[n]) : tree.sub[n][i] # None
  BY <1>1, <1>3, ElementOfSeq, RootAssumption
<1>. QED
  BY <1>1, <1>2, <1>3

\* What a composite with the results S makes of one more.
LEMMA OutcomeLemma ==
    ASSUME NEW k \in Composite, NEW S, "null" \notin S, NEW c \in Rv
    PROVE  /\ Outcome(k, {}, Sentences) = InitialRv(k)
           /\ Outcome(k, S \cup {c}, Sentences) = CompositeRv(k, Outcome(k, S, Sentences), c)
<1>1. Wins(k) = Settles(k) /\ Wins(k) \in {"true", "false"} /\ Opposite(Wins(k)) \in {"true", "false"} /\ Opposite(Wins(k)) # Wins(k)
  BY DEF Wins, Settles, Opposite
<1>2. Outcome(k, {}, Sentences) = InitialRv(k)
  BY DEF Outcome, Sentences, InitialRv, Wins, Opposite, Composite, Selection, Parallel
<1>3. CASE c = "null"
  BY <1>2, <1>3 DEF Outcome, Sentences, CompositeRv
<1>4. CASE c = Wins(k)
  BY <1>1, <1>2, <1>4 DEF Outcome, Sentences, CompositeRv, Rv
<1>5. CASE c # "null" /\ c # Wins(k)
  BY <1>1, <1>2, <1>5 DEF Outcome, Sentences, CompositeRv
<1>. QED
  BY <1>2, <1>3, <1>4, <1>5

\* The results of one entry more.
LEMMA RvsLemma ==
    /\ Rvs(<<>>) = {}
    /\ \A ran \in Seq(Entry), e \in Entry : Rvs(Append(ran, e)) = Rvs(ran) \cup {e.rv}
<1>1. Rvs(<<>>) = {}
  BY DEF Rvs
<1>2. ASSUME NEW ran \in Seq(Entry), NEW e \in Entry
      PROVE  Rvs(Append(ran, e)) = Rvs(ran) \cup {e.rv}
  <2>. DEFINE ran2 == Append(ran, e)
              m == Len(ran)
  <2>1. /\ m \in Nat /\ Len(ran2) = m + 1 /\ ran2[m + 1] = e
        /\ \A i \in 1..m : ran2[i] = ran[i]
    BY <1>2, PushLemma, LenProperties
  <2>2. /\ \A i \in 1..(m + 1) : i \in 1..m \/ i = m + 1
        /\ m + 1 \in 1..(m + 1) /\ \A i \in 1..m : i \in 1..(m + 1)
    BY <2>1
  <2>. HIDE DEF ran2
  <2>3. Rvs(ran2) = {ran2[i].rv : i \in 1..(m + 1)}
    BY <2>1 DEF Rvs
  <2>4. Rvs(ran) = {ran[i].rv : i \in 1..m}
    BY DEF Rvs
  <2>. HIDE DEF m
  <2>5. Rvs(ran2) \subseteq Rvs(ran) \cup {e.rv}
    BY <2>1, <2>2, <2>3, <2>4
  <2>6. Rvs(ran) \subseteq Rvs(ran2)
    BY <2>1, <2>2, <2>3, <2>4
  <2>7. e.rv \in Rvs(ran2)
    BY <2>1, <2>2, <2>3
  <2>. QED
    BY <2>5, <2>6, <2>7 DEF ran2
<1>. QED
  BY <1>1, <1>2

\* Null ends every composite.
LEMMA EndsLemma ==
    ASSUME NEW k \in Composite, NEW c \in Rv
    PROVE  /\ Ends(k, "null", Sentences)
           /\ Ends(k, c, Sentences) <=> ~(c # "null" /\ (k \in Parallel \/ c # Settles(k)))
  BY DEF Ends, Sentences, Settles, Composite, Selection, Parallel, Rv

\* What logic_stack_push pushes is where a node begins.
LEMMA StartPart ==
    ASSUME tree \in TreeShape, NEW n \in Node
    PROVE  Partly(tree, n, <<>>, InitialRv(tree.kind[n]), FirstChild(n))
<1>. DEFINE k == tree.kind[n]
            s == tree.sub[n]
<1>1. /\ k \in Kind /\ Len(s) \in Nat
      /\ k \in Composite => \A i \in 1..Len(s) : s[i] # None
      /\ k \in Decorator => Len(s) = 1 /\ s[1] \in Node
      /\ k = "condition" => Len(s) = 3 /\ s[1] \in Node
      /\ k = "action" => s = <<>>
  BY KindLemma
<1>2. (s = <<>>) <=> (Len(s) = 0)
  BY KindLemma, EmptySeq
<1>3. FirstChild(n) = IF s = <<>> THEN None ELSE s[1]
  BY DEF FirstChild
<1>4. Len(<<>>) = 0 /\ \A f : {f[i] : i \in 1..0} = {}
  OBVIOUS
<1>. HIDE DEF k, s
<1>5. CASE k \in Composite
  <2>1. InitialRv(k) = Outcome(k, {}, Sentences)
    BY <1>5, OutcomeLemma DEF Rv
  <2>2. FirstChild(n) # None => Len(s) > 0 /\ s[1] = FirstChild(n)
    BY <1>1, <1>2, <1>3
  <2>3. FirstChild(n) = None => Len(s) = 0
    BY <1>1, <1>2, <1>3, <1>5
  <2>4. Rvs(<<>>) = {}
    BY RvsLemma
  <2>5. PartOfComposite(tree, n, <<>>, InitialRv(k), FirstChild(n))
    <3>1. ASSUME NEW ran, Len(ran) = 0, Rvs(ran) = {}
          PROVE  PartOfComposite(tree, n, ran, InitialRv(k), FirstChild(n))
      BY <1>1, <2>1, <2>2, <2>3, <3>1 DEF PartOfComposite, k, s
    <3>. QED
      BY <1>4, <2>4, <3>1
  <2>. QED
    BY <1>5, <2>5 DEF Partly, Composite, Selection, Parallel, Decorator, k
<1>6. CASE k \in Decorator
  BY <1>1, <1>2, <1>3, <1>6 DEF Partly, Decorator, k, s
<1>7. CASE k = "condition"
  BY <1>1, <1>2, <1>3, <1>7 DEF Partly, PartOfCondition, Decorator, k, s
<1>8. CASE k = "action"
  BY <1>1, <1>2, <1>3, <1>8 DEF Partly, k, s
<1>. QED
  BY <1>1, <1>5, <1>6, <1>7, <1>8 DEF Kind

\* A composite that takes the result of the child it has run.
LEMMA CompositePart ==
    ASSUME tree \in TreeShape, NEW p \in Node, tree.kind[p] \in Composite,
           NEW ran \in Seq(Entry), NEW rv, NEW e \in Entry,
           PartOfComposite(tree, p, ran, rv, e.node)
    PROVE  PartOfComposite(tree, p, Append(ran, e), CompositeRv(tree.kind[p], rv, e.rv),
                           CompositeNext(p, e.node, tree.kind[p], e.rv))
<1>. DEFINE k == tree.kind[p]
            s == tree.sub[p]
            m == Len(ran)
            ran2 == Append(ran, e)
            next == CompositeNext(p, e.node, k, e.rv)
            S == Rvs(ran)
<1>1. /\ k \in Composite /\ Len(s) \in Nat
      /\ \A i, j \in 1..Len(s) : s[i] = s[j] => i = j
      /\ \A i \in 1..Len(s) : s[i] # None
  BY KindLemma
<1>2. /\ m \in Nat /\ Len(ran2) = m + 1 /\ ran2[m + 1] = e
      /\ \A i \in 1..m : ran2[i] = ran[i] /\ ran[i] \in Entry
  BY PushLemma, LenProperties, ElementOfSeq
<1>3. e.node # None /\ e.rv \in Rv
  BY RootAssumption DEF Entry
<1>4. /\ m < Len(s) /\ s[m + 1] = e.node
      /\ \A i \in 1..m : ran[i].node = s[i]
      /\ \A i \in 1..m : ~Ends(k, ran[i].rv, Sentences)
      /\ rv = Outcome(k, S, Sentences)
  <2>1. \A i \in 1..m : i \in 1..(m - 1) \/ i = m
    BY <1>2
  <2>. QED
    BY <1>2, <1>3, <2>1 DEF PartOfComposite
<1>. HIDE DEF k, s, m, ran2
<1>5. "null" \notin S
  BY <1>1, <1>4, EndsLemma DEF Rv, Rvs, m
<1>6. Rvs(ran2) = S \cup {e.rv}
  BY RvsLemma DEF ran2
<1>7. CompositeRv(k, rv, e.rv) = Outcome(k, Rvs(ran2), Sentences)
  BY <1>1, <1>3, <1>4, <1>5, <1>6, OutcomeLemma
<1>8. IF Ends(k, e.rv, Sentences) \/ m + 1 = Len(s) THEN next = None
      ELSE m + 1 < Len(s) /\ next = s[m + 2] /\ next # None
  <2>. DEFINE i == CHOOSE j \in 1..Len(s) : s[j] = e.node
  <2>1. m + 1 \in 1..Len(s)
    BY <1>1, <1>2, <1>4
  <2>2. i \in 1..Len(s) /\ s[i] = e.node
    BY <1>4, <2>1
  <2>3. i = m + 1
    BY <1>1, <1>4, <2>1, <2>2
  <2>4. NextMember(p, e.node) = IF i = Len(s) THEN None ELSE s[i + 1]
    BY DEF NextMember, s
  <2>. HIDE DEF i
  <2>5. m + 1 # Len(s) => m + 1 < Len(s) /\ m + 2 \in 1..Len(s) /\ m + 1 + 1 = m + 2
    BY <1>1, <1>2, <1>4
  <2>6. next = IF ~Ends(k, e.rv, Sentences) THEN NextMember(p, e.node) ELSE None
    BY <1>1, <1>3, EndsLemma DEF CompositeNext
  <2>. QED
    BY <1>1, <2>3, <2>4, <2>5, <2>6
<1>. HIDE DEF next
<1>9. \A i \in 1..(m + 1) : ran2[i].node = s[i]
  <2>1. \A i \in 1..(m + 1) : i \in 1..m \/ i = m + 1
    BY <1>2
  <2>. QED
    BY <1>2, <1>4, <2>1
<1>10. \A i \in 1..(m + 1 - 1) : ~Ends(k, ran2[i].rv, Sentences)
  <2>1. m + 1 - 1 = m
    BY <1>2
  <2>. QED
    BY <1>2, <1>4, <2>1
<1>11. /\ m + 1 <= Len(s) /\ m + 1 > 0 /\ m + 1 + 1 = m + 2
       /\ (m + 1 = Len(s)) => ~(m + 1 < Len(s))
  BY <1>1, <1>2, <1>4
<1>12. PartOfComposite(tree, p, ran2, CompositeRv(k, rv, e.rv), next)
  BY <1>2, <1>7, <1>8, <1>9, <1>10, <1>11 DEF PartOfComposite, k, s
<1>. QED
  BY <1>12 DEF k, ran2, next

\* A condition that does.
LEMMA ConditionPart ==
    ASSUME tree \in TreeShape, NEW p \in Node, tree.kind[p] = "condition",
           NEW ran \in Seq(Entry), NEW rv, NEW e \in Entry,
           PartOfCondition(tree, p, ran, rv, e.node)
    PROVE  PartOfCondition(tree, p, Append(ran, e), ConditionRv(p, e.node, rv, e.rv),
                           ConditionNext(p, e.node, e.rv))
<1>. DEFINE s == tree.sub[p]
            m == Len(ran)
            ran2 == Append(ran, e)
            next == ConditionNext(p, e.node, e.rv)
            rv2 == ConditionRv(p, e.node, rv, e.rv)
<1>1. /\ Len(s) = 3 /\ s[1] \in Node /\ s[2] \in Node /\ s[3] \in Node \cup {None}
      /\ s[1] # s[2] /\ s[1] # s[3]
      /\ DOMAIN tree.kind = Node
  <2>1. /\ Len(s) = 3 /\ s[1] \in Node /\ s[2] \in Node
        /\ \A i \in 1..Len(s) : s[i] \in Node \cup {None}
        /\ \A i, j \in 1..Len(s) : s[i] = s[j] => i = j
        /\ DOMAIN tree.kind = Node
    BY KindLemma
  <2>2. 1 \in 1..Len(s) /\ 2 \in 1..Len(s) /\ 3 \in 1..Len(s)
    BY <2>1
  <2>. QED
    BY <2>1, <2>2
<1>2. /\ m \in Nat /\ Len(ran2) = m + 1 /\ ran2[m + 1] = e
      /\ \A i \in 1..m : ran2[i] = ran[i]
      /\ m = 0 <=> ran = <<>>
  BY PushLemma, LenProperties, EmptySeq
<1>3. e.node \in Node /\ e.node # None /\ e.rv \in Rv
  BY RootAssumption DEF Entry
<1>4. /\ next = IF e.node = s[1] /\ e.rv = "true" THEN s[2]
                ELSE IF e.node = s[1] /\ e.rv = "false" THEN s[3] ELSE None
      /\ rv2 = IF e.node = s[1] /\ e.rv = "true" THEN rv ELSE e.rv
  BY DEF ConditionNext, ConditionRv
<1>5. Branch(tree, p, e.rv) = IF e.rv = "true" THEN <<s[2]>>
                              ELSE IF e.rv = "false" /\ s[3] \in Node THEN <<s[3]>> ELSE <<>>
  BY <1>1 DEF Branch
<1>. HIDE DEF s, m, ran2, next, rv2
<1>6. CASE m = 0
  <2>1. e.node = s[1] /\ Len(ran2) = 1 /\ ran2[1] = e
    BY <1>2, <1>3, <1>6 DEF PartOfCondition, s, m
  <2>2. CASE e.rv = "true"
    <3>1. next = s[2] /\ next # None /\ Branch(tree, p, e.rv) = <<next>>
      BY <1>1, <1>4, <1>5, <2>1, <2>2, RootAssumption
    <3>. QED
      BY <2>1, <3>1 DEF PartOfCondition, s, ran2, next, rv2
  <2>3. CASE e.rv = "false" /\ s[3] \in Node
    <3>1. next = s[3] /\ next # None /\ Branch(tree, p, e.rv) = <<next>>
      BY <1>1, <1>4, <1>5, <2>1, <2>3, RootAssumption
    <3>. QED
      BY <2>1, <3>1 DEF PartOfCondition, s, ran2, next, rv2
  <2>4. CASE e.rv # "true" /\ ~(e.rv = "false" /\ s[3] \in Node)
    <3>1. next = None /\ Branch(tree, p, e.rv) = <<>> /\ rv2 = e.rv
      BY <1>1, <1>4, <1>5, <2>1, <2>4
    <3>. QED
      BY <2>1, <3>1 DEF PartOfCondition, s, ran2, next, rv2
  <2>. QED
    BY <2>2, <2>3, <2>4
<1>7. CASE m # 0
  <2>1. m = 1 /\ ran[1].node = s[1] /\ Branch(tree, p, ran[1].rv) = <<e.node>>
    BY <1>2, <1>3, <1>7 DEF PartOfCondition, s, m
  <2>2. Len(ran2) = 2 /\ ran2[1] = ran[1] /\ ran2[2] = e
    BY <1>2, <2>1
  <2>3. e.node \in {s[2], s[3]}
    <3>1. Branch(tree, p, ran[1].rv)[1] = e.node
      BY <2>1
    <3>2. Branch(tree, p, ran[1].rv) # <<>>
      BY <2>1
    <3>3. Branch(tree, p, ran[1].rv) \in {<<s[2]>>, <<s[3]>>, <<>>}
      BY DEF Branch, s
    <3>. QED
      BY <3>1, <3>2, <3>3
  <2>4. next = None /\ rv2 = e.rv
    BY <1>1, <1>4, <2>3
  <2>. QED
    BY <2>1, <2>2, <2>4 DEF PartOfCondition, s, ran2, next, rv2
<1>. QED
  BY <1>6, <1>7

\* A node with nothing to run any more has followed its rule.
LEMMA WholeInner ==
    ASSUME tree \in TreeShape, NEW n \in Node, tree.kind[n] # "action",
           NEW ran \in Seq(Entry), NEW rv, Partly(tree, n, ran, rv, None)
    PROVE  Rule(tree, n, ran, rv, Sentences)
<1>. DEFINE k == tree.kind[n]
<1>1. k \in Composite \/ k = "condition"
  <2>1. k \notin Decorator
    BY KindLemma, RootAssumption DEF Partly, Decorator
  <2>. QED
    BY <2>1, KindLemma DEF Kind
<1>2. Len(ran) \in Nat /\ (ran = <<>> <=> Len(ran) = 0)
  BY LenProperties, EmptySeq
<1>3. CASE k \in Composite
  <2>1. PartOfComposite(tree, n, ran, rv, None)
    BY <1>3 DEF Partly, Composite, Selection, Parallel, Decorator
  <2>2. CompositeRule(tree, n, ran, rv, Sentences)
    BY <1>2, <2>1 DEF PartOfComposite, CompositeRule
  <2>. QED
    BY <1>3, <2>2 DEF Rule, Composite, Selection, Parallel
<1>4. CASE k = "condition"
  <2>1. PartOfCondition(tree, n, ran, rv, None)
    BY <1>4 DEF Partly, Decorator
  <2>2. tree.sub[n][1] # None
    BY <1>4, KindLemma, RootAssumption
  <2>3. ConditionRule(tree, n, ran, rv)
    <3>1. CASE Len(ran) = 1
      <4>1. Branch(tree, n, ran[1].rv) = <<>> /\ rv = ran[1].rv /\ ran[1].node = tree.sub[n][1]
        BY <1>2, <2>1, <2>2, <3>1 DEF PartOfCondition
      <4>. QED
        BY <1>2, <3>1, <4>1 DEF ConditionRule
    <3>2. CASE Len(ran) = 2
      <4>1. Branch(tree, n, ran[1].rv) = <<ran[2].node>> /\ rv = ran[2].rv /\ ran[1].node = tree.sub[n][1]
        BY <1>2, <2>1, <2>2, <3>2 DEF PartOfCondition
      <4>. QED
        BY <1>2, <3>2, <4>1 DEF ConditionRule
    <3>. QED
      BY <1>2, <2>1, <2>2, <3>1, <3>2 DEF PartOfCondition
  <2>. QED
    BY <1>4, <2>3 DEF Rule
<1>. QED
  BY <1>1, <1>3, <1>4

LEMMA WholeDecorator ==
    ASSUME tree \in TreeShape, NEW n \in Node, tree.kind[n] \in Decorator,
           NEW ran, NEW rv, NEW e \in Entry, Partly(tree, n, ran, rv, e.node)
    PROVE  ran = <<>> /\ Rule(tree, n, <<e>>, DecoratorRv(tree.kind[n], e.rv), Sentences)
<1>1. ran = <<>> /\ e.node = tree.sub[n][1] /\ e.rv \in Rv
  BY DEF Partly, Decorator, Entry
<1>2. Len(<<e>>) = 1 /\ <<e>>[1] = e
  OBVIOUS
<1>3. DecoratorRv(tree.kind[n], e.rv) =
        IF tree.kind[n] = "protect" THEN "true" ELSE Opposite(e.rv)
  <2>1. CASE tree.kind[n] = "protect"
    BY <2>1 DEF DecoratorRv
  <2>2. CASE tree.kind[n] # "protect"
    BY <1>1, <2>2 DEF DecoratorRv, Opposite, Rv
  <2>. QED
    BY <2>1, <2>2
<1>. QED
  BY <1>1, <1>2, <1>3 DEF Rule, DecoratorRule, Decorator

-----------------------------------------------------------------------------
(* The entries of the children. *)

LEMMA RanLemma ==
    ASSUME NEW l \in Seq(Entry), NEW ks \in Seq(1..Len(l))
    PROVE  /\ Ran(l, ks) \in Seq(Entry) /\ Len(Ran(l, ks)) = Len(ks)
           /\ \A i \in 1..Len(ks) : Ran(l, ks)[i] = l[ks[i]]
<1>1. Len(l) \in Nat /\ Len(ks) \in Nat /\ \A i \in 1..Len(ks) : ks[i] \in 1..Len(l)
  BY LenProperties, ElementOfSeq
<1>2. \A i \in 1..Len(ks) : l[ks[i]] \in Entry
  BY <1>1, ElementOfSeq
<1>3. Ran(l, ks) \in [1..Len(ks) -> Entry]
  BY <1>2 DEF Ran
<1>4. Ran(l, ks) \in Seq(Entry) /\ Len(Ran(l, ks)) = Len(ks)
  BY <1>1, <1>3, SeqDef, LenProperties
<1>. QED
  BY <1>4 DEF Ran

\* A node that was just pushed has run nothing.
LEMMA NoKids ==
    ASSUME NEW l \in Seq(Entry)
    PROVE  Fills(l, Len(l) + 1, <<>>, Len(l)) /\ Ran(l, <<>>) = <<>>
<1>1. Len(l) \in Nat /\ Len(<<>>) = 0 /\ <<>> \in Seq(1..Len(l))
  BY LenProperties
<1>2. Ran(l, <<>>) = <<>>
  BY <1>1, RanLemma, EmptySeq
<1>. QED
  BY <1>1, <1>2 DEF Fills

\* The log grows: what it says of the places before stays.
LEMMA GrowLemma ==
    ASSUME NEW l \in Seq(Entry), NEW e \in Entry, NEW from, NEW ks, NEW to \in 0..Len(l),
           Fills(l, from, ks, to)
    PROVE  /\ Fills(Append(l, e), from, ks, to)
           /\ Ran(Append(l, e), ks) = Ran(l, ks)
           /\ Ran(l, ks) \in Seq(Entry)
<1>. DEFINE l2 == Append(l, e)
<1>1. /\ Len(l) \in Nat /\ l2 \in Seq(Entry) /\ Len(l2) = Len(l) + 1
      /\ \A i \in 1..Len(l) : l2[i] = l[i]
  BY PushLemma, LenProperties
<1>. HIDE DEF l2
<1>2. ks \in Seq(1..to)
  BY DEF Fills
<1>3. Len(ks) \in Nat /\ \A i \in 1..Len(ks) : ks[i] \in 1..to
  BY <1>2, LenProperties, ElementOfSeq
<1>4. \A i \in 1..Len(ks) : ks[i] \in 1..Len(l)
  BY <1>1, <1>3
<1>5. \A i \in 1..Len(ks) : l2[ks[i]] = l[ks[i]]
  BY <1>1, <1>4
<1>6. Ran(l2, ks) = Ran(l, ks)
  BY <1>5 DEF Ran
<1>7. ks \in Seq(1..Len(l))
  BY <1>1, <1>2, <1>4
<1>8. ks # <<>> => 1 \in 1..Len(ks)
  BY <1>2, <1>3, EmptySeq
<1>9. \A i \in 1..(Len(ks) - 1) : i + 1 \in 1..Len(ks)
  BY <1>3
<1>10. Fills(l2, from, ks, to)
  BY <1>2, <1>5, <1>8, <1>9 DEF Fills
<1>. QED
  BY <1>6, <1>7, <1>10, RanLemma DEF l2

\* The last entry is one child more.
LEMMA TakeLemma ==
    ASSUME NEW l \in Seq(Entry), l # <<>>, l[Len(l)].from \in 1..Len(l), NEW from \in Nat, NEW ks,
           Fills(l, from, ks, l[Len(l)].from - 1)
    PROVE  /\ Fills(l, from, Append(ks, Len(l)), Len(l))
           /\ Ran(l, ks) \in Seq(Entry) /\ l[Len(l)] \in Entry
           /\ Ran(l, Append(ks, Len(l))) = Append(Ran(l, ks), l[Len(l)])
<1>. DEFINE n == Len(l)
            to == l[Len(l)].from - 1
            ks2 == Append(ks, n)
            m == Len(ks)
<1>1. n \in Nat \ {0} /\ to \in 0..n /\ to + 1 = l[n].from /\ to < n /\ l[n] \in Entry
  BY EmptySeq, LenProperties, ElementOfSeq
<1>2. /\ ks \in Seq(1..to) /\ from <= to + 1
      /\ IF ks = <<>> THEN from = to + 1 ELSE l[ks[1]].from = from /\ ks[m] = to
      /\ \A i \in 1..(m - 1) : l[ks[i + 1]].from = ks[i] + 1
  BY DEF Fills
<1>. HIDE DEF n, to
<1>3. m \in Nat /\ (ks = <<>> <=> m = 0) /\ \A i \in 1..m : ks[i] \in 1..to
  BY <1>2, LenProperties, ElementOfSeq, EmptySeq
<1>4. \A i \in 1..m : ks[i] \in 1..n
  BY <1>1, <1>3
<1>5. ks \in Seq(1..n) /\ n \in 1..n
  BY <1>1, <1>2, <1>4
<1>6. /\ ks2 \in Seq(1..n) /\ Len(ks2) = m + 1 /\ ks2 # <<>> /\ ks2[m + 1] = n
      /\ \A i \in 1..m : ks2[i] = ks[i]
  <2>1. ASSUME NEW S, ks \in Seq(S), n \in S
        PROVE  /\ ks2 \in Seq(S) /\ Len(ks2) = m + 1 /\ ks2 # <<>> /\ ks2[m + 1] = n
               /\ \A i \in 1..m : ks2[i] = ks[i]
    BY <2>1, PushLemma
  <2>. QED
    BY <1>5, <2>1
<1>. HIDE DEF ks2, m
<1>7. l[ks2[1]].from = from
  <2>1. CASE m = 0
    BY <1>1, <1>2, <1>3, <1>6, <2>1
  <2>2. CASE m # 0
    BY <1>2, <1>3, <1>6, <2>2
  <2>. QED
    BY <2>1, <2>2
<1>8. \A i \in 1..m : l[ks2[i + 1]].from = ks2[i] + 1
  <2>. TAKE i \in 1..m
  <2>1. CASE i = m
    <3>1. ks2[i + 1] = n /\ ks2[i] = ks[m] /\ ks # <<>>
      BY <1>3, <1>6, <2>1
    <3>. QED
      BY <1>1, <1>2, <3>1
  <2>2. CASE i # m
    <3>1. i \in 1..(m - 1) /\ i + 1 \in 1..m
      BY <1>3, <2>2
    <3>. QED
      BY <1>2, <1>6, <3>1
  <2>. QED
    BY <2>1, <2>2
<1>9. from <= n + 1
  BY <1>1, <1>2
<1>10. Fills(l, from, ks2, n)
  <2>1. Len(ks2) - 1 = m /\ ks2[Len(ks2)] = n
    BY <1>3, <1>6
  <2>. QED
    BY <1>6, <1>7, <1>8, <1>9, <2>1 DEF Fills
<1>11. /\ Ran(l, ks) \in Seq(Entry) /\ Len(Ran(l, ks)) = m
       /\ \A i \in 1..m : Ran(l, ks)[i] = l[ks[i]]
       /\ Ran(l, ks2) \in Seq(Entry) /\ Len(Ran(l, ks2)) = m + 1
       /\ \A i \in 1..(m + 1) : Ran(l, ks2)[i] = l[ks2[i]]
  BY <1>5, <1>6, RanLemma DEF n, m
<1>12. Ran(l, ks2) = Append(Ran(l, ks), l[n])
  <2>. DEFINE a == Ran(l, ks)
              b == Append(a, l[n])
  <2>1. b \in Seq(Entry) /\ Len(b) = m + 1 /\ b[m + 1] = l[n] /\ \A i \in 1..m : b[i] = a[i]
    BY <1>1, <1>11, PushLemma
  <2>. HIDE DEF b
  <2>2. \A i \in 1..(m + 1) : Ran(l, ks2)[i] = b[i]
    <3>. TAKE i \in 1..(m + 1)
    <3>1. CASE i = m + 1
      BY <1>6, <1>11, <2>1, <3>1
    <3>2. CASE i # m + 1
      <4>1. i \in 1..m
        BY <1>3, <3>2
      <4>2. Ran(l, ks2)[i] = l[ks2[i]]
        BY <1>11
      <4>3. a[i] = l[ks[i]] /\ ks2[i] = ks[i] /\ b[i] = a[i]
        BY <1>6, <1>11, <2>1, <4>1
      <4>. QED
        BY <4>2, <4>3
    <3>. QED
      BY <3>1, <3>2
  <2>3. Ran(l, ks2) = b
    BY <1>11, <2>1, <2>2, SeqEqual
  <2>. QED
    BY <2>3 DEF b
<1>. QED
  BY <1>1, <1>10, <1>11, <1>12 DEF n, ks2, to

-----------------------------------------------------------------------------
(* What a step keeps. *)

\* The log stays, or gets one entry more.
Grows == log' = log \/ \E e \in Entry : log' = Append(log, e)

LEMMA FollowsLemma ==
    ASSUME NEW t, NEW l, NEW j,
           Fills(l, l[j].from, l[j].kids, j - 1),
           Rule(t, l[j].node, Ran(l, l[j].kids), l[j].rv, Sentences)
    PROVE  Follows(t, l, j, Sentences)
  BY DEF Follows

LEMMA LogKept ==
    ASSUME IInv, Derives, Grows, tree' = tree
    PROVE  /\ Len(log') \in Nat /\ Len(log) \in Nat /\ Len(log) <= Len(log')
           /\ \A j \in 1..Len(log) : log'[j] = log[j] /\ Follows(tree', log', j, Sentences)
<1>1. log \in Seq(Entry) /\ Len(log) \in Nat
  BY LenProperties DEF IInv, TypeOK
<1>2. \A j \in 1..Len(log) : Follows(tree, log, j, Sentences)
  BY DEF Derives, ResultAgrees
<1>3. CASE log' = log
  BY <1>1, <1>2, <1>3
<1>4. ASSUME NEW e \in Entry, log' = Append(log, e)
      PROVE  \A j \in 1..Len(log) : Follows(tree', log', j, Sentences)
  <2>. TAKE j \in 1..Len(log)
  <2>1. Append(log, e)[j] = log[j]
    BY <1>1, <1>4, PushLemma
  <2>2. /\ Fills(log, log[j].from, log[j].kids, j - 1)
        /\ Rule(tree, log[j].node, Ran(log, log[j].kids), log[j].rv, Sentences)
    BY <1>2 DEF Follows
  <2>3. j - 1 \in 0..Len(log)
    BY <1>1
  <2>4. /\ Fills(log', log[j].from, log[j].kids, j - 1)
        /\ Ran(log', log[j].kids) = Ran(log, log[j].kids)
    BY <1>1, <1>4, <2>2, <2>3, GrowLemma
  <2>. QED
    BY <1>4, <2>1, <2>2, <2>4, FollowsLemma
<1>5. \A e \in Entry : log' = Append(log, e) =>
          Len(log') = Len(log) + 1 /\ \A j \in 1..Len(log) : log'[j] = log[j]
  BY <1>1, PushLemma
<1>. QED
  BY <1>1, <1>3, <1>4, <1>5 DEF Grows

\* An item whose place, child and entry stay.
LEMMA KeepItem ==
    ASSUME IInv, Derives, Grows, tree' = tree, NEW i \in 1..Len(stack),
           open'[i] = open[i], stack'[i].node = stack[i].node,
           stack'[i].rv = stack[i].rv \/ tree.kind[stack[i].node] = "action",
           Doing(i)' = Doing(i), Mark(i)' = Mark(i)
    PROVE  ItemDerives(i)'
<1>. DEFINE from == open[i].from
            kids == open[i].kids
            n == stack[i].node
            to == Mark(i) - 1
<1>1. log \in Seq(Entry) /\ Len(log) \in Nat /\ stack \in Seq(Item) /\ Len(stack) \in Nat
  BY LenProperties DEF IInv, TypeOK
<1>2. /\ Fills(log, from, kids, to)
      /\ Partly(tree, n, Ran(log, kids), stack[i].rv, Doing(i))
  BY DEF Derives, ItemDerives
<1>3. to \in 0..Len(log)
  BY <1>1 DEF Derives
<1>4. Fills(log', from, kids, to) /\ Ran(log', kids) = Ran(log, kids)
  BY <1>1, <1>2, <1>3, GrowLemma DEF Grows
<1>5. Partly(tree, n, Ran(log, kids), stack'[i].rv, Doing(i))
  BY <1>2 DEF Partly
<1>. QED
  BY <1>4, <1>5 DEF ItemDerives

\* A push: the new item has run nothing, and is what the one below was about to run.
LEMMA PushDerives == IInv /\ IInv' /\ Derives /\ Push => Derives'
<1>. SUFFICES ASSUME IInv, IInv', Derives, Push PROVE Derives'
  OBVIOUS
<1>0. PICK L : L = Len(stack)
  OBVIOUS
<1>1. /\ stack \in Seq(Item) /\ open \in Seq(Open) /\ log \in Seq(Entry) /\ tree \in TreeShape
      /\ Len(open) = L /\ L \in Nat /\ Len(log) \in Nat
  BY <1>0, LenProperties DEF IInv, TypeOK, SameHeight
<1>2. /\ todo \in Node /\ todo # None /\ popped = NoItem /\ phase = "run"
      /\ tree' = tree /\ log' = log /\ popped' = NoItem /\ phase' = "run"
      /\ todo' = FirstChild(todo)
  BY DEF Push, IInv, TypeOK, Control
<1>3. /\ Len(stack') = L + 1 /\ stack'[L + 1].node = todo
      /\ stack'[L + 1].rv = InitialRv(tree.kind[todo])
      /\ \A i \in 1..L : stack'[i] = stack[i]
  BY <1>0, <1>1 DEF Push
<1>4. /\ open'[L + 1].from = Len(log) + 1 /\ open'[L + 1].kids = <<>>
      /\ \A i \in 1..L : open'[i] = open[i]
  BY <1>1 DEF Push, Begun
<1>5. \A i \in 0..L : Doing(i)' = Doing(i) /\ Mark(i)' = Mark(i)
  <2>. TAKE i \in 0..L
  <2>1. CASE i < L
    <3>1. i + 1 \in 1..L /\ i < L + 1
      BY <1>1, <2>1
    <3>. QED
      BY <1>0, <1>3, <1>4, <2>1, <3>1 DEF Doing, Mark
  <2>2. CASE i = L
    <3>1. i < L + 1 /\ ~(i < L)
      BY <1>1, <2>2
    <3>. QED
      BY <1>0, <1>2, <1>3, <1>4, <2>2, <3>1 DEF Doing, Mark
  <2>. QED
    BY <1>1, <2>1, <2>2
<1>6. Doing(L + 1)' = FirstChild(todo) /\ Mark(L + 1)' = Len(log) + 1
  BY <1>1, <1>2, <1>3 DEF Doing, Mark
<1>7. \A i \in 1..L : ItemDerives(i)'
  <2>. TAKE i \in 1..L
  <2>1. Doing(i)' = Doing(i) /\ Mark(i)' = Mark(i)
    BY <1>1, <1>5
  <2>. QED
    BY <1>0, <1>2, <1>3, <1>4, <2>1, KeepItem DEF Grows
<1>8. ItemDerives(L + 1)'
  <2>1. Fills(log, Len(log) + 1, <<>>, Len(log)) /\ Ran(log, <<>>) = <<>>
    BY <1>1, NoKids
  <2>2. Partly(tree, todo, <<>>, InitialRv(tree.kind[todo]), FirstChild(todo))
    BY <1>1, <1>2, StartPart
  <2>3. Len(log) + 1 - 1 = Len(log)
    BY <1>1
  <2>. QED
    BY <1>2, <1>3, <1>4, <1>6, <2>1, <2>2, <2>3 DEF ItemDerives
<1>9. \A i \in 1..(L + 1) : i \in 1..L \/ i = L + 1
  BY <1>1
<1>10. \A i \in 0..(L + 1) : i \in 0..L \/ i = L + 1
  BY <1>1
<1>11. \A i \in 1..Len(stack') : ItemDerives(i)'
  BY <1>3, <1>7, <1>8, <1>9
<1>12. \A i \in 0..Len(stack') : Mark(i)' \in 1..(Len(log') + 1)
  <2>1. \A i \in 0..L : Mark(i)' \in 1..(Len(log) + 1)
    BY <1>0, <1>5 DEF Derives
  <2>2. Mark(L + 1)' \in 1..(Len(log) + 1)
    BY <1>1, <1>6
  <2>. QED
    BY <1>2, <1>3, <1>10, <2>1, <2>2
<1>13. ResultAgrees'
  BY <1>2, LogKept DEF ResultAgrees, Grows
<1>14. Mark(0)' = 1
  BY <1>1, <1>2, <1>5 DEF Derives
<1>. QED
  BY <1>2, <1>11, <1>12, <1>13, <1>14 DEF Derives

\* A node that ends and has followed its rule: its entry is a step of the derivation, and
\* the node is what the item below has just run.
LEMMA EndDerives ==
    ASSUME IInv, IInv', Derives, NEW rv \in Rv, NEW kids \in Seq(Nat), EndsWith(rv, kids),
           popped' \in Item, popped'.node = Top.node, popped'.rv = rv,
           tree' = tree, todo = None, todo' = None, phase # "finished", phase' # "finished",
           Fills(log, open[Len(open)].from, kids, Len(log)),
           Rule(tree, Top.node, Ran(log, kids), rv, Sentences)
    PROVE  Derives'
<1>. DEFINE L == Len(stack)
            entry == [node |-> Top.node, rv |-> rv, from |-> open[Len(open)].from, kids |-> kids]
            N == Len(log)
<1>1. /\ stack \in Seq(Item) /\ open \in Seq(Open) /\ log \in Seq(Entry)
      /\ Len(open) = L /\ L \in Nat \ {0} /\ N \in Nat
      /\ stack # <<>> /\ open # <<>> /\ Top \in Item /\ open[L] \in Open
  BY TopLemma, LenProperties, EmptySeq DEF IInv, TypeOK, SameHeight, EndsWith
<1>2. /\ Len(stack') = L - 1 /\ \A i \in 1..(L - 1) : stack'[i] = stack[i]
      /\ \A i \in 1..(L - 1) : open'[i] = open[i]
  BY <1>1, PopLemma DEF EndsWith, Below, Ended
<1>3. entry \in Entry /\ log' = Append(log, entry)
  BY <1>1 DEF Item, Open, Entry, EndsWith, Logged
<1>4. /\ Len(log') = N + 1 /\ log'[N + 1] = entry /\ Grows
      /\ entry.from = open[L].from /\ entry.kids = kids /\ entry.node = Top.node /\ entry.rv = rv
  BY <1>1, <1>3, PushLemma DEF Grows
<1>5. popped' # NoItem
  BY <1>1, RootAssumption DEF Item, NoItem
<1>. HIDE DEF L, N, entry
<1>6. \A i \in 0..(L - 1) : Doing(i)' = Doing(i) /\ Mark(i)' = Mark(i)
  <2>. TAKE i \in 0..(L - 1)
  <2>1. CASE i < L - 1
    <3>1. i + 1 \in 1..(L - 1) /\ i < L
      BY <1>1, <2>1
    <3>. QED
      BY <1>2, <2>1, <3>1 DEF Doing, Mark, L
  <2>2. CASE i = L - 1
    <3>1. i < L /\ ~(i < L - 1) /\ i + 1 = L
      BY <1>1, <2>2
    <3>2. Doing(i)' = Top.node /\ Mark(i)' = entry.from
      BY <1>2, <1>4, <1>5, <3>1 DEF Doing, Mark
    <3>3. Doing(i) = Top.node /\ Mark(i) = open[L].from
      BY <3>1 DEF Doing, Mark, Top, L
    <3>. QED
      BY <1>4, <3>2, <3>3
  <2>. QED
    BY <1>1, <2>1, <2>2
<1>7. \A i \in 1..(L - 1) : ItemDerives(i)'
  <2>. TAKE i \in 1..(L - 1)
  <2>1. /\ Doing(i)' = Doing(i) /\ Mark(i)' = Mark(i) /\ i \in 1..Len(stack)
    BY <1>1, <1>6 DEF L
  <2>. QED
    BY <1>2, <1>4, <2>1, KeepItem
<1>8. \A i \in 0..(L - 1) : Mark(i)' \in 1..(Len(log') + 1)
  <2>. TAKE i \in 0..(L - 1)
  <2>1. Mark(i) \in 1..(N + 1)
    BY <1>1 DEF Derives, L, N
  <2>. QED
    BY <1>1, <1>4, <1>6, <2>1
<1>9. Follows(tree', log', N + 1, Sentences)
  <2>1. Fills(log', entry.from, kids, N) /\ Ran(log', kids) = Ran(log, kids)
    BY <1>1, <1>3, <1>4, GrowLemma DEF N, L
  <2>2. PICK j \in Nat : j = N + 1 /\ j - 1 = N
    BY <1>1
  <2>3. Fills(log', log'[j].from, log'[j].kids, j - 1)
    BY <1>4, <2>1, <2>2
  <2>4. Rule(tree', log'[j].node, Ran(log', log'[j].kids), log'[j].rv, Sentences)
    BY <1>4, <2>1, <2>2
  <2>5. Follows(tree', log', j, Sentences)
    BY <2>3, <2>4, FollowsLemma
  <2>. QED
    BY <2>2, <2>5
<1>10. ResultAgrees'
  <2>1. \A j \in 1..(N + 1) : j \in 1..N \/ j = N + 1
    BY <1>1
  <2>2. \A j \in 1..N : Follows(tree', log', j, Sentences)
    BY <1>4, LogKept DEF N
  <2>. QED
    BY <1>4, <1>9, <2>1, <2>2 DEF ResultAgrees
<1>11. log' # <<>> /\ log'[Len(log')].node = popped'.node /\ log'[Len(log')].rv = popped'.rv
  BY <1>1, <1>3, <1>4, PushLemma
<1>12. Mark(0)' = 1
  BY <1>1, <1>6 DEF Derives
<1>. QED
  BY <1>2, <1>7, <1>8, <1>10, <1>11, <1>12 DEF Derives

\* What the invariant says of the item on top.
LEMMA TopDerives ==
    ASSUME IInv, Derives, stack # <<>>
    PROVE  /\ Len(stack) \in 1..Len(stack) /\ Len(open) = Len(stack)
           /\ Top.node \in Node /\ tree \in TreeShape /\ log \in Seq(Entry)
           /\ open[Len(open)].from \in Nat
           /\ popped = NoItem /\ todo = None =>
                 /\ Fills(log, open[Len(open)].from, Kids, Len(log))
                 /\ Ran(log, Kids) \in Seq(Entry)
                 /\ Partly(tree, Top.node, Ran(log, Kids), Top.rv, None)
           /\ popped # NoItem =>
                 LET e == log[Len(log)]
                 IN  /\ e \in Entry /\ e.node = popped.node /\ e.rv = popped.rv
                     /\ Ran(log, Kids) \in Seq(Entry)
                     /\ Partly(tree, Top.node, Ran(log, Kids), Top.rv, e.node)
                     /\ Fills(log, open[Len(open)].from, Append(Kids, Len(log)), Len(log))
                     /\ Ran(log, Append(Kids, Len(log))) = Append(Ran(log, Kids), e)
<1>. DEFINE L == Len(stack)
            from == open[Len(open)].from
            e == log[Len(log)]
<1>1. /\ L \in 1..L /\ Len(open) = L /\ L \in Nat \ {0} /\ Len(log) \in Nat
      /\ Top \in Item /\ open[L] \in Open /\ log \in Seq(Entry) /\ tree \in TreeShape
  BY TopLemma, LenProperties, EmptySeq DEF IInv, TypeOK, SameHeight
<1>2. Top.node \in Node /\ from \in Nat
  BY <1>1 DEF Item, Open
<1>3. /\ Fills(log, from, Kids, Mark(L) - 1)
      /\ Partly(tree, Top.node, Ran(log, Kids), Top.rv, Doing(L))
  BY <1>1 DEF Derives, ItemDerives, Kids, Top
<1>4. /\ Doing(L) = IF popped # NoItem THEN popped.node ELSE todo
      /\ Mark(L) = IF popped # NoItem THEN e.from ELSE Len(log) + 1
      /\ Mark(L) \in 1..(Len(log) + 1)
  BY <1>1 DEF Derives, Doing, Mark
<1>5. ASSUME popped = NoItem, todo = None
      PROVE  /\ Fills(log, from, Kids, Len(log))
             /\ Ran(log, Kids) \in Seq(Entry)
             /\ Partly(tree, Top.node, Ran(log, Kids), Top.rv, None)
  <2>1. Doing(L) = None /\ Mark(L) - 1 = Len(log)
    BY <1>1, <1>4, <1>5
  <2>2. Fills(log, from, Kids, Len(log)) /\ Partly(tree, Top.node, Ran(log, Kids), Top.rv, None)
    BY <1>3, <2>1
  <2>3. Kids \in Seq(1..Len(log))
    BY <2>2 DEF Fills
  <2>. QED
    BY <1>1, <2>2, <2>3, RanLemma
<1>6. ASSUME popped # NoItem
      PROVE  /\ e \in Entry /\ e.node = popped.node /\ e.rv = popped.rv
             /\ Ran(log, Kids) \in Seq(Entry)
             /\ Partly(tree, Top.node, Ran(log, Kids), Top.rv, e.node)
             /\ Fills(log, from, Append(Kids, Len(log)), Len(log))
             /\ Ran(log, Append(Kids, Len(log))) = Append(Ran(log, Kids), e)
  <2>1. log # <<>> /\ e.node = popped.node /\ e.rv = popped.rv
    BY <1>6 DEF Derives
  <2>2. Len(log) \in 1..Len(log) /\ e \in Entry
    BY <1>1, <2>1, EmptySeq, ElementOfSeq
  <2>3. Fills(log, e.from, e.kids, Len(log) - 1)
    BY <2>2 DEF Derives, ResultAgrees, Follows
  <2>4. e.from \in 1..Len(log)
    <3>1. e.from <= Len(log) - 1 + 1
      BY <2>3 DEF Fills
    <3>2. e.from \in Nat \ {0}
      BY <2>2 DEF Entry
    <3>. QED
      BY <1>1, <3>1, <3>2
  <2>5. Doing(L) = e.node /\ Mark(L) = e.from
    BY <1>4, <1>6, <2>1
  <2>6. Fills(log, from, Kids, e.from - 1)
    BY <1>3, <2>5
  <2>. QED
    BY <1>1, <1>2, <1>3, <2>1, <2>2, <2>4, <2>5, <2>6, TakeLemma
<1>. HIDE DEF L, e, from
<1>. QED
  BY <1>1, <1>2, <1>5, <1>6 DEF L, e, from

\* A composite or condition with nothing left to run is popped.
LEMMA PopInnerDerives == IInv /\ IInv' /\ Derives /\ PopInner => Derives'
<1>. SUFFICES ASSUME IInv, IInv', Derives, PopInner PROVE Derives'
  OBVIOUS
<1>1. /\ stack # <<>> /\ popped = NoItem /\ todo = None /\ phase = "run"
      /\ tree.kind[Top.node] # "action" /\ popped' = Top
      /\ tree' = tree /\ todo' = None /\ phase' = "run"
      /\ EndsWith(Top.rv, Kids)
  BY DEF PopInner, AtLoopHead, EndsWith
<1>2. Top \in Item /\ Kids \in Seq(Nat) /\ Top.rv \in Rv
  BY <1>1, TopLemma DEF Item, Open, Kids
<1>3. /\ Fills(log, open[Len(open)].from, Kids, Len(log))
      /\ Ran(log, Kids) \in Seq(Entry)
      /\ Partly(tree, Top.node, Ran(log, Kids), Top.rv, None)
      /\ Top.node \in Node /\ tree \in TreeShape
  BY <1>1, TopDerives
<1>4. Rule(tree, Top.node, Ran(log, Kids), Top.rv, Sentences)
  BY <1>1, <1>3, WholeInner
<1>. QED
  BY <1>1, <1>2, <1>3, <1>4, EndDerives

\* An action that returned is popped.
LEMMA ReturnDerives == ASSUME IInv, IInv', Derives, NEW rv \in Rv, ReturnPopped(rv) PROVE Derives'
<1>1. /\ stack # <<>> /\ popped = NoItem /\ todo = None /\ phase = "op"
      /\ tree.kind[Top.node] = "action"
  BY DEF IInv, Control, ReturnPopped
<1>2. /\ popped' = [Top EXCEPT !.rv = rv, !.waits = 0]
      /\ tree' = tree /\ todo' = None /\ phase' = "run"
      /\ EndsWith(rv, <<>>)
  BY <1>1 DEF ReturnPopped, EndsWith
<1>3. Top \in Item /\ Kids \in Seq(Nat)
  BY <1>1, TopLemma DEF Open, Kids
<1>4. popped' \in Item /\ popped'.node = Top.node /\ popped'.rv = rv
  BY <1>2, <1>3 DEF Item
<1>5. /\ Fills(log, open[Len(open)].from, Kids, Len(log))
      /\ Partly(tree, Top.node, Ran(log, Kids), Top.rv, None)
      /\ log \in Seq(Entry)
  BY <1>1, TopDerives
<1>6. Ran(log, Kids) = <<>>
  BY <1>1, <1>5 DEF Partly, Decorator
<1>7. Kids = <<>>
  <2>1. Kids \in Seq(1..Len(log))
    BY <1>5 DEF Fills
  <2>2. Len(Ran(log, Kids)) = Len(Kids)
    BY <1>5, <2>1, RanLemma
  <2>. QED
    BY <1>3, <1>6, <2>2, EmptySeq
<1>8. Rule(tree, Top.node, Ran(log, <<>>), rv, Sentences)
  BY <1>1, <1>6, <1>7 DEF Rule
<1>9. Fills(log, open[Len(open)].from, <<>>, Len(log)) /\ <<>> \in Seq(Nat)
  BY <1>5, <1>7
<1>. QED
  BY <1>1, <1>2, <1>4, <1>8, <1>9, EndDerives

\* A decorator ends with its child.
LEMMA DecoratorDerives == IInv /\ IInv' /\ Derives /\ UpDecorator => Derives'
<1>. SUFFICES ASSUME IInv, IInv', Derives, UpDecorator PROVE Derives'
  OBVIOUS
<1>. DEFINE e == log[Len(log)]
            rv == DecoratorRv(tree.kind[Top.node], e.rv)
            kids == Append(Kids, Len(log))
<1>1. stack # <<>> /\ popped # NoItem /\ tree.kind[Top.node] \in Decorator
  BY DEF UpDecorator
<1>2. /\ e \in Entry /\ e.node = popped.node /\ e.rv = popped.rv
      /\ Ran(log, Kids) \in Seq(Entry)
      /\ Partly(tree, Top.node, Ran(log, Kids), Top.rv, e.node)
      /\ Fills(log, open[Len(open)].from, kids, Len(log))
      /\ Ran(log, kids) = Append(Ran(log, Kids), e)
      /\ Top.node \in Node /\ tree \in TreeShape /\ log \in Seq(Entry)
  BY <1>1, TopDerives
<1>3. Top \in Item /\ Kids \in Seq(Nat) /\ Len(log) \in Nat
  BY <1>1, TopLemma DEF Open, Kids
<1>4. kids \in Seq(Nat) /\ rv \in Rv
  <2>1. e.rv \in Rv /\ tree.kind[Top.node] \in Kind
    BY <1>2, KindLemma DEF Entry
  <2>2. rv \in Rv
    BY <2>1, RvLemma
  <2>. QED
    BY <1>3, <2>2
<1>5. Ran(log, Kids) = <<>> /\ Rule(tree, Top.node, <<e>>, rv, Sentences)
  BY <1>1, <1>2, WholeDecorator
<1>6. Append(<<>>, e) = <<e>>
  OBVIOUS
<1>7. Rule(tree, Top.node, Ran(log, kids), rv, Sentences)
  BY <1>2, <1>5, <1>6
<1>8. /\ popped' = [Top EXCEPT !.rv = rv] /\ EndsWith(rv, kids)
      /\ tree' = tree /\ todo' = todo /\ phase' = phase
  BY <1>1, <1>2 DEF UpDecorator, EndsWith
<1>. HIDE DEF e, rv, kids
<1>9. popped' \in Item /\ popped'.node = Top.node /\ popped'.rv = rv
  BY <1>3, <1>4, <1>8 DEF Item
<1>10. todo = None /\ phase = "run"
  BY <1>1 DEF IInv, Control
<1>. QED
  BY <1>2, <1>4, <1>7, <1>8, <1>9, <1>10, EndDerives

\* A composite or condition that takes the result of its child.
LEMMA TakeDerives ==
    ASSUME IInv, IInv', Derives, NEW rv \in Rv, NEW next \in Node \cup {None},
           stack # <<>>, popped # NoItem, phase # "finished",
           stack' = SetTop([Top EXCEPT !.rv = rv]), todo' = next, popped' = NoItem,
           open' = Taken, UNCHANGED <<log, tree, phase>>,
           Partly(tree, Top.node, Append(Ran(log, Kids), log[Len(log)]), rv, next)
    PROVE  Derives'
<1>0. PICK L : L = Len(stack)
  OBVIOUS
<1>1. /\ stack \in Seq(Item) /\ open \in Seq(Open) /\ log \in Seq(Entry)
      /\ Len(open) = L /\ L \in Nat \ {0} /\ Len(log) \in Nat
      /\ open # <<>> /\ Top \in Item /\ open[L] \in Open
  BY <1>0, TopLemma, LenProperties, EmptySeq DEF IInv, TypeOK, SameHeight
<1>2. /\ Len(stack') = L /\ stack'[L].node = Top.node /\ stack'[L].rv = rv
      /\ \A i \in 1..(L - 1) : stack'[i] = stack[i]
  <2>1. [Top EXCEPT !.rv = rv] \in Item /\ [Top EXCEPT !.rv = rv].node = Top.node
        /\ [Top EXCEPT !.rv = rv].rv = rv
    BY <1>1 DEF Item
  <2>. QED
    BY <1>0, <1>1, <2>1, SetTopLemma DEF SetTop
<1>3. /\ open'[L].from = open[L].from /\ open'[L].kids = Append(Kids, Len(log))
      /\ \A i \in 1..(L - 1) : open'[i] = open[i]
  BY <1>1 DEF Taken, Kids
<1>4. log' = log /\ tree' = tree /\ phase' = phase
  OBVIOUS
<1>5. \A i \in 0..(L - 1) : Doing(i)' = Doing(i) /\ Mark(i)' = Mark(i)
  <2>. TAKE i \in 0..(L - 1)
  <2>1. i < L /\ (i + 1 = L \/ i + 1 \in 1..(L - 1))
    BY <1>1
  <2>2. stack'[i + 1].node = stack[i + 1].node /\ open'[i + 1].from = open[i + 1].from
    <3>1. CASE i + 1 = L
      BY <1>0, <1>2, <1>3, <3>1 DEF Top
    <3>2. CASE i + 1 \in 1..(L - 1)
      BY <1>2, <1>3, <3>2
    <3>. QED
      BY <2>1, <3>1, <3>2
  <2>. QED
    BY <1>0, <1>2, <2>1, <2>2 DEF Doing, Mark
<1>6. Doing(L)' = next /\ Mark(L)' = Len(log) + 1
  BY <1>1, <1>2, <1>4 DEF Doing, Mark
<1>7. \A i \in 1..(L - 1) : ItemDerives(i)'
  <2>. TAKE i \in 1..(L - 1)
  <2>1. i \in 1..Len(stack) /\ Doing(i)' = Doing(i) /\ Mark(i)' = Mark(i)
    BY <1>0, <1>1, <1>5
  <2>. QED
    BY <1>2, <1>3, <1>4, <2>1, KeepItem DEF Grows
<1>8. ItemDerives(L)'
  <2>1. /\ Fills(log, open[L].from, Append(Kids, Len(log)), Len(log))
        /\ Ran(log, Append(Kids, Len(log))) = Append(Ran(log, Kids), log[Len(log)])
    BY <1>1, TopDerives
  <2>2. Len(log) + 1 - 1 = Len(log)
    BY <1>1
  <2>. QED
    BY <1>2, <1>3, <1>4, <1>6, <2>1, <2>2 DEF ItemDerives
<1>9. \A i \in 1..Len(stack') : ItemDerives(i)'
  <2>1. \A i \in 1..L : i \in 1..(L - 1) \/ i = L
    BY <1>1
  <2>. QED
    BY <1>2, <1>7, <1>8, <2>1
<1>10. \A i \in 0..Len(stack') : Mark(i)' \in 1..(Len(log') + 1)
  <2>1. \A i \in 0..L : i \in 0..(L - 1) \/ i = L
    BY <1>1
  <2>2. \A i \in 0..(L - 1) : Mark(i)' \in 1..(Len(log) + 1)
    BY <1>0, <1>1, <1>5 DEF Derives
  <2>3. Mark(L)' \in 1..(Len(log) + 1)
    BY <1>1, <1>6
  <2>. QED
    BY <1>2, <1>4, <2>1, <2>2, <2>3
<1>11. ResultAgrees'
  BY <1>4, LogKept DEF ResultAgrees, Grows
<1>12. Mark(0)' = 1
  BY <1>1, <1>5 DEF Derives
<1>. QED
  BY <1>4, <1>9, <1>10, <1>11, <1>12 DEF Derives

LEMMA UpDerives == IInv /\ IInv' /\ Derives /\ (UpComposite \/ UpCondition) => Derives'
<1>. SUFFICES ASSUME IInv, IInv', Derives, UpComposite \/ UpCondition PROVE Derives'
  OBVIOUS
<1>. DEFINE e == log[Len(log)]
            p == Top.node
            k == tree.kind[p]
            ran == Ran(log, Kids)
<1>1. /\ stack # <<>> /\ popped # NoItem /\ popped' = NoItem /\ open' = Taken
      /\ UNCHANGED <<log, tree, phase>>
  BY DEF UpComposite, UpCondition
<1>2. /\ e \in Entry /\ e.node = popped.node /\ e.rv = popped.rv /\ ran \in Seq(Entry)
      /\ Partly(tree, p, ran, Top.rv, e.node) /\ p \in Node /\ tree \in TreeShape
  BY <1>1, TopDerives
<1>3. Top \in Item /\ Top.rv \in Rv /\ e.rv \in Rv /\ k \in Kind
  BY <1>1, <1>2, TopLemma, KindLemma DEF Item, Entry
<1>4. phase # "finished" /\ todo' \in Node \cup {None}
  BY <1>1 DEF IInv, Control, TypeOK
<1>5. CASE UpComposite
  <2>. DEFINE rv == CompositeRv(k, Top.rv, e.rv)
  <2>1. /\ k \in Composite /\ stack' = SetTop([Top EXCEPT !.rv = rv])
        /\ todo' = CompositeNext(p, e.node, k, e.rv)
    BY <1>2, <1>5 DEF UpComposite
  <2>2. PartOfComposite(tree, p, ran, Top.rv, e.node)
    BY <1>2, <2>1 DEF Partly, Composite, Selection, Parallel, Decorator
  <2>3. PartOfComposite(tree, p, Append(ran, e), rv, todo')
    BY <1>2, <2>1, <2>2, CompositePart
  <2>4. Partly(tree, p, Append(ran, e), rv, todo')
    BY <2>1, <2>3 DEF Partly, Composite, Selection, Parallel, Decorator
  <2>5. rv \in Rv
    BY <1>3, RvLemma
  <2>. HIDE DEF rv
  <2>. QED
    BY <1>1, <1>4, <2>1, <2>4, <2>5, TakeDerives
<1>6. CASE UpCondition
  <2>. DEFINE rv == ConditionRv(p, e.node, Top.rv, e.rv)
  <2>1. /\ k = "condition" /\ stack' = SetTop([Top EXCEPT !.rv = rv])
        /\ todo' = ConditionNext(p, e.node, e.rv)
    BY <1>2, <1>6 DEF UpCondition
  <2>2. PartOfCondition(tree, p, ran, Top.rv, e.node)
    BY <1>2, <2>1 DEF Partly, Decorator
  <2>3. PartOfCondition(tree, p, Append(ran, e), rv, todo')
    BY <1>2, <2>1, <2>2, ConditionPart
  <2>4. Partly(tree, p, Append(ran, e), rv, todo')
    BY <2>1, <2>3 DEF Partly, Decorator
  <2>5. rv \in Rv
    BY <1>3, RvLemma
  <2>. HIDE DEF rv
  <2>. QED
    BY <1>1, <1>4, <2>1, <2>4, <2>5, TakeDerives
<1>. QED
  BY <1>5, <1>6

\* The root has ended: the whole log is its derivation.
LEMMA FinishDerives == IInv /\ IInv' /\ Derives /\ Finish => Derives'
<1>. SUFFICES ASSUME IInv, IInv', Derives, Finish PROVE Derives'
  OBVIOUS
<1>1. /\ stack = <<>> /\ popped # NoItem /\ todo = None /\ phase = "run" /\ popped.node = Root
      /\ Len(stack) = 0
  BY EmptySeq DEF IInv, Control, StackIsPath, Finish
<1>2. /\ stack' = <<>> /\ todo' = None /\ popped' = NoItem /\ phase' = "finished"
      /\ log' = log /\ tree' = tree /\ open' = open /\ result' = popped.rv /\ Len(stack') = 0
  BY <1>1 DEF Finish
<1>3. log \in Seq(Entry) /\ Len(log) \in Nat
  BY LenProperties DEF IInv, TypeOK
<1>4. log # <<>> /\ log[Len(log)].node = popped.node /\ log[Len(log)].rv = popped.rv
  BY <1>1 DEF Derives
<1>5. log[Len(log)].from = 1
  <2>1. Mark(0) = 1
    BY <1>1 DEF Derives
  <2>. QED
    BY <1>1, <2>1 DEF Mark
<1>6. ResultAgrees'
  BY <1>1, <1>2, <1>4, <1>5, LogKept DEF ResultAgrees, Grows
<1>7. \A i \in 0..Len(stack') : Mark(i)' \in 1..(Len(log') + 1)
  <2>. SUFFICES ASSUME NEW i \in 0..0 PROVE Mark(i)' \in 1..(Len(log') + 1)
    BY <1>2
  <2>1. ~(i < Len(stack'))
    BY <1>2
  <2>. QED
    BY <1>2, <1>3, <2>1 DEF Mark
<1>. QED
  BY <1>2, <1>6, <1>7 DEF Derives

\* A step that keeps the nodes of the stack, and the results of all but an action on top.
LEMMA QuietDerives ==
    ASSUME IInv, Derives, phase # "finished", phase' # "finished",
           UNCHANGED <<tree, todo, popped, log, open>>, Len(stack') = Len(stack),
           \A i \in 1..Len(stack) :
               /\ stack'[i].node = stack[i].node
               /\ stack'[i].rv = stack[i].rv \/ tree.kind[stack[i].node] = "action"
    PROVE  Derives'
<1>1. Len(stack) \in Nat
  BY LenProperties DEF IInv, TypeOK
<1>2. \A i \in 0..Len(stack) : Doing(i)' = Doing(i) /\ Mark(i)' = Mark(i)
  <2>. TAKE i \in 0..Len(stack)
  <2>1. i < Len(stack) => stack'[i + 1].node = stack[i + 1].node
    BY <1>1
  <2>. QED
    BY <2>1 DEF Doing, Mark
<1>3. \A i \in 1..Len(stack) : ItemDerives(i)'
  <2>. TAKE i \in 1..Len(stack)
  <2>1. Doing(i)' = Doing(i) /\ Mark(i)' = Mark(i)
    BY <1>1, <1>2
  <2>. QED
    BY <2>1, KeepItem DEF Grows
<1>4. ResultAgrees'
  BY LogKept DEF ResultAgrees, Grows
<1>5. \A i \in 0..Len(stack) : Mark(i)' \in 1..(Len(log) + 1)
  BY <1>2 DEF Derives
<1>6. Mark(0)' = 1
  BY <1>1, <1>2 DEF Derives
<1>7. popped' # NoItem =>
          log' # <<>> /\ log'[Len(log')].node = popped'.node /\ log'[Len(log')].rv = popped'.rv
  BY DEF Derives
<1>. QED
  BY <1>3, <1>4, <1>5, <1>6, <1>7 DEF Derives

LEMMA OpDerives ==
    ASSUME IInv, Derives, CreateRequire \/ Answer \/ \E rv \in Rv : ReturnBlocked(rv)
    PROVE  Derives'
<1>1. PICK item \in Item : stack' = SetTop(item) /\ item.node = Top.node
  <2>1. phase \in {"op", "blocked"}
    BY DEF CreateRequire, Answer, ReturnBlocked
  <2>2. Top \in Item
    BY <2>1, TopLemma DEF IInv, Control
  <2>3. CASE CreateRequire
    BY <2>2, <2>3 DEF CreateRequire, Item
  <2>4. CASE Answer
    <3>1. Top.waits - 1 \in Nat
      BY <2>2, <2>4 DEF Answer, Item
    <3>. QED
      BY <2>2, <2>4, <3>1 DEF Answer, Item
  <2>5. CASE \E rv \in Rv : ReturnBlocked(rv)
    BY <2>2, <2>5 DEF ReturnBlocked, Item
  <2>. QED
    BY <2>3, <2>4, <2>5
<1>2. /\ phase # "finished" /\ phase' # "finished" /\ UNCHANGED <<tree, todo, popped, log, open>>
      /\ stack # <<>> /\ tree.kind[Top.node] = "action"
  BY DEF CreateRequire, Answer, ReturnBlocked, IInv, Control
<1>3. stack \in Seq(Item) /\ Len(stack) \in Nat \ {0}
  BY <1>2, LenProperties, EmptySeq DEF IInv, TypeOK
<1>4. /\ Len(stack') = Len(stack) /\ stack'[Len(stack)] = item
      /\ \A i \in 1..(Len(stack) - 1) : stack'[i] = stack[i]
  BY <1>1, <1>2, <1>3, SetTopLemma DEF SetTop
<1>5. \A i \in 1..Len(stack) :
          /\ stack'[i].node = stack[i].node
          /\ stack'[i].rv = stack[i].rv \/ tree.kind[stack[i].node] = "action"
  BY <1>1, <1>2, <1>3, <1>4 DEF Top
<1>. QED
  BY <1>2, <1>4, <1>5, QuietDerives

LEMMA ControlDerives ==
    ASSUME IInv, Derives, CallOp \/ Stop \/ LeaveStopped \/ Resume \/ ExecuteEarly
    PROVE  Derives'
<1>1. /\ phase # "finished" /\ phase' # "finished"
      /\ UNCHANGED <<tree, todo, popped, log, open, stack>>
  BY DEF CallOp, Stop, LeaveStopped, Resume, ExecuteEarly, AtLoopHead
<1>. QED
  BY <1>1, QuietDerives

LEMMA StepDerives == IInv /\ IInv' /\ Derives /\ [Next]_vars => Derives'
<1>. SUFFICES ASSUME IInv, IInv', Derives, [Next]_vars PROVE Derives'
  OBVIOUS
<1>1. CASE Next
  BY <1>1, PushDerives, PopInnerDerives, ReturnDerives, DecoratorDerives, UpDerives,
     FinishDerives, OpDerives, ControlDerives DEF Next, Machine, Return
<1>2. CASE UNCHANGED vars
  <2>. USE <1>2 DEF vars
  <2>1. ResultAgrees'
    BY LogKept DEF ResultAgrees, Derives, Grows
  <2>2. \A i : ItemDerives(i)' = ItemDerives(i) /\ Mark(i)' = Mark(i)
    BY DEF ItemDerives, Mark, Doing
  <2>. QED
    BY <2>1, <2>2 DEF Derives
<1>. QED
  BY <1>1, <1>2

LEMMA InitDerives == Init => Derives
<1>. SUFFICES ASSUME Init PROVE Derives
  OBVIOUS
<1>1. Len(stack) = 0 /\ Len(log) = 0 /\ popped = NoItem /\ phase = "run"
  BY DEF Init
<1>2. Mark(0) = 1
  BY <1>1 DEF Mark
<1>. QED
  BY <1>1, <1>2 DEF Derives, ResultAgrees

\* Every node that ended has followed the rule of its kind: it ran the children the
\* rule asks for, in order, and returned what it makes of their results; a run that
\* ended has derived its result for the root.
THEOREM TheResultAgrees == Spec => []ResultAgrees
<1>1. Init => Derives
  BY InitDerives
<1>2. IInv /\ IInv' /\ Derives /\ [Next]_vars => Derives'
  BY StepDerives
<1>3. Derives => ResultAgrees
  BY DEF Derives
<1>. QED
  BY <1>1, <1>2, <1>3, Invariance, PTL DEF Spec

=============================================================================
