----------------------------- MODULE LogicStack -----------------------------
(***************************************************************************)
(* The behaviour-tree machine of src/usf/logic/logic_stack.c: how one      *)
(* context walks its executor tree.  logic_context_bind pushes the root,   *)
(* logic_stack_push descends to the first action below a node, and         *)
(* logic_stack_exec calls the action on top, pops it and applies the rule  *)
(* of its parent until the stack is empty, an action waits for its         *)
(* requires, or the context leaves the idle state.                         *)
(*                                                                         *)
(* An executor tree is a record: kind of every node and the sequence of    *)
(* its children.  A condition has the children <<if, do, else>>, else may  *)
(* be None.  The 8 inline items, the growth of the extern array by 16 and  *)
(* the out-of-memory exit of logic_stack_push are not modelled.            *)
(***************************************************************************)
EXTENDS Naturals, Sequences, LogicTree

CONSTANTS
    Node,          \* the executors of a tree
    Root,          \* the executor given to logic_context_bind
    None,          \* NULL
    Trees,         \* the trees a context may be bound to
    MaxRequires    \* bound: requires created by the actions of one run

Selection == {"selector", "sequence"}
Parallel  == {"parallel_all", "parallel_one"}
Composite == Selection \cup Parallel
Decorator == {"protect", "not"}
Kind      == Composite \cup Decorator \cup {"condition", "action"}
Rv        == {"true", "false", "null"}

\* What logic_executor_build can produce.  It makes a new executor for every child, so
\* the children of a node are distinct.
TreeShape ==
    {t \in [kind : [Node -> Kind], sub : [Node -> Seq(Node \cup {None})]] :
        \A n \in Node :
            /\ \A i, j \in 1..Len(t.sub[n]) : t.sub[n][i] = t.sub[n][j] => i = j
            /\ t.kind[n] \in Composite => t.sub[n] \in Seq(Node)
            /\ t.kind[n] \in Decorator => Len(t.sub[n]) = 1 /\ t.sub[n][1] # None
            /\ t.kind[n] = "condition" =>
                  Len(t.sub[n]) = 3 /\ t.sub[n][1] # None /\ t.sub[n][2] # None
            /\ t.kind[n] = "action" => t.sub[n] = <<>>}

ASSUME RootAssumption == Root \in Node /\ None \notin Node
ASSUME TreesAssumption == Trees \subseteq TreeShape
ASSUME BoundAssumption == MaxRequires \in Nat

VARIABLES
    tree,      \* the executor tree
    stack,     \* m_inline_items and m_extern_items up to m_item_pos
    todo,      \* the executor logic_stack_push pushes next, None when it returns
    popped,    \* pre_stack_item: the item whose result its parent still has to take
    phase,     \* "run": in the loop; "op": in an action; "blocked", "stopped", "finished"
    live,      \* m_state is idle and m_deleting is 0
    result,    \* m_rv of the root once the stack is empty
    made,      \* requires created so far
    log,       \* history: the nodes that were popped, a derivation of LogicTree
    open       \* history: for every item of the stack its entry of the log so far

vars == <<tree, stack, todo, popped, phase, live, result, made, log, open>>

Item   == [node : Node, rv : Rv, waits : Nat]
NoItem == [node |-> None, rv |-> "null", waits |-> 0]
Open   == [from : Nat \ {0}, kids : Seq(Nat)]
Entry  == [node : Node, rv : Rv, from : Nat \ {0}, kids : Seq(Nat)]

TypeOK ==
    /\ tree \in TreeShape
    /\ stack \in Seq(Item)
    /\ todo \in Node \cup {None}
    /\ popped \in Item \cup {NoItem}
    /\ phase \in {"run", "op", "blocked", "stopped", "finished"}
    /\ live \in BOOLEAN
    /\ result \in Rv
    /\ made \in 0..MaxRequires
    /\ log \in Seq(Entry)
    /\ open \in Seq(Open)

-----------------------------------------------------------------------------
Top == stack[Len(stack)]
Below == SubSeq(stack, 1, Len(stack) - 1)
SetTop(item) == [stack EXCEPT ![Len(stack)] = item]

\* The history: the item on top is pushed, ends with rv after kids, takes the last entry.
Kids == open[Len(open)].kids
Begun == Append(open, [from |-> Len(log) + 1, kids |-> <<>>])
Ended == SubSeq(open, 1, Len(open) - 1)
Logged(rv, kids) ==
    Append(log, [node |-> Top.node, rv |-> rv, from |-> open[Len(open)].from, kids |-> kids])
Taken == [open EXCEPT ![Len(open)] = [from |-> @.from, kids |-> Append(Kids, Len(log))]]

\* The result a pushed item starts with.
InitialRv(k) ==
    CASE k \in {"selector", "parallel_one", "condition"} -> "false"
      [] k \in {"sequence", "parallel_all"}              -> "true"
      [] OTHER                                           -> "null"

\* The child logic_stack_push descends to.
FirstChild(n) == IF tree.sub[n] = <<>> THEN None ELSE tree.sub[n][1]

\* TAILQ_NEXT of child n among the members of composite p.
NextMember(p, n) ==
    LET i == CHOOSE j \in 1..Len(tree.sub[p]) : tree.sub[p][j] = n
    IN  IF i = Len(tree.sub[p]) THEN None ELSE tree.sub[p][i + 1]

\* The child result that settles a composite.
Settles(k) == IF k \in {"selector", "parallel_one"} THEN "true" ELSE "false"

\* Mutant: a null child of a composite does not count.
CompositeRvNoNull(k, old, c) == IF c = Settles(k) THEN c ELSE old

\* What a composite makes of the result c of the child n.
CompositeRv(k, old, c) ==
    IF c = "null" \/ c = Settles(k) THEN c ELSE old
CompositeNext(p, n, k, c) ==
    IF c # "null" /\ (k \in Parallel \/ c # Settles(k)) THEN NextMember(p, n) ELSE None

DecoratorRv(k, c) ==
    CASE k = "protect"                -> "true"
      [] k # "protect" /\ c = "null"  -> "null"
      [] k # "protect" /\ c = "true"  -> "false"
      [] k # "protect" /\ c = "false" -> "true"

\* The child a condition pushes after n; its own result does not change then.
ConditionNext(p, n, c) ==
    CASE n = tree.sub[p][1] /\ c = "true"  -> tree.sub[p][2]
      [] n = tree.sub[p][1] /\ c = "false" -> tree.sub[p][3]
      [] OTHER                             -> None
ConditionRv(p, n, old, c) ==
    IF n = tree.sub[p][1] /\ c = "true" THEN old ELSE c

-----------------------------------------------------------------------------
Init ==
    /\ tree \in Trees
    /\ stack = <<>> /\ todo = Root /\ popped = NoItem
    /\ phase = "run" /\ live = TRUE
    /\ result = "null" /\ made = 0 /\ log = <<>> /\ open = <<>>

\* One round of logic_stack_push (the goto REINTER loop).
Push ==
    /\ todo # None
    /\ stack' = Append(stack, [node |-> todo, rv |-> InitialRv(tree.kind[todo]), waits |-> 0])
    /\ todo' = FirstChild(todo)
    /\ open' = Begun
    /\ UNCHANGED <<tree, popped, phase, live, result, made, log>>

AtLoopHead == phase = "run" /\ todo = None /\ popped = NoItem

\* logic_stack_exec calls the op of the action on top.
CallOp ==
    /\ AtLoopHead /\ live /\ stack # <<>>
    /\ tree.kind[Top.node] = "action"
    /\ phase' = "op"
    /\ UNCHANGED <<tree, stack, todo, popped, live, result, made, log, open>>

\* The op calls logic_require_create on its own stack node.
CreateRequire ==
    /\ phase = "op" /\ made < MaxRequires
    /\ stack' = SetTop([Top EXCEPT !.waits = @ + 1])
    /\ made' = made + 1
    /\ UNCHANGED <<tree, todo, popped, phase, live, result, log, open>>

\* Mutant: a second answer is counted again.
AnswerAgain ==
    /\ phase \in {"op", "blocked"}
    /\ stack' = SetTop([Top EXCEPT !.waits = @ - 1])
    /\ UNCHANGED <<tree, todo, popped, phase, live, result, made, log, open>>

\* A require of the action on top is answered, fails, times out or is canceled.
Answer ==
    /\ phase \in {"op", "blocked"} /\ Top.waits > 0
    /\ stack' = SetTop([Top EXCEPT !.waits = @ - 1])
    /\ UNCHANGED <<tree, todo, popped, phase, live, result, made, log, open>>

\* The context is canceled, timed out or freed: by the op, or while it waits.
Stop ==
    /\ phase \in {"op", "blocked"} /\ live
    /\ live' = FALSE
    /\ phase' = IF phase = "blocked" THEN "stopped" ELSE phase
    /\ UNCHANGED <<tree, stack, todo, popped, result, made, log, open>>

\* Mutant: an op that returns true is popped although its requires wait.
ReturnBlockedFalse(rv) ==
    /\ phase = "op" /\ Top.waits > 0 /\ rv # "null"
    /\ stack' = SetTop([Top EXCEPT !.rv = rv])
    /\ phase' = IF rv = "false" THEN "blocked" ELSE "run"
    /\ popped' = IF rv = "false" THEN popped ELSE Top
    /\ UNCHANGED <<tree, todo, live, result, made, log, open>>

\* The op returns rv and has requires to wait for: the loop is left, the item stays.
ReturnBlocked(rv) ==
    /\ phase = "op" /\ Top.waits > 0 /\ rv # "null"
    /\ stack' = SetTop([Top EXCEPT !.rv = rv])
    /\ phase' = IF live THEN "blocked" ELSE "stopped"
    /\ UNCHANGED <<tree, todo, popped, live, result, made, log, open>>

\* The op returns rv and its item is popped: its datas and requires are cleared.
ReturnPopped(rv) ==
    /\ phase = "op" /\ (Top.waits = 0 \/ rv = "null")
    /\ popped' = [Top EXCEPT !.rv = rv, !.waits = 0]
    /\ stack' = Below
    /\ log' = Logged(rv, <<>>) /\ open' = Ended
    /\ phase' = "run"
    /\ UNCHANGED <<tree, todo, live, result, made>>

\* Mutant: m_item_pos is not decremented.
PopInnerKept ==
    /\ AtLoopHead /\ live /\ stack # <<>>
    /\ tree.kind[Top.node] # "action"
    /\ popped' = Top
    /\ UNCHANGED <<tree, stack, todo, phase, live, result, made, log, open>>

\* A composite or condition that has no further child to run is popped.
PopInner ==
    /\ AtLoopHead /\ live /\ stack # <<>>
    /\ tree.kind[Top.node] # "action"
    /\ popped' = Top
    /\ stack' = Below
    /\ log' = Logged(Top.rv, Kids) /\ open' = Ended
    /\ UNCHANGED <<tree, todo, phase, live, result, made>>

\* The item that was popped was the root: logic_context_execute finds an empty stack.
Finish ==
    /\ popped # NoItem /\ stack = <<>>
    /\ result' = popped.rv /\ popped' = NoItem /\ phase' = "finished"
    /\ UNCHANGED <<tree, stack, todo, live, made, log, open>>

UpComposite ==
    /\ popped # NoItem /\ stack # <<>>
    /\ LET k == tree.kind[Top.node] IN
        /\ k \in Composite
        /\ stack' = SetTop([Top EXCEPT !.rv = CompositeRv(k, @, popped.rv)])
        /\ todo' = CompositeNext(Top.node, popped.node, k, popped.rv)
    /\ popped' = NoItem
    /\ open' = Taken
    /\ UNCHANGED <<tree, phase, live, result, made, log>>

UpCondition ==
    /\ popped # NoItem /\ stack # <<>>
    /\ tree.kind[Top.node] = "condition"
    /\ stack' = SetTop([Top EXCEPT !.rv = ConditionRv(Top.node, popped.node, @, popped.rv)])
    /\ todo' = ConditionNext(Top.node, popped.node, popped.rv)
    /\ popped' = NoItem
    /\ open' = Taken
    /\ UNCHANGED <<tree, phase, live, result, made, log>>

\* A decorator is popped together with its inner node.
UpDecorator ==
    /\ popped # NoItem /\ stack # <<>>
    /\ tree.kind[Top.node] \in Decorator
    /\ LET rv == DecoratorRv(tree.kind[Top.node], popped.rv) IN
        /\ popped' = [Top EXCEPT !.rv = rv]
        /\ log' = Logged(rv, Append(Kids, Len(log)))
    /\ stack' = Below
    /\ open' = Ended
    /\ UNCHANGED <<tree, todo, phase, live, result, made>>

\* The loop is left because the context is no longer idle.
LeaveStopped ==
    /\ AtLoopHead /\ ~live /\ stack # <<>>
    /\ phase' = "stopped"
    /\ UNCHANGED <<tree, stack, todo, popped, live, result, made, log, open>>

\* Mutant: only an op that returned true is called again.
ResumeTrue ==
    /\ phase = "blocked" /\ live /\ Top.waits = 0 /\ Top.rv = "true"
    /\ phase' = "run"
    /\ UNCHANGED <<tree, stack, todo, popped, live, result, made, log, open>>

\* logic_context_execute enters the loop again: the action on top is called
\* again.  The tick does so when no require is left,
Resume ==
    /\ phase = "blocked" /\ live /\ Top.waits = 0
    /\ phase' = "run"
    /\ UNCHANGED <<tree, stack, todo, popped, live, result, made, log, open>>

\* and a direct call does so at any time.
ExecuteEarly ==
    /\ phase = "blocked" /\ live /\ Top.waits > 0
    /\ phase' = "run"
    /\ UNCHANGED <<tree, stack, todo, popped, live, result, made, log, open>>

Machine ==
    \/ Push \/ CallOp \/ PopInner \/ Finish
    \/ UpComposite \/ UpCondition \/ UpDecorator
    \/ LeaveStopped \/ Resume

Return == \E rv \in Rv : ReturnBlocked(rv) \/ ReturnPopped(rv)

Next == Machine \/ Return \/ CreateRequire \/ Answer \/ Stop \/ ExecuteEarly

Spec == Init /\ [][Next]_vars

\* The machine and the ops run to completion; every require is answered in the end, if
\* only by its timeout: this assumes that require-timeout-ms is configured, since
\* logic_require_create starts no timer for the default 0 (logic_manage.c:43).
FairSpec ==
    /\ Spec
    /\ WF_vars(Machine) /\ WF_vars(Return) /\ SF_vars(Answer)

-----------------------------------------------------------------------------
(* Properties *)

\* Requires hang only on the item on top of the stack, and that item is an
\* action: logic_stack_push may move the items below when the extern array
\* grows, which leaves a require's m_stack pointing into the freed array.
OnlyTopWaits ==
    \A i \in 1..Len(stack) :
        stack[i].waits > 0 => /\ i = Len(stack)
                              /\ tree.kind[stack[i].node] = "action"
                              /\ todo = None /\ popped = NoItem

\* The stack is a path of the tree from the root: every item is a child of the
\* one below it, so TAILQ_NEXT and the if/do/else tests of logic_stack_exec
\* always look at a child of the item they update.
IsChild(p, n) == \E i \in 1..Len(tree.sub[p]) : tree.sub[p][i] = n
StackIsPath ==
    /\ stack # <<>> => stack[1].node = Root
    /\ \A i \in 1..(Len(stack) - 1) : IsChild(stack[i].node, stack[i + 1].node)
    /\ todo # None => IF stack = <<>> THEN todo = Root ELSE IsChild(Top.node, todo)
    /\ popped # NoItem =>
          IF stack = <<>> THEN popped.node = Root ELSE IsChild(Top.node, popped.node)

\* The log is a derivation of LogicTree, but for the two sentences of the documentation
\* that the code does not keep (logic_stack.c:93 and 166; ParallelAsDocumented): every
\* node that ended ran the children its rule asks for, in their order and no others, and
\* returned the result the rule makes of theirs.  A run that ended has derived its result
\* for the root with the whole log.
ResultAgrees ==
    /\ \A j \in 1..Len(log) : Follows(tree, log, j, Sentences)
    /\ phase = "finished" =>
          /\ log # <<>>
          /\ LET e == log[Len(log)] IN e.node = Root /\ e.from = 1 /\ e.rv = result

\* Every run ends: with an empty stack or because the context was stopped.
RunEnds == <>(phase \in {"finished", "stopped"})
=============================================================================
