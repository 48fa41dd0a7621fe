------------------------------ MODULE LogicTree ------------------------------
(***************************************************************************)
(* What an executor tree means, without a stack: a node that is run runs   *)
(* its children one after the other and returns a result, which follows    *)
(* from theirs by the rule of its kind.                                    *)
(*                                                                         *)
(* A run is a derivation with these rules.  It is written as a log, the    *)
(* nodes in the order they ended in.  The entry of a node has the result   *)
(* it returned (rv), the place where its part of the log begins (from) and *)
(* the places of its children (kids).                                      *)
(*                                                                         *)
(* The rules are those of include/usf/logic/README.md:36-90.  Two sentences *)
(* there about parallel nodes can be suspended (but \subseteq Sentences),   *)
(* with what the code does in their place, so that a property can say      *)
(* which of them a run keeps.                                              *)
(***************************************************************************)
EXTENDS Naturals, Sequences

Opposite(rv) == CASE rv = "true" -> "false" [] rv = "false" -> "true" [] OTHER -> rv

\* The entries of the children, in the order they were run.
Ran(log, kids) == [i \in 1..Len(kids) |-> log[kids[i]]]

\* The results of a sequence of entries.
Rvs(ran) == {ran[i].rv : i \in 1..Len(ran)}

\* The children take up the log between from and to, each up to where the next begins.
Fills(log, from, kids, to) ==
    /\ kids \in Seq(1..to) /\ from <= to + 1
    /\ IF kids = <<>> THEN from = to + 1 ELSE log[kids[1]].from = from /\ kids[Len(kids)] = to
    /\ \A i \in 1..(Len(kids) - 1) : log[kids[i + 1]].from = kids[i] + 1

-----------------------------------------------------------------------------
(* The rules, for the node n of a tree t whose children ran returned rv. *)

\* Of a parallel node: without children it succeeds (README.md:88), and a child that
\* returns null does not affect the execution of the others (README.md:89).
Sentences == {"empty succeeds", "null goes on"}

\* The result of a composite: null if a child returned it, otherwise the result
\* one child is enough for, otherwise the opposite.
Wins(kind) == IF kind \in {"selector", "parallel_one"} THEN "true" ELSE "false"
Outcome(kind, rvs, but) ==
    IF rvs = {} /\ kind = "parallel_one" /\ "empty succeeds" \notin but THEN "true"
    ELSE IF "null" \in rvs THEN "null"
    ELSE IF Wins(kind) \in rvs THEN Wins(kind) ELSE Opposite(Wins(kind))

\* No further child is run after this result of one.
Ends(kind, rv, but) ==
    CASE kind = "selector" -> rv # "false"
      [] kind = "sequence" -> rv # "true"
      [] OTHER             -> rv = "null" /\ "null goes on" \in but

CompositeRule(t, n, ran, rv, but) ==
    LET kind == t.kind[n]
        E(i) == Ends(kind, ran[i].rv, but)
    IN  /\ Len(ran) <= Len(t.sub[n])
        /\ \A i \in 1..Len(ran) : ran[i].node = t.sub[n][i]
        /\ \A i \in 1..(Len(ran) - 1) : ~E(i)
        /\ Len(ran) < Len(t.sub[n]) => ran # <<>> /\ E(Len(ran))
        /\ rv = Outcome(kind, Rvs(ran), but)

DecoratorRule(t, n, ran, rv) ==
    /\ Len(ran) = 1 /\ ran[1].node = t.sub[n][1]
    /\ rv = IF t.kind[n] = "protect" THEN "true" ELSE Opposite(ran[1].rv)

\* The child a condition runs after it got the result c from the first, if any.
Branch(t, n, c) ==
    CASE c = "true"  -> <<t.sub[n][2]>>
      [] c = "false" -> IF t.sub[n][3] \in DOMAIN t.kind THEN <<t.sub[n][3]>> ELSE <<>>
      [] OTHER       -> <<>>

ConditionRule(t, n, ran, rv) ==
    /\ ran # <<>> /\ ran[1].node = t.sub[n][1]
    /\ LET branch == Branch(t, n, ran[1].rv)
       IN  /\ Len(ran) = 1 + Len(branch)
           /\ branch # <<>> => ran[2].node = branch[1]
    /\ rv = ran[Len(ran)].rv

Rule(t, n, ran, rv, but) ==
    CASE t.kind[n] = "action"             -> ran = <<>>
      [] t.kind[n] \in {"protect", "not"} -> DecoratorRule(t, n, ran, rv)
      [] t.kind[n] = "condition"          -> ConditionRule(t, n, ran, rv)
      [] OTHER                            -> CompositeRule(t, n, ran, rv, but)

\* The entry j of the log is one step of a derivation from the entries before it.
Follows(t, log, j, but) ==
    LET e == log[j]
    IN  /\ Fills(log, e.from, e.kids, j - 1)
        /\ Rule(t, e.node, Ran(log, e.kids), e.rv, but)
=============================================================================
