---------------------------- MODULE MCLogicStack ----------------------------
(***************************************************************************)
(* LogicStack on every tree of depth three with this shape: the root 1 may *)
(* be of any kind, its first child 2 too, all other nodes are actions; the *)
(* children of 1 are taken from <<2, 5, 6>>, those of 2 from <<3, 4>>.     *)
(***************************************************************************)
EXTENDS LogicStack

CONSTANT Inner    \* the kinds of nodes 1 and 2 in this run

MCNode == 1..6

\* The child sequences a node of kind k may have, given its candidates.
Children(k, cand) ==
    CASE k = "action"       -> {<<>>}
      [] k \in Composite    -> {SubSeq(cand, 1, i) : i \in 0..Len(cand)}
      [] k \in Decorator    -> {SubSeq(cand, 1, 1)}
      [] k = "condition"    ->
            {SubSeq(cand, 1, 2) \o <<None>>} \cup
            (IF Len(cand) > 2 THEN {SubSeq(cand, 1, 3)} ELSE {})

Tree(k1, s1, k2, s2) ==
    [kind |-> [n \in MCNode |-> CASE n = 1 -> k1 [] n = 2 -> k2 [] OTHER -> "action"],
     sub  |-> [n \in MCNode |-> CASE n = 1 -> s1 [] n = 2 -> s2 [] OTHER -> <<>>]]

MCTrees ==
    UNION {UNION {{Tree(k1, s1, k2, s2) : s1 \in Children(k1, <<2, 5, 6>>),
                                          s2 \in Children(k2, <<3, 4>>)} :
                  k2 \in Inner \cup {"action"}} : k1 \in Inner}

-----------------------------------------------------------------------------
\* include/usf/logic/README.md of a parallel node: it succeeds without children (88), and
\* a child that returns null does not affect the execution of the others (89).  So every
\* run is a derivation with neither sentence suspended.  This asks less, that no run needs
\* both suspended: a single counterexample then refutes the one and the other.
ParallelAsDocumented ==
    phase = "finished" =>
        \E but \in (SUBSET Sentences) \ {Sentences} :
            \A j \in 1..Len(log) : Follows(tree, log, j, but)

\* The TLC configuration gives the constants these values.
MCKinds == Kind \ {"action"}
=============================================================================
