--------------------------- MODULE Timeline_proofs ---------------------------
(***************************************************************************)
(* Proofs about Timeline for every size of the ring, every set of          *)
(* timelines and events, and every sequence of calls.                      *)
(***************************************************************************)
EXTENDS MCTimeline, TailQueue_proofs, FiniteSetTheorems

\* Where tl_manage_tick stands, and what is in the ring then.
Control ==
    /\ at = "wrapped" => begin > end
    /\ running # None => left > 0
    /\ running \in Event => at = "events"
    /\ running = "action" => at \in {"wrapped", "plain"} /\ begin # end
    /\ running = "action" /\ at = "plain" => begin < ActionMax - 1
    /\ \A i \in 0..(RingCount - 1) : ring[RingAt(i)] \in Tl

\* The inductive invariant.
IInv == TypeOK /\ EventsLinked /\ Control

-----------------------------------------------------------------------------
(* The queue of events, as the code changes it. *)

\* What EventsLinked says of a queue and the nodes.
Agree(q, nodes) ==
    /\ q \in Seq(Event) /\ IsInjective(q)
    /\ Members(q) = {e \in Event : nodes[e] # NoNode /\ nodes[e].state = "queued"}
    /\ \A i, j \in 1..Len(q) : i < j => nodes[q[i]].time <= nodes[q[j]].time

\* A set of positions that is closed downwards is a prefix.
LEMMA PrefixLemma ==
    ASSUME NEW n \in Nat, NEW S \in SUBSET (1..n),
           \A i \in S : \A j \in 1..n : j < i => j \in S
    PROVE  Cardinality(S) \in 0..n /\ S = 1..Cardinality(S)
<1>1. IsFiniteSet(1..n) /\ Cardinality(1..n) = n
  BY FS_Interval
<1>2. IsFiniteSet(S) /\ Cardinality(S) \in Nat /\ Cardinality(S) <= n
  BY <1>1, FS_Subset, FS_CardinalityType
<1>. DEFINE k == Cardinality(S)
<1>. HIDE DEF k
<1>3. k \in Nat /\ k <= n
  BY <1>2 DEF k
<1>4. S \subseteq 1..k
  <2>1. SUFFICES ASSUME NEW i \in S, i > k PROVE FALSE
    BY <1>3
  <2>2. i \in 1..n /\ 1..i \subseteq S
    BY <2>1
  <2>3. Cardinality(1..i) = i
    <3>1. 1 \in Int /\ i \in Int /\ 1 <= i
      BY <2>2
    <3>. QED
      BY <3>1, FS_Interval
  <2>4. Cardinality(1..i) <= k
    BY <1>2, <2>2, FS_Subset DEF k
  <2>. QED
    BY <1>3, <2>1, <2>2, <2>3, <2>4
<1>5. IsFiniteSet(1..k) /\ Cardinality(1..k) = k
  BY <1>3, FS_Interval
<1>6. S = 1..k
  BY <1>4, <1>5, FS_Subset DEF k
<1>. QED
  BY <1>3, <1>6 DEF k

\* What Agree gives about the members of a queue.
LEMMA MemberLemma ==
    ASSUME NEW nodes \in [Event -> Node \cup {NoNode}], NEW q, Agree(q, nodes)
    PROVE  /\ Len(q) \in Nat
           /\ \A i \in 1..Len(q) :
                 /\ q[i] \in Event /\ nodes[q[i]] \in Node
                 /\ nodes[q[i]].state = "queued" /\ nodes[q[i]].time \in Nat
           /\ \A i, j \in 1..Len(q) : q[i] = q[j] => i = j
<1>1. Len(q) \in Nat /\ DOMAIN q = 1..Len(q) /\ \A i \in 1..Len(q) : q[i] \in Event
  BY ElementOfSeq, LenProperties DEF Agree
<1>2. \A i \in 1..Len(q) : q[i] \in {e \in Event : nodes[e] # NoNode /\ nodes[e].state = "queued"}
  BY DEF Agree, Members
<1>3. \A i \in 1..Len(q) : nodes[q[i]] \in Node /\ nodes[q[i]].state = "queued"
  BY <1>1, <1>2
<1>4. \A n \in Node : n.time \in Nat
  BY DEF Node
<1>5. \A i, j \in 1..Len(q) : q[i] = q[j] => i = j
  BY <1>1 DEF Agree, IsInjective
<1>. QED
  BY <1>1, <1>3, <1>4, <1>5

\* The place tl_event_node_insert finds: behind those that are not later.
Earlier(q, m, e) == {i \in 1..Len(q) : m[q[i]].time <= m[e].time}

LEMMA PlaceLemma ==
    ASSUME NEW nodes \in [Event -> Node \cup {NoNode}], NEW q, Agree(q, nodes),
           NEW e \in Event, nodes[e] # NoNode => nodes[e].state # "queued",
           NEW n \in Node, n.state = "queued",
           NEW m, m[e] = n, \A f \in Event : f # e => m[f] = nodes[f]
    PROVE  /\ Cardinality(Earlier(q, m, e)) \in 0..Len(q)
           /\ Earlier(q, m, e) = 1..Cardinality(Earlier(q, m, e))
<1>. DEFINE earlier == Earlier(q, m, e)
<1>1. q \in Seq(Event)
  BY DEF Agree
<1>2. /\ Len(q) \in Nat
      /\ \A i \in 1..Len(q) : q[i] \in Event /\ nodes[q[i]] \in Node /\ nodes[q[i]].state = "queued"
      /\ \A i \in 1..Len(q) : nodes[q[i]].time \in Nat
      /\ \A i, j \in 1..Len(q) : q[i] = q[j] => i = j
  BY MemberLemma
<1>3. NoNode.state = "free" /\ n # NoNode
  BY DEF NoNode
<1>4. \A i \in 1..Len(q) : q[i] # e
  <2>1. SUFFICES ASSUME NEW i \in 1..Len(q), q[i] = e PROVE FALSE
    OBVIOUS
  <2>2. nodes[e].state = "queued"
    BY <1>2, <2>1
  <2>. QED
    BY <1>3, <2>2
<1>5. m[e] = n /\ \A f \in Event : f # e => m[f] = nodes[f]
  OBVIOUS
<1>6. \A i \in 1..Len(q) : m[q[i]] = nodes[q[i]]
  BY <1>2, <1>4, <1>5
<1>7. n.time \in Nat
  BY DEF Node
<1>8. earlier \in SUBSET (1..Len(q))
  BY DEF Earlier
<1>9. ASSUME NEW i \in earlier, NEW j \in 1..Len(q), j < i
      PROVE  j \in earlier
  <2>1. i \in 1..Len(q) /\ m[q[i]].time <= m[e].time
    BY DEF Earlier
  <2>2. nodes[q[j]].time <= nodes[q[i]].time
    BY <1>9, <2>1 DEF Agree
  <2>. QED
    BY <1>2, <1>5, <1>6, <1>7, <2>1, <2>2 DEF Earlier
<1>. HIDE DEF earlier
<1>10. Cardinality(earlier) \in 0..Len(q) /\ earlier = 1..Cardinality(earlier)
  BY <1>2, <1>8, <1>9, PrefixLemma
<1>. QED
  BY <1>10 DEF earlier

\* tl_event_node_insert puts the node in its place.
LEMMA InsertLemma ==
    ASSUME NEW nodes \in [Event -> Node \cup {NoNode}], NEW q, Agree(q, nodes),
           NEW e \in Event, nodes[e] # NoNode => nodes[e].state # "queued",
           NEW n \in Node, n.state = "queued"
    PROVE  Agree(Inserted(q, [nodes EXCEPT ![e] = n], e), [nodes EXCEPT ![e] = n])
<1>. DEFINE m == [nodes EXCEPT ![e] = n]
            earlier == Earlier(q, m, e)
            p == Cardinality(earlier) + 1
            r == InsertAt(q, p, e)
<1>1. q \in Seq(Event)
  BY DEF Agree
<1>2. /\ Len(q) \in Nat
      /\ \A i \in 1..Len(q) : q[i] \in Event /\ nodes[q[i]] \in Node /\ nodes[q[i]].state = "queued"
      /\ \A i \in 1..Len(q) : nodes[q[i]].time \in Nat
      /\ \A i, j \in 1..Len(q) : q[i] = q[j] => i = j
  BY MemberLemma
<1>3. NoNode.state = "free" /\ n # NoNode
  BY DEF NoNode
<1>4. \A i \in 1..Len(q) : q[i] # e
  <2>1. SUFFICES ASSUME NEW i \in 1..Len(q), q[i] = e PROVE FALSE
    OBVIOUS
  <2>2. nodes[e].state = "queued"
    BY <1>2, <2>1
  <2>. QED
    BY <1>3, <2>2
<1>5. m[e] = n /\ \A f \in Event : f # e => m[f] = nodes[f]
  OBVIOUS
<1>6. \A i \in 1..Len(q) : m[q[i]] = nodes[q[i]]
  BY <1>2, <1>4, <1>5
<1>7. n.time \in Nat
  BY DEF Node
<1>8. p \in 1..(Len(q) + 1) /\ earlier = 1..(p - 1)
  <2>. HIDE DEF m
  <2>1. Cardinality(earlier) \in 0..Len(q) /\ earlier = 1..Cardinality(earlier)
    BY <1>5, PlaceLemma
  <2>. HIDE DEF earlier
  <2>. QED
    BY <1>2, <2>1
<1>. HIDE DEF m, p
<1>9. \A i \in 1..Len(q) : i < p => nodes[q[i]].time <= n.time
  BY <1>2, <1>5, <1>6, <1>7, <1>8 DEF Earlier
<1>10. \A i \in 1..Len(q) : i >= p => n.time <= nodes[q[i]].time
  <2>1. TAKE i \in 1..Len(q)
  <2>2. HAVE i >= p
  <2>3. i \notin earlier
    BY <1>8, <2>2
  <2>. QED
    BY <1>2, <1>5, <1>6, <1>7, <2>3 DEF Earlier
<1>. HIDE DEF earlier
<1>11. /\ r \in Seq(Event)
       /\ Len(r) = Len(q) + 1
       /\ \A i \in 1..(Len(q) + 1) : r[i] = IF i < p THEN q[i] ELSE IF i = p THEN e ELSE q[i - 1]
  <2>1. q \in Seq(Event) /\ p \in 1..(Len(q) + 1)
    BY <1>1, <1>8
  <2>. HIDE DEF r, earlier
  <2>2. /\ InsertAt(q, p, e) \in Seq(Event)
        /\ Len(InsertAt(q, p, e)) = Len(q) + 1
        /\ \A i \in 1..(Len(q) + 1) :
              InsertAt(q, p, e)[i] = IF i < p THEN q[i] ELSE IF i = p THEN e ELSE q[i - 1]
    BY <2>1, InsertAtLemma
  <2>. QED
    BY <2>2 DEF r
<1>. HIDE DEF r
<1>. DEFINE old(i) == IF i < p THEN i ELSE i - 1
            Old == (1..(Len(q) + 1)) \ {p}
<1>12. \A i \in Old : old(i) \in 1..Len(q) /\ r[i] = q[old(i)]
  <2>1. TAKE i \in Old
  <2>2. CASE i < p
    BY <1>2, <1>8, <1>11, <2>2
  <2>3. CASE i > p
    <3>1. i - 1 \in 1..Len(q) /\ old(i) = i - 1
      BY <1>2, <1>8, <2>3
    <3>2. r[i] = q[i - 1]
      BY <1>2, <1>8, <1>11, <2>3
    <3>. QED
      BY <3>1, <3>2
  <2>. QED
    BY <1>2, <1>8, <2>2, <2>3
<1>13. \A i, j \in Old : (old(i) = old(j) => i = j) /\ (i < j => old(i) < old(j))
  BY <1>2, <1>8
<1>14. \A k \in 1..Len(q) : \E i \in Old : old(i) = k
  <2>1. TAKE k \in 1..Len(q)
  <2>2. CASE k < p
    BY <1>2, <1>8, <2>2
  <2>3. CASE k >= p
    <3>1. k + 1 \in Old /\ old(k + 1) = k
      BY <1>2, <1>8, <2>3
    <3>. QED
      BY <3>1
  <2>. QED
    BY <1>2, <1>8, <2>2, <2>3
<1>15. p \in 1..(Len(q) + 1) /\ r[p] = e /\ \A i \in 1..Len(r) : i = p \/ i \in Old
  BY <1>2, <1>8, <1>11
<1>. HIDE DEF old
<1>16. IsInjective(r)
  <2>1. SUFFICES ASSUME NEW i \in 1..(Len(q) + 1), NEW j \in 1..(Len(q) + 1), r[i] = r[j]
                 PROVE  i = j
    BY <1>11, LenProperties DEF IsInjective
  <2>2. CASE i = p \/ j = p
    BY <1>4, <1>12, <1>15, <2>1, <2>2
  <2>3. CASE i \in Old /\ j \in Old
    BY <1>2, <1>12, <1>13, <2>1, <2>3
  <2>. QED
    BY <2>2, <2>3
<1>17. Members(r) = {f \in Event : m[f] # NoNode /\ m[f].state = "queued"}
  <2>1. Members(r) = Members(q) \cup {e}
    <3>1. Members(r) \subseteq Members(q) \cup {e}
      BY <1>12, <1>15 DEF Members
    <3>2. e \in Members(r)
      BY <1>11, <1>15 DEF Members
    <3>3. Members(q) \subseteq Members(r)
      BY <1>11, <1>12, <1>14 DEF Members
    <3>. QED
      BY <3>1, <3>2, <3>3
  <2>2. Members(q) = {f \in Event : nodes[f] # NoNode /\ nodes[f].state = "queued"}
    BY DEF Agree
  <2>. QED
    BY <1>3, <1>5, <2>1, <2>2
<1>18. \A i, j \in 1..Len(r) : i < j => m[r[i]].time <= m[r[j]].time
  <2>1. SUFFICES ASSUME NEW i \in 1..(Len(q) + 1), NEW j \in 1..(Len(q) + 1), i < j
                 PROVE  m[r[i]].time <= m[r[j]].time
    BY <1>11
  <2>2. CASE i = p
    <3>1. j \in Old /\ old(j) >= p
      BY <1>2, <1>8, <2>1, <2>2 DEF old
    <3>2. n.time <= nodes[q[old(j)]].time
      BY <1>10, <1>12, <3>1
    <3>. QED
      BY <1>5, <1>6, <1>12, <1>15, <2>2, <3>1, <3>2
  <2>3. CASE j = p
    <3>1. i \in Old /\ old(i) < p
      BY <1>2, <1>8, <2>1, <2>3 DEF old
    <3>2. nodes[q[old(i)]].time <= n.time
      BY <1>9, <1>12, <3>1
    <3>. QED
      BY <1>5, <1>6, <1>12, <1>15, <2>3, <3>1, <3>2
  <2>4. CASE i \in Old /\ j \in Old
    <3>1. old(i) \in 1..Len(q) /\ old(j) \in 1..Len(q) /\ old(i) < old(j)
      BY <1>12, <1>13, <2>1, <2>4
    <3>2. nodes[q[old(i)]].time <= nodes[q[old(j)]].time
      BY <3>1 DEF Agree
    <3>. QED
      BY <1>6, <1>12, <2>4, <3>1, <3>2
  <2>. QED
    BY <2>2, <2>3, <2>4
<1>19. r = Inserted(q, m, e)
  BY DEF r, p, earlier, Earlier, Inserted
<1>. QED
  BY <1>11, <1>16, <1>17, <1>18, <1>19 DEF Agree, m

\* r is q without gone: its i-th member is the kept[i]-th of q.
Part(r, kept, q, gone) ==
    /\ r \in Seq(Event) /\ kept \in [1..Len(r) -> 1..Len(q)]
    /\ \A i, j \in 1..Len(r) : i < j => kept[i] < kept[j]
    /\ \A i \in 1..Len(q) : q[i] \notin gone <=> \E j \in 1..Len(r) : kept[j] = i
    /\ \A j \in 1..Len(r) : r[j] = q[kept[j]]

\* Of the nodes only those in gone have changed, and they are not queued now.
LeaveQueue(gone, nodes, m) ==
    /\ gone \subseteq Event
    /\ \A e \in Event : e \notin gone => m[e] = nodes[e]
    /\ \A e \in gone : m[e] = NoNode \/ m[e].state # "queued"

\* A part of a queue agrees with the nodes if what is missing has left it.
LEMMA KeepLemma ==
    ASSUME NEW nodes \in [Event -> Node \cup {NoNode}], NEW q, Agree(q, nodes),
           NEW m, NEW r, NEW gone, NEW kept,
           Part(r, kept, q, gone), LeaveQueue(gone, nodes, m)
    PROVE  Agree(r, m)
<1>. USE DEF Part, LeaveQueue
<1>1. /\ Len(q) \in Nat
      /\ \A i \in 1..Len(q) : q[i] \in Event
      /\ \A i, j \in 1..Len(q) : q[i] = q[j] => i = j
  BY MemberLemma
<1>2. Len(r) \in Nat /\ DOMAIN r = 1..Len(r)
  BY LenProperties
<1>3. \A j \in 1..Len(r) : kept[j] \in 1..Len(q) /\ q[kept[j]] \notin gone
  OBVIOUS
<1>4. \A j \in 1..Len(r) : m[r[j]] = nodes[q[kept[j]]]
  BY <1>1, <1>3
<1>5. IsInjective(r)
  <2>1. SUFFICES ASSUME NEW i \in 1..Len(r), NEW j \in 1..Len(r), r[i] = r[j], i < j
                 PROVE  FALSE
    BY <1>2 DEF IsInjective
  <2>2. kept[i] = kept[j]
    BY <1>1, <1>3, <2>1
  <2>3. kept[i] < kept[j]
    BY <2>1
  <2>. QED
    BY <1>1, <1>3, <2>2, <2>3
<1>6. Members(r) = {e \in Event : m[e] # NoNode /\ m[e].state = "queued"}
  <2>1. Members(q) = {e \in Event : nodes[e] # NoNode /\ nodes[e].state = "queued"}
    BY DEF Agree
  <2>2. Members(r) = {e \in Members(q) : e \notin gone}
    <3>1. Members(r) \subseteq {e \in Members(q) : e \notin gone}
      BY <1>3 DEF Members
    <3>2. ASSUME NEW i \in 1..Len(q), q[i] \notin gone PROVE q[i] \in Members(r)
      <4>1. PICK j \in 1..Len(r) : kept[j] = i
        BY <3>2
      <4>2. r[j] = q[i]
        BY <4>1
      <4>. QED
        BY <4>2 DEF Members
    <3>. QED
      BY <3>1, <3>2 DEF Members
  <2>. QED
    BY <2>1, <2>2
<1>7. \A i, j \in 1..Len(r) : i < j => m[r[i]].time <= m[r[j]].time
  <2>1. TAKE i, j \in 1..Len(r)
  <2>2. HAVE i < j
  <2>3. nodes[q[kept[i]]].time <= nodes[q[kept[j]]].time
    BY <1>3, <2>2 DEF Agree
  <2>. QED
    BY <1>4, <2>3
<1>. QED
  BY <1>5, <1>6, <1>7 DEF Agree

\* TAILQ_REMOVE of a node that leaves the queued state.
LEMMA RemoveLemma ==
    ASSUME NEW nodes \in [Event -> Node \cup {NoNode}], NEW q, Agree(q, nodes),
           NEW e \in Event, NEW n, n = NoNode \/ n.state # "queued"
    PROVE  Agree(Removed(q, e), [nodes EXCEPT ![e] = n])
<1>. DEFINE m == [nodes EXCEPT ![e] = n]
<1>1. q \in Seq(Event)
  BY DEF Agree
<1>2. /\ Len(q) \in Nat
      /\ \A i, j \in 1..Len(q) : q[i] = q[j] => i = j
  BY MemberLemma
<1>3. LeaveQueue({e}, nodes, m)
  BY DEF LeaveQueue
<1>. HIDE DEF m
<1>4. CASE e \notin Members(q)
  <2>. DEFINE kept == [i \in 1..Len(q) |-> i]
  <2>1. kept \in [1..Len(q) -> 1..Len(q)] /\ \A i \in 1..Len(q) : kept[i] = i
    OBVIOUS
  <2>2. \A i \in 1..Len(q) : q[i] \notin {e}
    BY <1>4 DEF Members
  <2>. HIDE DEF kept
  <2>3. Agree(q, m)
    <3>1. \A i, j \in 1..Len(q) : i < j => kept[i] < kept[j]
      BY <2>1
    <3>2. \A i \in 1..Len(q) : q[i] \notin {e} <=> \E j \in 1..Len(q) : kept[j] = i
      BY <2>1, <2>2
    <3>3. \A j \in 1..Len(q) : q[j] = q[kept[j]]
      BY <2>1
    <3>. QED
      <4>1. Part(q, kept, q, {e})
        BY <1>1, <2>1, <3>1, <3>2, <3>3 DEF Part
      <4>. QED
        BY <1>3, <4>1, KeepLemma
  <2>. QED
    BY <1>4, <2>3 DEF Removed, m
<1>5. CASE e \in Members(q)
  <2>. DEFINE p == Position(q, e)
              r == RemoveAt(q, p)
              kept == [i \in 1..(Len(q) - 1) |-> IF i < p THEN i ELSE i + 1]
  <2>1. p \in 1..Len(q) /\ q[p] = e
    BY <1>5 DEF Members, Position
  <2>. HIDE DEF p
  <2>2. /\ r \in Seq(Event) /\ Len(r) = Len(q) - 1
        /\ \A i \in 1..(Len(q) - 1) : r[i] = IF i < p THEN q[i] ELSE q[i + 1]
    BY <1>1, <2>1, RemoveAtLemma
  <2>. HIDE DEF r
  <2>3. /\ kept \in [1..Len(r) -> 1..Len(q)]
        /\ \A i \in 1..Len(r) : kept[i] = (IF i < p THEN i ELSE i + 1) /\ r[i] = q[kept[i]]
    BY <1>2, <2>1, <2>2
  <2>. HIDE DEF kept
  <2>4. \A i, j \in 1..Len(r) : i < j => kept[i] < kept[j]
    BY <1>2, <2>1, <2>2, <2>3
  <2>5. \A i \in 1..Len(q) : q[i] \notin {e} <=> \E j \in 1..Len(r) : kept[j] = i
    <3>1. TAKE i \in 1..Len(q)
    <3>2. q[i] \notin {e} <=> i # p
      BY <1>2, <2>1
    <3>3. ASSUME i # p PROVE \E j \in 1..Len(r) : kept[j] = i
      <4>1. CASE i < p
        BY <1>2, <2>1, <2>2, <2>3, <4>1
      <4>2. CASE i > p
        <5>1. i - 1 \in 1..Len(r) /\ kept[i - 1] = i
          BY <1>2, <2>1, <2>2, <2>3, <4>2
        <5>. QED
          BY <5>1
      <4>. QED
        BY <1>2, <2>1, <3>3, <4>1, <4>2
    <3>4. \A j \in 1..Len(r) : kept[j] # p
      BY <1>2, <2>1, <2>2, <2>3
    <3>. QED
      BY <3>2, <3>3, <3>4
  <2>6. Agree(r, m)
    <3>1. Part(r, kept, q, {e})
      BY <2>2, <2>3, <2>4, <2>5 DEF Part
    <3>. QED
      BY <1>3, <3>1, KeepLemma
  <2>. QED
    BY <1>5, <2>6 DEF Removed, r, p, m
<1>. QED
  BY <1>4, <1>5

\* Taking the first node.
LEMMA TakeLemma ==
    ASSUME NEW nodes \in [Event -> Node \cup {NoNode}], NEW q, Agree(q, nodes), q # <<>>,
           NEW n, n = NoNode \/ n.state # "queued"
    PROVE  Agree(Tail(q), [nodes EXCEPT ![q[1]] = n])
<1>. DEFINE m == [nodes EXCEPT ![q[1]] = n]
            r == Tail(q)
            kept == [i \in 1..Len(r) |-> i + 1]
<1>1. q \in Seq(Event) /\ Len(q) \in Nat \ {0}
  BY EmptySeq DEF Agree
<1>2. /\ \A i \in 1..Len(q) : q[i] \in Event
      /\ \A i, j \in 1..Len(q) : q[i] = q[j] => i = j
  BY MemberLemma
<1>3. LeaveQueue({q[1]}, nodes, m)
  BY <1>1, <1>2 DEF LeaveQueue
<1>. HIDE DEF m
<1>4. r \in Seq(Event) /\ Len(r) = Len(q) - 1 /\ \A i \in 1..Len(r) : r[i] = q[i + 1]
  BY <1>1, HeadTailProperties
<1>. HIDE DEF r
<1>5. kept \in [1..Len(r) -> 1..Len(q)] /\ \A i \in 1..Len(r) : kept[i] = i + 1 /\ r[i] = q[kept[i]]
  BY <1>1, <1>4
<1>. HIDE DEF kept
<1>6. \A i, j \in 1..Len(r) : i < j => kept[i] < kept[j]
  BY <1>1, <1>4, <1>5
<1>7. \A i \in 1..Len(q) : q[i] \notin {q[1]} <=> \E j \in 1..Len(r) : kept[j] = i
  <2>1. TAKE i \in 1..Len(q)
  <2>2. q[i] \notin {q[1]} <=> i # 1
    BY <1>1, <1>2
  <2>3. ASSUME i # 1 PROVE \E j \in 1..Len(r) : kept[j] = i
    <3>1. i - 1 \in 1..Len(r) /\ kept[i - 1] = i
      BY <1>1, <1>4, <1>5, <2>3
    <3>. QED
      BY <3>1
  <2>4. \A j \in 1..Len(r) : kept[j] # 1
    BY <1>1, <1>4, <1>5
  <2>. QED
    BY <2>2, <2>3, <2>4
<1>8. Agree(r, m)
  <2>1. Part(r, kept, q, {q[1]})
    BY <1>4, <1>5, <1>6, <1>7 DEF Part
  <2>. QED
    BY <1>3, <2>1, KeepLemma
<1>. QED
  BY <1>8 DEF r, m

\* Clearing the building queue touches no queued node.
LEMMA ClearedLemma ==
    ASSUME NEW nodes \in [Event -> Node \cup {NoNode}]
    PROVE  /\ Cleared(nodes) \in [Event -> Node \cup {NoNode}]
           /\ \A q : Agree(q, nodes) => Agree(q, Cleared(nodes))
           /\ \A e \in Event : Cleared(nodes)[e] # NoNode => Cleared(nodes)[e] = nodes[e]
           /\ \A e \in Event : nodes[e] # NoNode /\ nodes[e].state # "building" => Cleared(nodes)[e] = nodes[e]
<1>1. /\ Cleared(nodes) \in [Event -> Node \cup {NoNode}]
      /\ \A e \in Event : Cleared(nodes)[e] # NoNode => Cleared(nodes)[e] = nodes[e]
      /\ \A e \in Event : nodes[e] # NoNode /\ nodes[e].state # "building" => Cleared(nodes)[e] = nodes[e]
  BY DEF Cleared
<1>2. ASSUME NEW q, Agree(q, nodes) PROVE Agree(q, Cleared(nodes))
  <2>1. \A i \in 1..Len(q) : q[i] \in Event /\ nodes[q[i]].state = "queued" /\ nodes[q[i]] \in Node
    BY <1>2, MemberLemma
  <2>2. \A n \in Node : n # NoNode
    BY DEF Node, NoNode
  <2>3. \A i \in 1..Len(q) : Cleared(nodes)[q[i]] = nodes[q[i]]
    BY <1>1, <2>1, <2>2
  <2>4. \A e \in Event : (Cleared(nodes)[e] # NoNode /\ Cleared(nodes)[e].state = "queued")
                            = (nodes[e] # NoNode /\ nodes[e].state = "queued")
    BY DEF Cleared
  <2>. QED
    BY <1>2, <2>3, <2>4 DEF Agree
<1>. QED
  BY <1>1, <1>2

-----------------------------------------------------------------------------
(* The nodes and their queue: typed, in agreement, owned by timelines. *)

Owned ==
    /\ \A e \in Event : node[e] # NoNode =>
          /\ node[e].tl \in tls
          /\ (running = e) = (node[e].state \in {"running", "deleting"})
    /\ running \in Event => node[running] # NoNode

NodesOK ==
    /\ node \in [Event -> Node \cup {NoNode}]
    /\ Agree(queue, node)
    /\ Owned

LEMMA NodesLemma == TypeOK /\ EventsLinked => NodesOK
  BY DEF TypeOK, EventsLinked, NodesOK, Agree, Owned

\* Changing a node in the ways the code does keeps its type.
LEMMA NodeTyping ==
    ASSUME NEW n \in Node
    PROVE  /\ n # NoNode /\ n.tl \in Tl
           /\ Fires(n) \in Node /\ Fires(n).state = "running" /\ Fires(n).tl = n.tl
           /\ Again(n) \in Node /\ Again(n).state = "queued" /\ Again(n).tl = n.tl
<1>1. MaxSpan \in Nat /\ MaxRepeat \in Nat
  BY BoundAssumption
<1>2. NextTime(n) \in Nat
  BY <1>1 DEF Node, NextTime
<1>3. Rest(n) \in Repeat \cup {0}
  BY <1>1 DEF Node, Rest, Repeat, Forever
<1>4. n # NoNode /\ n.tl \in Tl
  BY DEF Node, NoNode
<1>5. Fires(n) \in Node /\ Fires(n).state = "running" /\ Fires(n).tl = n.tl
  <2>. DEFINE k == n.fired + 1
  <2>1. k \in Nat
    BY DEF Node
  <2>2. Fires(n) = [n EXCEPT !.state = "running", !.fired = k]
    BY DEF Fires
  <2>. HIDE DEF k
  <2>. QED
    BY <2>1, <2>2 DEF Node
<1>6. Again(n) \in Node /\ Again(n).state = "queued" /\ Again(n).tl = n.tl
  BY <1>2, <1>3 DEF Node, Again
<1>. QED
  BY <1>4, <1>5, <1>6

\* After its dispatcher an event is gone or queued again, the others are as before.
LEMMA EventDoneLemma ==
    ASSUME NEW e \in Event, NEW nodes \in [Event -> Node \cup {NoNode}],
           NEW q, Agree(q, nodes),
           nodes[e] # NoNode, nodes[e].state \in {"running", "deleting"},
           EventDone(e, nodes, q)
    PROVE  /\ node' \in [Event -> Node \cup {NoNode}]
           /\ Agree(queue', node')
           /\ \A f \in Event : node'[f] # NoNode =>
                 /\ nodes[f] # NoNode /\ node'[f].tl = nodes[f].tl
                 /\ f # e => node'[f] = nodes[f]
                 /\ f = e => node'[f].state = "queued"
<1>1. nodes[e] \in Node /\ nodes[e].state # "queued"
  OBVIOUS
<1>2. CASE nodes[e].state = "deleting" \/ Rest(nodes[e]) = 0
  <2>. DEFINE m == [nodes EXCEPT ![e] = NoNode]
  <2>1. m \in [Event -> Node \cup {NoNode}]
    OBVIOUS
  <2>2. e \notin Members(q)
    BY <1>1 DEF Agree
  <2>3. Agree(q, m)
    BY <2>2, RemoveLemma DEF Removed
  <2>4. node' = Cleared(m) /\ queue' = q
    BY <1>2 DEF EventDone
  <2>5. m[e] = NoNode /\ \A f \in Event : f # e => m[f] = nodes[f]
    OBVIOUS
  <2>. HIDE DEF m
  <2>6. /\ node' \in [Event -> Node \cup {NoNode}] /\ Agree(queue', node')
        /\ \A f \in Event : node'[f] # NoNode => node'[f] = m[f]
    BY <2>1, <2>3, <2>4, ClearedLemma
  <2>. QED
    BY <2>5, <2>6
<1>3. CASE ~(nodes[e].state = "deleting" \/ Rest(nodes[e]) = 0)
  <2>. DEFINE n == Again(nodes[e])
              m == [nodes EXCEPT ![e] = n]
  <2>1. n \in Node
    BY <1>1, NodeTyping
  <2>2. n.state = "queued" /\ n.tl = nodes[e].tl
    BY <1>1, NodeTyping
  <2>3. node' = Cleared(m) /\ queue' = Inserted(q, m, e)
    BY <1>3 DEF EventDone
  <2>. HIDE DEF n
  <2>4. Agree(Inserted(q, m, e), m)
    BY <1>1, <2>1, <2>2, InsertLemma
  <2>5. /\ m \in [Event -> Node \cup {NoNode}] /\ m[e] = n
        /\ \A f \in Event : f # e => m[f] = nodes[f]
    BY <2>1
  <2>. HIDE DEF m
  <2>6. /\ node' \in [Event -> Node \cup {NoNode}] /\ Agree(queue', node')
        /\ \A f \in Event : node'[f] # NoNode => node'[f] = m[f]
    BY <2>3, <2>4, <2>5, ClearedLemma
  <2>. QED
    BY <1>1, <2>2, <2>5, <2>6
<1>. QED
  BY <1>2, <1>3

\* The first event of the queue, as it is taken.
LEMMA TakenLemma ==
    ASSUME NodesOK, queue # <<>>
    PROVE  LET e == queue[1] IN
           /\ e \in Event /\ node[e] \in Node /\ node[e].state = "queued"
           /\ Taken(e) \in [Event -> Node \cup {NoNode}]
           /\ Taken(e)[e] # NoNode
           /\ Taken(e)[e].state = "running" /\ Taken(e)[e].tl = node[e].tl
           /\ \A f \in Event : f # e => Taken(e)[f] = node[f]
           /\ Agree(Tail(queue), Taken(e))
<1>. DEFINE e == queue[1]
            n == Fires(node[e])
<1>1. Len(queue) \in Nat \ {0}
  BY EmptySeq DEF NodesOK, Agree
<1>2. e \in Event /\ node[e] \in Node /\ node[e].state = "queued"
  BY <1>1, MemberLemma DEF NodesOK
<1>3. n \in Node
  BY <1>2, NodeTyping
<1>4. n.state = "running" /\ n.tl = node[e].tl
  BY <1>2, NodeTyping
<1>. HIDE DEF n
<1>5. Agree(Tail(queue), [node EXCEPT ![queue[1]] = n])
  BY <1>4, TakeLemma DEF NodesOK
<1>6. Taken(e) = [node EXCEPT ![e] = n]
  BY DEF Taken, n
<1>7. n # NoNode
  BY <1>3, NodeTyping
<1>. QED
  BY <1>2, <1>3, <1>4, <1>5, <1>6, <1>7 DEF NodesOK

LEMMA ClearStep ==
    ASSUME NodesOK, node' = Cleared(node), queue' = queue, tls' = tls,
           running \notin Event, running' \notin Event
    PROVE  NodesOK'
<1>1. /\ node' \in [Event -> Node \cup {NoNode}]
      /\ Agree(queue', node')
      /\ \A e \in Event : node'[e] # NoNode => node'[e] = node[e]
  BY ClearedLemma DEF NodesOK
<1>2. Owned'
  BY <1>1 DEF NodesOK, Owned
<1>. QED
  BY <1>1, <1>2 DEF NodesOK

LEMMA CreateEventStep ==
    ASSUME TypeOK, NodesOK, NEW e \in Event, NEW t \in Tl, CreateEvent(e, t)
    PROVE  NodesOK'
<1>. DEFINE n == [state |-> "building", tl |-> t, time |-> 0, span |-> 0, repeat |-> 0,
                  first |-> 0, asked |-> 1, fired |-> 0]
<1>1. /\ node' = [node EXCEPT ![e] = n] /\ t \in tls /\ node[e] = NoNode
      /\ queue' = queue /\ tls' = tls /\ running' = running
  BY DEF CreateEvent, tickVars
<1>2. n.state = "building" /\ n.tl = t /\ n # NoNode
  BY DEF NoNode
<1>3. n \in Node
  BY BoundAssumption DEF Node, Repeat
<1>. HIDE DEF n
<1>4. running # e
  BY <1>1 DEF NodesOK, Owned
<1>5. node' \in [Event -> Node \cup {NoNode}]
  BY <1>1, <1>3 DEF NodesOK
<1>6. node'[e] = n /\ \A f \in Event : f # e => node'[f] = node[f]
  BY <1>1 DEF NodesOK
<1>7. Agree(queue', node')
  <2>1. e \notin Members(queue)
    BY <1>1 DEF NodesOK, Agree
  <2>2. Agree(Removed(queue, e), [node EXCEPT ![e] = n])
    BY <1>2, RemoveLemma DEF NodesOK
  <2>. QED
    BY <1>1, <2>1, <2>2 DEF Removed
<1>8. Owned'
  BY <1>1, <1>2, <1>4, <1>6 DEF NodesOK, Owned
<1>. QED
  BY <1>5, <1>7, <1>8 DEF NodesOK

LEMMA SendEventStep ==
    ASSUME TypeOK, NodesOK, NEW e \in Event, NEW delay \in 0..MaxSpan, NEW span \in 0..MaxSpan,
           NEW repeat \in Repeat, SendEvent(e, delay, span, repeat)
    PROVE  NodesOK'
<1>. DEFINE d == now + delay
            n == [node[e] EXCEPT !.state = "queued", !.time = d, !.span = span, !.repeat = repeat,
                                 !.first = d, !.asked = repeat]
<1>1. /\ node' = [node EXCEPT ![e] = n] /\ node[e] # NoNode /\ node[e].state = "building"
      /\ queue' = Inserted(queue, node', e) /\ tls' = tls /\ running' = running
  BY DEF SendEvent, tickVars
<1>2. d \in Nat
  BY BoundAssumption DEF TypeOK
<1>3. node[e] \in Node
  BY <1>1 DEF NodesOK
<1>. HIDE DEF d
<1>4. n \in Node /\ n.state = "queued" /\ n.tl = node[e].tl
  BY <1>2, <1>3 DEF Node
<1>. HIDE DEF n
<1>5. node' \in [Event -> Node \cup {NoNode}] /\ n # NoNode
  BY <1>1, <1>4, NodeTyping DEF NodesOK
<1>6. node'[e] = n /\ \A f \in Event : f # e => node'[f] = node[f]
  BY <1>1 DEF NodesOK
<1>7. Agree(queue', node')
  BY <1>1, <1>4, InsertLemma DEF NodesOK
<1>8. Owned'
  BY <1>1, <1>4, <1>6 DEF NodesOK, Owned
<1>. QED
  BY <1>5, <1>7, <1>8 DEF NodesOK

LEMMA FreeEventStep ==
    ASSUME TypeOK, NodesOK, NEW e \in Event, FreeEvent(e)
    PROVE  NodesOK'
<1>. DEFINE n == IF node[e].state \in {"running", "deleting"}
                 THEN [node[e] EXCEPT !.state = "deleting"] ELSE NoNode
<1>1. /\ node' = [node EXCEPT ![e] = n] /\ node[e] # NoNode
      /\ queue' = Removed(queue, e) /\ tls' = tls /\ running' = running
  BY DEF FreeEvent, tickVars
<1>2. node[e] \in Node
  BY <1>1 DEF NodesOK
<1>3. n = NoNode \/ n.state # "queued"
  BY <1>2 DEF Node
<1>4. \/ n = NoNode /\ node[e].state \notin {"running", "deleting"}
      \/ n \in Node /\ n.state = "deleting" /\ n.tl = node[e].tl /\ node[e].state \in {"running", "deleting"}
  BY <1>2 DEF Node
<1>. HIDE DEF n
<1>5. node' \in [Event -> Node \cup {NoNode}]
  BY <1>1, <1>4 DEF NodesOK
<1>6. node'[e] = n /\ \A f \in Event : f # e => node'[f] = node[f]
  BY <1>1 DEF NodesOK
<1>7. Agree(queue', node')
  BY <1>1, <1>3, RemoveLemma DEF NodesOK
<1>8. Owned'
  <2>1. CASE n = NoNode /\ node[e].state \notin {"running", "deleting"}
    <3>1. running # e
      BY <1>1, <2>1 DEF NodesOK, Owned
    <3>. QED
      BY <1>1, <1>6, <2>1, <3>1 DEF NodesOK, Owned
  <2>2. CASE n \in Node /\ n.state = "deleting" /\ n.tl = node[e].tl /\ node[e].state \in {"running", "deleting"}
    <3>1. n # NoNode /\ running = e
      BY <1>1, <2>2, NodeTyping DEF NodesOK, Owned
    <3>. QED
      BY <1>1, <1>6, <2>2, <3>1 DEF NodesOK, Owned
  <2>. QED
    BY <1>4, <2>1, <2>2
<1>. QED
  BY <1>5, <1>7, <1>8 DEF NodesOK

\* tl_free leaves a part of the queue.
LEMMA UnlinkLemma ==
    ASSUME Agree(queue, node), node \in [Event -> Node \cup {NoNode}], NEW gone, Unlink(gone)
    PROVE  \E kept : Part(queue', kept, queue, gone)
<1>1. Len(queue) \in Nat /\ \A i \in 1..Len(queue) : queue[i] \in Event
  BY MemberLemma
<1>2. PICK n \in 0..Len(queue) : \E kept \in [1..n -> 1..Len(queue)] :
        /\ \A i, j \in 1..n : i < j => kept[i] < kept[j]
        /\ \A i \in 1..Len(queue) : queue[i] \notin gone <=> \E j \in 1..n : kept[j] = i
        /\ queue' = [i \in 1..n |-> queue[kept[i]]]
  BY DEF Unlink
<1>3. PICK kept \in [1..n -> 1..Len(queue)] :
        /\ \A i, j \in 1..n : i < j => kept[i] < kept[j]
        /\ \A i \in 1..Len(queue) : queue[i] \notin gone <=> \E j \in 1..n : kept[j] = i
        /\ queue' = [i \in 1..n |-> queue[kept[i]]]
  BY <1>2
<1>4. n \in Nat
  BY <1>1
<1>5. queue' \in [1..n -> Event]
  BY <1>1, <1>3
<1>6. queue' \in Seq(Event) /\ Len(queue') = n
  BY <1>4, <1>5, SeqDef
<1>7. Part(queue', kept, queue, gone)
  BY <1>3, <1>6 DEF Part
<1>. QED
  BY <1>7

LEMMA FreeTlStep ==
    ASSUME TypeOK, NodesOK, NEW t \in Tl, FreeTl(t)
    PROVE  NodesOK'
<1>1. /\ tls' = tls \ {t} /\ running' = running
      /\ node' = [e \in Event |-> IF e \in EventsOf(t) THEN NoNode ELSE node[e]]
      /\ \A e \in EventsOf(t) : node[e].state \in {"building", "queued"}
      /\ Unlink(EventsOf(t))
  BY DEF FreeTl, tickVars
<1>2. node' \in [Event -> Node \cup {NoNode}]
  BY <1>1 DEF NodesOK
<1>3. LeaveQueue(EventsOf(t), node, node')
  BY <1>1 DEF LeaveQueue, EventsOf
<1>10. PICK kept : Part(queue', kept, queue, EventsOf(t))
  BY <1>1, UnlinkLemma DEF NodesOK
<1>11. Agree(queue', node')
  BY <1>3, <1>10, KeepLemma DEF NodesOK
<1>12. Owned'
  <2>1. \A e \in Event : node'[e] # NoNode => node'[e] = node[e] /\ node[e].tl # t
    BY <1>1 DEF EventsOf
  <2>2. ASSUME running \in Event PROVE node'[running] = node[running]
    BY <1>1, <2>2 DEF NodesOK, Owned
  <2>. QED
    BY <1>1, <2>1, <2>2 DEF NodesOK, Owned
<1>. QED
  BY <1>2, <1>11, <1>12 DEF NodesOK

LEMMA DispatchEventStep ==
    ASSUME TypeOK, NodesOK, DispatchEvent
    PROVE  NodesOK'
<1>. DEFINE e == queue[1]
<1>1. /\ queue # <<>> /\ running = None
      /\ node' = Taken(e) /\ queue' = Tail(queue) /\ running' = e /\ tls' = tls
  BY DEF DispatchEvent, EventReady, Dispatching
<1>2. /\ e \in Event /\ node[e] \in Node /\ Taken(e) \in [Event -> Node \cup {NoNode}]
      /\ Taken(e)[e] # NoNode /\ Taken(e)[e].state = "running" /\ Taken(e)[e].tl = node[e].tl
      /\ \A f \in Event : f # e => Taken(e)[f] = node[f]
      /\ Agree(Tail(queue), Taken(e))
  BY <1>1, TakenLemma
<1>. HIDE DEF e
<1>3. node[e] # NoNode
  BY <1>2, NodeTyping
<1>4. Owned'
  <2>1. ASSUME NEW f \in Event, node'[f] # NoNode
        PROVE  node'[f].tl \in tls' /\ (running' = f) = (node'[f].state \in {"running", "deleting"})
    <3>1. CASE f = e
      BY <1>1, <1>2, <1>3, <3>1 DEF NodesOK, Owned
    <3>2. CASE f # e
      <4>1. node'[f] = node[f] /\ node[f] # NoNode
        BY <1>1, <1>2, <2>1, <3>2
      <4>2. running # f /\ running' # f
        BY <1>1, <3>2, SlotAssumption
      <4>. QED
        BY <1>1, <4>1, <4>2 DEF NodesOK, Owned
    <3>. QED
      BY <3>1, <3>2
  <2>. QED
    BY <1>1, <1>2, <2>1 DEF Owned
<1>. QED
  BY <1>1, <1>2, <1>4 DEF NodesOK

LEMMA EventReturnsStep ==
    ASSUME TypeOK, NodesOK, EventReturns
    PROVE  NodesOK'
<1>1. running \in Event /\ EventDone(running, node, queue) /\ running' = None /\ tls' = tls
  BY DEF EventReturns
<1>2. node[running] # NoNode /\ node[running].state \in {"running", "deleting"}
  BY <1>1 DEF NodesOK, Owned
<1>3. /\ node' \in [Event -> Node \cup {NoNode}]
      /\ Agree(queue', node')
      /\ \A f \in Event : node'[f] # NoNode =>
            /\ node[f] # NoNode /\ node'[f].tl = node[f].tl
            /\ f # running => node'[f] = node[f]
            /\ f = running => node'[f].state = "queued"
  BY <1>1, <1>2, EventDoneLemma DEF NodesOK
<1>4. Owned'
  <2>1. ASSUME NEW f \in Event, node'[f] # NoNode
        PROVE  node'[f].tl \in tls' /\ node'[f].state \notin {"running", "deleting"}
    BY <1>1, <1>3, <2>1 DEF NodesOK, Owned
  <2>2. None \notin Event
    BY SlotAssumption
  <2>3. \A f \in Event : running' # f
    BY <1>1, <2>2
  <2>. QED
    BY <1>1, <2>1, <2>2, <2>3 DEF Owned
<1>. QED
  BY <1>3, <1>4 DEF NodesOK

LEMMA DropEventStep ==
    ASSUME TypeOK, NodesOK, DropEvent
    PROVE  NodesOK'
<1>. DEFINE e == queue[1]
            m == Taken(e)
<1>1. /\ queue # <<>> /\ running = None
      /\ EventDone(e, m, Tail(queue)) /\ running' = running /\ tls' = tls
  BY DEF DropEvent, EventReady, Dispatching
<1>2. /\ e \in Event /\ node[e] \in Node /\ m \in [Event -> Node \cup {NoNode}]
      /\ m[e] # NoNode /\ m[e].state = "running" /\ m[e].tl = node[e].tl
      /\ \A f \in Event : f # e => m[f] = node[f]
      /\ Agree(Tail(queue), m)
  BY <1>1, TakenLemma
<1>. HIDE DEF e, m
<1>3. /\ node' \in [Event -> Node \cup {NoNode}]
      /\ Agree(queue', node')
      /\ \A f \in Event : node'[f] # NoNode =>
            /\ m[f] # NoNode /\ node'[f].tl = m[f].tl
            /\ f # e => node'[f] = m[f]
            /\ f = e => node'[f].state = "queued"
  BY <1>1, <1>2, EventDoneLemma
<1>4. node[e] # NoNode /\ None \notin Event
  BY <1>2, NodeTyping, SlotAssumption
<1>5. Owned'
  <2>1. ASSUME NEW f \in Event, node'[f] # NoNode
        PROVE  node'[f].tl \in tls' /\ node'[f].state \notin {"running", "deleting"}
    <3>1. CASE f = e
      BY <1>1, <1>2, <1>3, <1>4, <2>1, <3>1 DEF NodesOK, Owned
    <3>2. CASE f # e
      BY <1>1, <1>2, <1>3, <1>4, <2>1, <3>2 DEF NodesOK, Owned
    <3>. QED
      BY <3>1, <3>2
  <2>2. \A f \in Event : running' # f
    BY <1>1, <1>4
  <2>. QED
    BY <1>1, <1>4, <2>1, <2>2 DEF Owned
<1>. QED
  BY <1>3, <1>5 DEF NodesOK

\* Every step keeps the nodes and their queue in order.
LEMMA NodesStep ==
    ASSUME TypeOK, NodesOK, [Next]_vars
    PROVE  NodesOK'
<1>. USE DEF ringVars, eventVars, timeVars, tickVars
<1>1. ASSUME node' = node, queue' = queue, running' = running, tls \subseteq tls'
      PROVE  NodesOK'
  BY <1>1 DEF NodesOK, Owned
<1>2. None \notin Event /\ "action" \notin Event
  BY SlotAssumption
<1>3. ASSUME NEW t \in Tl, CreateTl(t) \/ AddAction(t) PROVE NodesOK'
  BY <1>1, <1>3 DEF CreateTl, AddAction
<1>4. ASSUME NEW t \in 0..MaxTime, Pause(t) \/ Resume(t) PROVE NodesOK'
  BY <1>1, <1>4 DEF Pause, Resume
<1>5. ASSUME NEW t \in 0..MaxTime, NEW count \in 1..MaxCount, Tick(t, count) PROVE NodesOK'
  BY <1>1, <1>5 DEF Tick
<1>6. CASE EndWrapped \/ EndActions
  BY <1>1, <1>6 DEF EndWrapped, EndActions
<1>7. CASE UNCHANGED vars
  BY <1>1, <1>7 DEF vars
<1>8. CASE DispatchAction
  <2>1. running = None /\ running' = "action" /\ node' = node /\ queue' = queue /\ tls' = tls
    BY <1>8 DEF DispatchAction, ActionReady, Dispatching
  <2>2. \A e \in Event : running # e /\ running' # e
    BY <1>2, <2>1
  <2>. QED
    BY <2>1, <2>2 DEF NodesOK, Owned
<1>9. CASE ActionReturns
  BY <1>2, <1>9, ClearStep DEF ActionReturns, ActionDone
<1>10. CASE DropAction
  BY <1>2, <1>10, ClearStep DEF DropAction, ActionDone, ActionReady, Dispatching
<1>11. CASE EndRound
  <2>1. running = None /\ running' = running /\ queue' = queue /\ tls' = tls
    BY <1>11 DEF EndRound, Dispatching
  <2>2. node' = node \/ node' = Cleared(node)
    BY <1>11 DEF EndRound
  <2>. QED
    BY <1>1, <1>2, <2>1, <2>2, ClearStep
<1>12. CASE Call
  BY <1>3, <1>4, <1>12, FreeTlStep, CreateEventStep, SendEventStep, FreeEventStep DEF Call
<1>13. CASE TickStep
  BY <1>6, <1>8, <1>9, <1>10, <1>11, <1>13, DispatchEventStep, EventReturnsStep, DropEventStep
  DEF TickStep
<1>. QED
  BY <1>5, <1>7, <1>12, <1>13 DEF Next

-----------------------------------------------------------------------------
(* The ring of actions. *)

RingTyped == ring \in [Slot -> Tl \cup {None}] /\ begin \in Slot /\ end \in Slot

LEMMA RingLemma ==
    ASSUME RingTyped
    PROVE  /\ RingCount \in 0..(ActionMax - 1)
           /\ RingCount = 0 <=> begin = end
           /\ RingAt(0) = begin /\ RingAt(RingCount) = end
           /\ \A i \in 0..(ActionMax - 1) :
                 /\ RingAt(i) \in Slot
                 /\ i # 0 => RingAt(i) # begin
                 /\ i < RingCount => RingAt(i) # end
  BY RingAssumption DEF RingTyped, RingCount, RingAt, Slot

\* An action is added behind those in the ring.
LEMMA AddLemma ==
    ASSUME RingTyped, NEW t \in Tl, AddAction(t)
    PROVE  /\ RingTyped'
           /\ RingCount < ActionMax - 1 /\ RingCount' = RingCount + 1
           /\ \A i \in 0..(RingCount - 1) : ring'[RingAt(i)'] = ring[RingAt(i)]
           /\ \A i \in Nat : i = RingCount => ring'[RingAt(i)'] = t
           /\ begin' = begin /\ begin' # end' /\ (begin > end => begin > end')
<1>1. /\ After(end) # begin /\ ring' = [ring EXCEPT ![end] = t]
      /\ end' = After(end) /\ begin' = begin
  BY DEF AddAction
<1>2. ActionMax \in Nat /\ ActionMax > 1
  BY RingAssumption
<1>3. end \in Slot /\ begin \in Slot /\ end' \in Slot
  BY <1>1, <1>2 DEF RingTyped, After, Slot
<1>4. RingTyped'
  BY <1>1, <1>3 DEF RingTyped, Slot
<1>5. RingCount < ActionMax - 1 /\ RingCount' = RingCount + 1
  BY <1>1, <1>2, <1>3 DEF RingCount, After, Slot
<1>6. \A i \in Nat : RingAt(i)' = RingAt(i)
  BY <1>1 DEF RingAt
<1>7. /\ RingCount \in 0..(ActionMax - 1) /\ RingAt(RingCount) = end
      /\ \A i \in 0..(RingCount - 1) : RingAt(i) \in Slot /\ RingAt(i) # end
  BY <1>2, RingLemma
<1>8. ring' \in [Slot -> Tl \cup {None}] /\ ring'[end] = t /\ \A s \in Slot : s # end => ring'[s] = ring[s]
  BY <1>1, <1>3, <1>4 DEF RingTyped
<1>9. begin > end => begin > end'
  BY <1>1, <1>2, <1>3 DEF After, Slot
<1>10. \A i \in 0..(RingCount - 1) : ring'[RingAt(i)'] = ring[RingAt(i)]
  BY <1>6, <1>7, <1>8
<1>11. \A i \in Nat : i = RingCount => ring'[RingAt(i)'] = t
  BY <1>6, <1>7, <1>8
<1>. QED
  BY <1>1, <1>4, <1>5, <1>9, <1>10, <1>11

\* The oldest action is taken out.
LEMMA DoneLemma ==
    ASSUME RingTyped, begin # end, at \in {"wrapped", "plain"},
           at = "plain" => begin < ActionMax - 1, ActionDone
    PROVE  /\ RingTyped'
           /\ RingCount > 0 /\ RingCount' = RingCount - 1
           /\ \A i \in 0..(RingCount - 2) : ring'[RingAt(i)'] = ring[RingAt(i + 1)]
           /\ begin' = After(begin) /\ end' = end
<1>1. ring' = [ring EXCEPT ![begin] = None] /\ begin' = NextBegin /\ end' = end
  BY DEF ActionDone
<1>2. ActionMax \in Nat /\ ActionMax > 1
  BY RingAssumption
<1>3. end \in Slot /\ begin \in Slot
  BY DEF RingTyped
<1>4. begin' = After(begin) /\ begin' \in Slot
  BY <1>1, <1>2, <1>3 DEF NextBegin, After, Slot
<1>5. RingTyped'
  BY <1>1, <1>3, <1>4 DEF RingTyped, Slot
<1>6. RingCount > 0 /\ RingCount' = RingCount - 1
  BY <1>1, <1>2, <1>3, <1>4 DEF RingCount, After, Slot
<1>7. \A i \in 0..(RingCount - 2) : RingAt(i)' = RingAt(i + 1)
  BY <1>2, <1>3, <1>4, <1>6 DEF RingAt, RingCount, After, Slot
<1>8. \A i \in 0..(RingCount - 2) : RingAt(i + 1) \in Slot /\ RingAt(i + 1) # begin
  <2>1. TAKE i \in 0..(RingCount - 2)
  <2>2. i + 1 \in 0..(ActionMax - 1) /\ i + 1 # 0
    BY <1>2, RingLemma
  <2>. QED
    BY <2>2, RingLemma
<1>9. \A s \in Slot : s # begin => ring'[s] = ring[s]
  BY <1>1 DEF RingTyped
<1>. QED
  BY <1>1, <1>4, <1>5, <1>6, <1>7, <1>8, <1>9

\* A ready action is in the ring, and can be taken out of it.
LEMMA ReadyLemma ==
    ASSUME RingTyped, Control, ActionReady
    PROVE  /\ at \in {"wrapped", "plain"} /\ begin # end /\ left > 0 /\ running = None
           /\ at = "plain" => begin < ActionMax - 1
<1>1. ActionMax \in Nat /\ begin \in Slot /\ end \in Slot
  BY RingAssumption DEF RingTyped
<1>. QED
  BY <1>1 DEF Control, ActionReady, Dispatching, Slot

\* Every step keeps the ring in order.
LEMMA ControlStep ==
    ASSUME TypeOK, NodesOK, Control, [Next]_vars
    PROVE  RingTyped' /\ Control'
<1>. USE DEF ringVars, eventVars, timeVars, tickVars
<1>. DEFINE Full == \A i \in 0..(RingCount - 1) : ring[RingAt(i)] \in Tl
<1>1. /\ RingTyped /\ Full /\ ActionMax \in Nat /\ ActionMax > 1 /\ left \in Nat
      /\ running \in Event \cup {None, "action"}
  BY RingAssumption, BoundAssumption DEF TypeOK, RingTyped, Control
<1>2. None \notin Event /\ "action" \notin Event /\ None # "action"
  BY SlotAssumption
<1>3. ASSUME UNCHANGED ringVars
      PROVE  RingTyped' /\ Full'
  BY <1>1, <1>3 DEF RingTyped, RingCount, RingAt
<1>4. ASSUME UNCHANGED ringVars, UNCHANGED <<at, left, running>>
      PROVE  RingTyped' /\ Control'
  BY <1>3, <1>4 DEF Control
<1>5. ASSUME NEW t \in Tl, CreateTl(t) \/ FreeTl(t) PROVE RingTyped' /\ Control'
  BY <1>4, <1>5 DEF CreateTl, FreeTl
<1>6. ASSUME NEW t \in Tl, AddAction(t) PROVE RingTyped' /\ Control'
  <2>1. /\ RingTyped' /\ RingCount' = RingCount + 1
        /\ \A i \in 0..(RingCount - 1) : ring'[RingAt(i)'] = ring[RingAt(i)]
        /\ \A i \in Nat : i = RingCount => ring'[RingAt(i)'] = t
        /\ begin' = begin /\ begin' # end' /\ (begin > end => begin > end')
    BY <1>1, <1>6, AddLemma
  <2>2. RingCount \in Nat
    BY <1>1, RingLemma
  <2>3. Full'
    <3>1. TAKE i \in 0..(RingCount' - 1)
    <3>2. i \in 0..(RingCount - 1) \/ i = RingCount
      BY <2>1, <2>2
    <3>3. CASE i \in 0..(RingCount - 1)
      <4>1. ring'[RingAt(i)'] = ring[RingAt(i)]
        BY <2>1, <3>3
      <4>2. ring[RingAt(i)] \in Tl
        BY <1>1, <3>3
      <4>. QED
        BY <4>1, <4>2
    <3>4. CASE i = RingCount
      BY <2>1, <2>2, <3>4
    <3>. QED
      BY <3>2, <3>3, <3>4
  <2>4. UNCHANGED <<at, left, running>>
    BY <1>6 DEF AddAction
  <2>. QED
    BY <2>1, <2>3, <2>4 DEF Control
<1>7. ASSUME NEW e \in Event, NEW t \in Tl, CreateEvent(e, t) PROVE RingTyped' /\ Control'
  BY <1>4, <1>7 DEF CreateEvent
<1>8. ASSUME NEW e \in Event, NEW delay, NEW span, NEW repeat, SendEvent(e, delay, span, repeat)
      PROVE  RingTyped' /\ Control'
  BY <1>4, <1>8 DEF SendEvent
<1>9. ASSUME NEW e \in Event, FreeEvent(e) PROVE RingTyped' /\ Control'
  BY <1>4, <1>9 DEF FreeEvent
<1>10. ASSUME NEW t \in 0..MaxTime, Pause(t) \/ Resume(t) PROVE RingTyped' /\ Control'
  BY <1>4, <1>10 DEF Pause, Resume
<1>11. ASSUME NEW t, NEW count, Tick(t, count) PROVE RingTyped' /\ Control'
  BY <1>1, <1>2, <1>3, <1>11 DEF Tick, FirstLoop, Control
<1>12. CASE DispatchAction
  <2>1. /\ UNCHANGED ringVars /\ running' = "action" /\ UNCHANGED <<at, left>> /\ ActionReady
    BY <1>12 DEF DispatchAction
  <2>2. /\ at \in {"wrapped", "plain"} /\ begin # end /\ left > 0
        /\ at = "plain" => begin < ActionMax - 1
    BY <1>1, <2>1, ReadyLemma
  <2>. QED
    BY <1>2, <1>3, <2>1, <2>2 DEF Control
<1>13. ASSUME begin # end, at \in {"wrapped", "plain"}, at = "plain" => begin < ActionMax - 1, ActionDone
       PROVE  RingTyped' /\ Full' /\ (at = "wrapped" /\ LoopAfter = "wrapped" => begin' > end')
  <2>1. /\ RingTyped' /\ RingCount > 0 /\ RingCount' = RingCount - 1
        /\ \A i \in 0..(RingCount - 2) : ring'[RingAt(i)'] = ring[RingAt(i + 1)]
        /\ begin' = After(begin) /\ end' = end
    BY <1>1, <1>13, DoneLemma
  <2>2. RingCount \in Nat
    BY <1>1, RingLemma
  <2>3. Full'
    <3>1. \A i \in 0..(RingCount - 2) : i + 1 \in 0..(RingCount - 1)
      BY <2>2
    <3>2. \A i \in 0..(RingCount' - 1) : i \in 0..(RingCount - 2)
      BY <2>1, <2>2
    <3>. QED
      BY <1>1, <2>1, <3>1, <3>2
  <2>4. at = "wrapped" /\ LoopAfter = "wrapped" => begin' > end'
    BY <1>1, <2>1 DEF Control, LoopAfter, After, RingTyped, Slot
  <2>. QED
    BY <2>1, <2>3, <2>4
<1>14. CASE ActionReturns
  <2>1. running = "action" /\ ActionDone /\ running' = None /\ at' = LoopAfter
    BY <1>14 DEF ActionReturns
  <2>2. /\ at \in {"wrapped", "plain"} /\ begin # end
        /\ at = "plain" => begin < ActionMax - 1
    BY <2>1 DEF Control
  <2>3. at' = "wrapped" => at = "wrapped" /\ LoopAfter = "wrapped"
    BY <2>1, <2>2 DEF LoopAfter
  <2>4. running' \notin Event /\ running' # "action" /\ running' = None
    BY <1>2, <2>1
  <2>. QED
    BY <1>13, <2>1, <2>2, <2>3, <2>4 DEF Control
<1>15. CASE DropAction
  <2>1. ActionReady /\ ActionDone /\ running' = running /\ at' = Asserted(LoopAfter, "idle")
    BY <1>15 DEF DropAction
  <2>2. /\ at \in {"wrapped", "plain"} /\ begin # end /\ running = None
        /\ at = "plain" => begin < ActionMax - 1
    BY <1>1, <2>1, ReadyLemma
  <2>3. at' # "wrapped"
    BY <2>1 DEF Asserted
  <2>. QED
    BY <1>2, <1>13, <2>1, <2>2, <2>3 DEF Control
<1>16. CASE EndWrapped \/ EndActions \/ EndRound
  BY <1>1, <1>2, <1>3, <1>16
  DEF EndWrapped, EndActions, EndRound, Asserted, FirstLoop, Dispatching, Control
<1>17. CASE DispatchEvent
  <2>1. /\ UNCHANGED ringVars /\ queue # <<>> /\ running' = queue[1] /\ UNCHANGED <<at, left>>
        /\ at = "events" /\ left > 0
    BY <1>17 DEF DispatchEvent, EventReady, Dispatching
  <2>2. queue[1] \in Event
    BY <2>1, TakenLemma
  <2>. QED
    BY <1>2, <1>3, <2>1, <2>2 DEF Control
<1>18. CASE EventReturns \/ DropEvent
  BY <1>1, <1>2, <1>3, <1>18 DEF EventReturns, DropEvent, EventReady, Dispatching, Control
<1>19. CASE UNCHANGED vars
  BY <1>4, <1>19 DEF vars
<1>20. CASE Call
  BY <1>5, <1>6, <1>7, <1>8, <1>9, <1>10, <1>20 DEF Call
<1>21. CASE TickStep
  BY <1>12, <1>14, <1>15, <1>16, <1>17, <1>18, <1>21 DEF TickStep
<1>. QED
  BY <1>11, <1>19, <1>20, <1>21 DEF Next

-----------------------------------------------------------------------------
(* The theorems. *)

LEMMA FlagsStep ==
    ASSUME any \in BOOLEAN, paused \in BOOLEAN, [Next]_vars
    PROVE  any' \in BOOLEAN /\ paused' \in BOOLEAN
<1>. USE DEF timeVars, tickVars
<1>1. CASE Call
  BY <1>1, Zenon DEF Call, CreateTl, FreeTl, AddAction, CreateEvent, SendEvent, FreeEvent, Pause, Resume
<1>2. ASSUME NEW t, NEW count, Tick(t, count) PROVE any' \in BOOLEAN /\ paused' \in BOOLEAN
  BY <1>2, Zenon DEF Tick
<1>3. CASE TickStep
  BY <1>3, Zenon
  DEF TickStep, DispatchAction, ActionReturns, DropAction, ActionDone, EndWrapped, EndActions,
      DispatchEvent, EventReturns, DropEvent, EndRound
<1>4. CASE UNCHANGED vars
  BY <1>4, Zenon DEF vars
<1>. QED
  BY <1>1, <1>2, <1>3, <1>4 DEF Next

\* What is left of TypeOK: the time, the counters, and where the tick stands.
LEMMA TypeStep ==
    ASSUME TypeOK, NodesOK, Control, [Next]_vars
    PROVE  TypeOK'
<1>. USE DEF ringVars, eventVars, timeVars, tickVars
<1>. DEFINE Times == now \in Nat /\ eaten \in Nat
            Place == /\ at \in {"idle", "wrapped", "plain", "events", "aborted"}
                     /\ left \in 0..MaxCount
                     /\ running \in Event \cup {None, "action"}
                     /\ calls \in 0..MaxCalls
<1>1. Times /\ Place /\ tls \subseteq Tl /\ RingTyped
  BY DEF TypeOK, RingTyped
<1>2. MaxCount \in Nat /\ MaxCalls \in Nat /\ MaxTime \in Nat
  BY BoundAssumption
<1>3. RingTyped' /\ NodesOK'
  BY NodesStep, ControlStep
<1>4. SUFFICES Times' /\ Place' /\ tls' \subseteq Tl
  BY <1>3, FlagsStep DEF TypeOK, RingTyped, NodesOK, Agree
<1>5. ASSUME calls < MaxCalls, calls' = calls + 1, UNCHANGED <<at, left, running>>
      PROVE  Place'
  BY <1>1, <1>2, <1>5
<1>6. ASSUME NEW t \in 0..MaxTime
      PROVE  Updated(t) \in Nat /\ Updated(t) >= now
  BY <1>1, <1>2 DEF Updated
<1>7. ASSUME NEW t \in Tl, CreateTl(t) \/ FreeTl(t) \/ AddAction(t)
      PROVE  Times' /\ Place' /\ tls' \subseteq Tl
  BY <1>1, <1>5, <1>7 DEF CreateTl, FreeTl, AddAction, MayCall
<1>8. ASSUME NEW e \in Event, NEW t \in Tl, CreateEvent(e, t)
      PROVE  Times' /\ Place' /\ tls' \subseteq Tl
  BY <1>1, <1>5, <1>8 DEF CreateEvent, MayCall
<1>9. ASSUME NEW e \in Event, NEW delay, NEW span, NEW repeat, SendEvent(e, delay, span, repeat)
      PROVE  Times' /\ Place' /\ tls' \subseteq Tl
  BY <1>1, <1>5, <1>9 DEF SendEvent, MayCall
<1>10. ASSUME NEW e \in Event, FreeEvent(e)
       PROVE  Times' /\ Place' /\ tls' \subseteq Tl
  BY <1>1, <1>5, <1>10 DEF FreeEvent, MayCall
<1>11. ASSUME NEW t \in 0..MaxTime, Pause(t)
       PROVE  Times' /\ Place' /\ tls' \subseteq Tl
  BY <1>1, <1>5, <1>6, <1>11 DEF Pause, MayCall
<1>12. ASSUME NEW t \in 0..MaxTime, Resume(t)
       PROVE  Times' /\ Place' /\ tls' \subseteq Tl
  <2>1. /\ eaten' = eaten + (Updated(t) - now) /\ now' = Updated(t) - (Updated(t) - now)
        /\ tls' = tls
    BY <1>12 DEF Resume
  <2>2. Times'
    BY <1>1, <1>6, <2>1
  <2>. QED
    BY <1>1, <1>5, <1>12, <2>1, <2>2 DEF Resume, MayCall
<1>13. ASSUME NEW t \in 0..MaxTime, NEW count \in 1..MaxCount, Tick(t, count)
       PROVE  Times' /\ Place' /\ tls' \subseteq Tl
  BY <1>1, <1>2, <1>6, <1>13 DEF Tick, FirstLoop
<1>14. CASE DispatchAction
  BY <1>1, <1>2, <1>14 DEF DispatchAction
<1>15. CASE ActionReturns \/ EventReturns
  <2>1. left > 0
    BY <1>15, SlotAssumption DEF ActionReturns, EventReturns, Control
  <2>. QED
    BY <1>1, <1>2, <1>15, <2>1 DEF ActionReturns, EventReturns, ActionDone, LoopAfter
<1>16. CASE DropAction
  BY <1>1, <1>2, <1>16 DEF DropAction, ActionDone, Asserted
<1>17. CASE EndWrapped \/ EndActions
  BY <1>1, <1>2, <1>17 DEF EndWrapped, EndActions, Asserted
<1>18. CASE EndRound
  BY <1>1, <1>2, <1>18 DEF EndRound, FirstLoop
<1>19. CASE DispatchEvent
  <2>1. queue # <<>>
    BY <1>19 DEF DispatchEvent, EventReady
  <2>2. queue[1] \in Event
    BY <2>1, TakenLemma
  <2>. QED
    BY <1>1, <1>2, <1>19, <2>2 DEF DispatchEvent
<1>20. CASE DropEvent
  BY <1>1, <1>2, <1>20 DEF DropEvent
<1>21. CASE UNCHANGED vars
  BY <1>1, <1>21 DEF vars
<1>22. CASE Call
  BY <1>7, <1>8, <1>9, <1>10, <1>11, <1>12, <1>22 DEF Call
<1>23. CASE TickStep
  BY <1>14, <1>15, <1>16, <1>17, <1>18, <1>19, <1>20, <1>23 DEF TickStep
<1>. QED
  BY <1>13, <1>21, <1>22, <1>23 DEF Next

LEMMA InitIInv == Init => IInv
<1>. SUFFICES ASSUME Init PROVE IInv
  OBVIOUS
<1>1. /\ ActionMax \in Nat /\ ActionMax > 1 /\ MaxCount \in Nat /\ MaxCalls \in Nat
      /\ None \notin Event /\ "action" \notin Event /\ None # "action"
  BY RingAssumption, BoundAssumption, SlotAssumption
<1>2. TypeOK
  BY <1>1 DEF Init, TypeOK, Slot
<1>3. EventsLinked
  BY <1>1 DEF Init, EventsLinked, Members, IsInjective
<1>4. Control
  BY <1>1 DEF Init, Control, RingCount
<1>. QED
  BY <1>2, <1>3, <1>4 DEF IInv

LEMMA NextIInv == IInv /\ [Next]_vars => IInv'
<1>. SUFFICES ASSUME IInv, [Next]_vars PROVE IInv'
  OBVIOUS
<1>1. TypeOK /\ NodesOK /\ Control
  BY NodesLemma DEF IInv
<1>2. TypeOK' /\ NodesOK' /\ Control'
  BY <1>1, TypeStep, NodesStep, ControlStep
<1>3. EventsLinked'
  BY <1>2 DEF NodesOK, Agree, Owned, EventsLinked
<1>. QED
  BY <1>2, <1>3 DEF IInv

LEMMA Invariance == Spec => []IInv
<1>. QED
  BY InitIInv, NextIInv, PTL DEF Spec

\* The variables of the timeline manager keep their types, for every size of
\* the ring and every number of timelines, events, calls and ticks: in
\* particular both positions stay inside the ring.
THEOREM TypeCorrect == Spec => []TypeOK
<1>. QED
  BY Invariance, PTL DEF IInv

\* The event queue is the ordered list of the queued nodes, whatever the
\* dispatchers send and free.
THEOREM EventsAreLinked == Spec => []EventsLinked
<1>. QED
  BY Invariance, PTL DEF IInv

\* The time of the manager never goes back.
THEOREM TimeIsMonotonic == Spec => TimeNeverGoesBack
<1>1. TypeOK /\ [Next]_vars => [now' >= now]_vars
  <2>. SUFFICES ASSUME TypeOK, Next PROVE now' >= now
    BY DEF vars
  <2>1. now \in Nat /\ eaten \in Nat /\ MaxTime \in Nat
    BY BoundAssumption DEF TypeOK
  <2>2. ASSUME NEW t \in 0..MaxTime PROVE Updated(t) >= now /\ Updated(t) \in Nat
    BY <2>1 DEF Updated
  <2>3. ASSUME NEW t \in 0..MaxTime, Pause(t) PROVE now' >= now
    BY <2>1, <2>2, <2>3 DEF Pause
  <2>4. ASSUME NEW t \in 0..MaxTime, Resume(t) PROVE now' >= now
    BY <2>1, <2>2, <2>4 DEF Resume
  <2>5. ASSUME NEW t \in 0..MaxTime, NEW count, Tick(t, count) PROVE now' >= now
    BY <2>1, <2>2, <2>5 DEF Tick
  <2>6. ASSUME now' = now PROVE now' >= now
    BY <2>1, <2>6
  <2>7. CASE Call
    BY <2>3, <2>4, <2>6, <2>7
    DEF Call, CreateTl, FreeTl, AddAction, CreateEvent, SendEvent, FreeEvent, timeVars
  <2>8. CASE TickStep
    BY <2>6, <2>8
    DEF TickStep, DispatchAction, ActionReturns, DropAction, ActionDone, EndWrapped, EndActions,
        DispatchEvent, EventReturns, DropEvent, EndRound, timeVars
  <2>. QED
    BY <2>5, <2>7, <2>8 DEF Next
<1>. QED
  BY <1>1, TypeCorrect, PTL DEF Spec, TimeNeverGoesBack

-----------------------------------------------------------------------------
(* The ring implements ActionFifo. *)

PendingTyped ==
    /\ Pending \in Seq(Tl) /\ Len(Pending) = RingCount
    /\ \A i \in 1..RingCount : Pending[i] = ring[RingAt(i - 1)]

LEMMA PendingLemma == RingTyped /\ Control => PendingTyped
<1>. SUFFICES ASSUME RingTyped, Control PROVE PendingTyped
  OBVIOUS
<1>1. RingCount \in Nat
  BY RingAssumption, RingLemma
<1>2. \A i \in 1..RingCount : ring[RingAt(i - 1)] \in Tl
  <2>1. TAKE i \in 1..RingCount
  <2>2. i - 1 \in 0..(RingCount - 1)
    BY <1>1
  <2>. QED
    BY <2>2 DEF Control
<1>3. Pending \in [1..RingCount -> Tl]
  BY <1>2 DEF Pending
<1>. QED
  BY <1>1, <1>3, SeqDef DEF Pending, PendingTyped

\* A step that changes neither the ring nor whose dispatcher is called.
LEMMA RingStutters ==
    ASSUME UNCHANGED ringVars, (running' = "action") = (running = "action")
    PROVE  UNCHANGED <<Pending, Current>>
  BY DEF ringVars, Pending, Current, RingCount, RingAt

LEMMA AddIsAdd ==
    ASSUME RingTyped, Control, RingTyped', Control', NEW t \in Tl, AddAction(t)
    PROVE  Fifo!Add(t)
<1>1. /\ RingCount < ActionMax - 1 /\ RingCount' = RingCount + 1
      /\ \A i \in 0..(RingCount - 1) : ring'[RingAt(i)'] = ring[RingAt(i)]
      /\ \A i \in Nat : i = RingCount => ring'[RingAt(i)'] = t
      /\ begin' = begin
  BY AddLemma
<1>2. RingCount \in Nat
  BY RingAssumption, RingLemma
<1>3. /\ Pending \in Seq(Tl) /\ Len(Pending) = RingCount
      /\ \A i \in 1..RingCount : Pending[i] = ring[RingAt(i - 1)]
  BY PendingLemma DEF PendingTyped
<1>4. /\ Pending' \in Seq(Tl) /\ Len(Pending') = RingCount'
      /\ \A i \in 1..(RingCount') : Pending'[i] = ring'[RingAt(i - 1)']
  <2>1. PendingTyped'
    BY PendingLemma, PTL
  <2>. QED
    BY <2>1 DEF PendingTyped
<1>5. /\ Append(Pending, t) \in Seq(Tl)
      /\ Len(Append(Pending, t)) = RingCount + 1
      /\ \A i \in 1..RingCount : Append(Pending, t)[i] = Pending[i]
      /\ Append(Pending, t)[RingCount + 1] = t
  BY <1>3, AppendProperties
<1>6. \A i \in 1..(RingCount + 1) : Pending'[i] = Append(Pending, t)[i]
  <2>1. TAKE i \in 1..(RingCount + 1)
  <2>2. Pending'[i] = ring'[RingAt(i - 1)']
    BY <1>1, <1>4
  <2>3. CASE i = RingCount + 1
    BY <1>1, <1>2, <1>5, <2>2, <2>3
  <2>4. CASE i \in 1..RingCount
    <3>1. i - 1 \in 0..(RingCount - 1)
      BY <1>2, <2>4
    <3>. QED
      BY <1>1, <1>3, <1>5, <2>2, <2>4, <3>1
  <2>5. i = RingCount + 1 \/ i \in 1..RingCount
    BY <1>2
  <2>. QED
    BY <2>3, <2>4, <2>5
<1>7. Pending' = Append(Pending, t)
  BY <1>1, <1>4, <1>5, <1>6, SeqEqual
<1>8. Current' = Current
  <2>1. running' = running
    BY DEF AddAction, tickVars
  <2>2. ASSUME running = "action" PROVE ring'[begin] = ring[begin]
    <3>1. begin # end /\ begin \in Slot /\ ring' = [ring EXCEPT ![end] = t]
      BY <2>2 DEF Control, RingTyped, AddAction
    <3>. QED
      BY <3>1 DEF RingTyped
  <2>. QED
    BY <1>1, <2>1, <2>2 DEF Current
<1>. QED
  BY <1>1, <1>3, <1>7, <1>8 DEF Fifo!Add

\* The action that is dispatched is the oldest one.
LEMMA CurrentIsHead ==
    ASSUME RingTyped, Control, begin # end
    PROVE  Pending # <<>> /\ Head(Pending) = ring[begin] /\ ring[begin] \in Tl
<1>1. RingCount \in Nat \ {0} /\ RingAt(0) = begin
  BY RingAssumption, RingLemma
<1>2. /\ Pending \in Seq(Tl) /\ Len(Pending) = RingCount
      /\ \A i \in 1..RingCount : Pending[i] = ring[RingAt(i - 1)]
  BY PendingLemma DEF PendingTyped
<1>3. Pending # <<>>
  BY <1>1, <1>2, EmptySeq
<1>4. Pending[1] = ring[begin]
  <2>1. 1 \in 1..RingCount /\ 1 - 1 = 0
    BY <1>1
  <2>. QED
    BY <1>1, <1>2, <2>1
<1>5. Head(Pending) \in Tl
  BY <1>2, <1>3, HeadTailProperties
<1>. QED
  BY <1>2, <1>3, <1>4, <1>5

\* Giving the slot back takes the oldest action out of the queue.
LEMMA DoneIsTail ==
    ASSUME RingTyped, Control, RingTyped', Control', begin # end, at \in {"wrapped", "plain"},
           at = "plain" => begin < ActionMax - 1, ActionDone
    PROVE  Pending' = Tail(Pending)
<1>1. /\ RingCount' = RingCount - 1
      /\ \A i \in 0..(RingCount - 2) : ring'[RingAt(i)'] = ring[RingAt(i + 1)]
  BY DoneLemma
<1>2. RingCount \in Nat \ {0}
  BY RingAssumption, RingLemma
<1>3. /\ Pending \in Seq(Tl) /\ Len(Pending) = RingCount
      /\ \A i \in 1..RingCount : Pending[i] = ring[RingAt(i - 1)]
  BY PendingLemma DEF PendingTyped
<1>4. /\ Pending' \in Seq(Tl) /\ Len(Pending') = RingCount'
      /\ \A i \in 1..(RingCount') : Pending'[i] = ring'[RingAt(i - 1)']
  <2>1. PendingTyped'
    BY PendingLemma, PTL
  <2>. QED
    BY <2>1 DEF PendingTyped
<1>5. /\ Tail(Pending) \in Seq(Tl) /\ Len(Tail(Pending)) = RingCount - 1
      /\ \A i \in 1..(RingCount - 1) : Tail(Pending)[i] = Pending[i + 1]
  <2>1. Pending # <<>>
    BY CurrentIsHead
  <2>. QED
    BY <1>3, <2>1, HeadTailProperties
<1>6. \A i \in 1..(RingCount - 1) : Pending'[i] = Tail(Pending)[i]
  <2>1. TAKE i \in 1..(RingCount - 1)
  <2>2. i - 1 \in 0..(RingCount - 2) /\ i + 1 \in 1..RingCount /\ (i + 1) - 1 = (i - 1) + 1
    BY <1>2
  <2>3. Pending'[i] = ring[RingAt((i - 1) + 1)]
    BY <1>1, <1>4, <2>2
  <2>4. Tail(Pending)[i] = ring[RingAt((i + 1) - 1)]
    BY <1>3, <1>5, <2>2
  <2>. QED
    BY <2>2, <2>3, <2>4
<1>. QED
  BY <1>1, <1>4, <1>5, <1>6, SeqEqual

\* Every step of the timeline manager is a step of the FIFO, or none.
LEMMA FifoStep ==
    ASSUME IInv, IInv', [Next]_vars
    PROVE  [Fifo!Next]_<<Pending, Current>>
<1>. USE DEF ringVars, eventVars, timeVars, tickVars
<1>1. RingTyped /\ Control /\ RingTyped' /\ Control' /\ NodesOK
  BY NodesLemma DEF IInv, TypeOK, RingTyped
<1>2. None \notin Event /\ "action" \notin Event /\ None # "action" /\ None \notin Tl
  BY SlotAssumption
<1>3. ASSUME NEW t \in Tl, AddAction(t) PROVE Fifo!Next
  <2>1. Fifo!Add(t)
    BY <1>1, <1>3, AddIsAdd
  <2>. QED
    BY <2>1 DEF Fifo!Next
<1>4. CASE DispatchAction
  <2>1. UNCHANGED ringVars /\ running' = "action" /\ ActionReady
    BY <1>4 DEF DispatchAction
  <2>2. running = None /\ begin # end
    BY <1>1, <2>1, ReadyLemma
  <2>3. Pending # <<>> /\ Head(Pending) = ring[begin]
    BY <1>1, <2>2, CurrentIsHead
  <2>4. Pending' = Pending
    BY <2>1 DEF Pending, RingCount, RingAt
  <2>5. Current = None /\ Current' = ring[begin]
    BY <1>2, <2>1, <2>2 DEF Current
  <2>. QED
    BY <2>3, <2>4, <2>5 DEF Fifo!Start, Fifo!Next
<1>5. CASE ActionReturns
  <2>1. running = "action" /\ ActionDone /\ running' = None
    BY <1>5 DEF ActionReturns
  <2>2. /\ at \in {"wrapped", "plain"} /\ begin # end
        /\ at = "plain" => begin < ActionMax - 1
    BY <1>1, <2>1 DEF Control
  <2>3. Pending' = Tail(Pending)
    BY <1>1, <2>1, <2>2, DoneIsTail
  <2>4. Current # None /\ Current' = None
    BY <1>1, <1>2, <2>1, <2>2, CurrentIsHead DEF Current
  <2>. QED
    BY <2>3, <2>4 DEF Fifo!Done, Fifo!Next
<1>6. CASE DropAction
  <2>1. ActionReady /\ ActionDone /\ running' = running
    BY <1>6 DEF DropAction
  <2>2. /\ at \in {"wrapped", "plain"} /\ begin # end /\ running = None
        /\ at = "plain" => begin < ActionMax - 1
    BY <1>1, <2>1, ReadyLemma
  <2>3. Pending' = Tail(Pending) /\ Pending # <<>>
    BY <1>1, <2>1, <2>2, DoneIsTail, CurrentIsHead
  <2>4. Current = None /\ Current' = None
    BY <1>2, <2>1, <2>2 DEF Current
  <2>. QED
    BY <2>3, <2>4 DEF Fifo!Drop, Fifo!Next
<1>7. ASSUME UNCHANGED ringVars, running' = running PROVE UNCHANGED <<Pending, Current>>
  BY <1>7, RingStutters
<1>8. CASE DispatchEvent
  <2>1. UNCHANGED ringVars /\ running = None /\ running' = queue[1] /\ queue # <<>>
    BY <1>8 DEF DispatchEvent, EventReady, Dispatching
  <2>2. queue[1] \in Event
    BY <1>1, <2>1, TakenLemma
  <2>3. running' # "action" /\ running # "action"
    BY <1>2, <2>1, <2>2
  <2>. QED
    BY <2>1, <2>3, RingStutters
<1>9. CASE EventReturns
  <2>1. UNCHANGED ringVars /\ running \in Event /\ running' = None
    BY <1>9 DEF EventReturns
  <2>2. running' # "action" /\ running # "action"
    BY <1>2, <2>1
  <2>. QED
    BY <2>1, <2>2, RingStutters
<1>10. CASE Call
  <2>1. ASSUME NEW t \in Tl, CreateTl(t) \/ FreeTl(t) PROVE UNCHANGED <<Pending, Current>>
    BY <1>7, <2>1 DEF CreateTl, FreeTl
  <2>2. ASSUME NEW e \in Event, NEW t \in Tl, CreateEvent(e, t) PROVE UNCHANGED <<Pending, Current>>
    BY <1>7, <2>2 DEF CreateEvent
  <2>3. ASSUME NEW e \in Event, NEW delay, NEW span, NEW repeat, SendEvent(e, delay, span, repeat)
        PROVE  UNCHANGED <<Pending, Current>>
    BY <1>7, <2>3 DEF SendEvent
  <2>4. ASSUME NEW e \in Event, FreeEvent(e) PROVE UNCHANGED <<Pending, Current>>
    BY <1>7, <2>4 DEF FreeEvent
  <2>5. ASSUME NEW t \in 0..MaxTime, Pause(t) \/ Resume(t) PROVE UNCHANGED <<Pending, Current>>
    BY <1>7, <2>5 DEF Pause, Resume
  <2>. QED
    BY <1>3, <1>10, <2>1, <2>2, <2>3, <2>4, <2>5 DEF Call
<1>11. ASSUME NEW t, NEW count, Tick(t, count) PROVE UNCHANGED <<Pending, Current>>
  BY <1>7, <1>11 DEF Tick
<1>12. CASE EndWrapped \/ EndActions \/ EndRound \/ DropEvent
  BY <1>7, <1>12 DEF EndWrapped, EndActions, EndRound, DropEvent
<1>13. CASE UNCHANGED vars
  BY <1>7, <1>13 DEF vars
<1>14. CASE TickStep
  BY <1>4, <1>5, <1>6, <1>8, <1>9, <1>12, <1>14 DEF TickStep
<1>. QED
  BY <1>10, <1>11, <1>13, <1>14 DEF Next

\* The ring of pending actions is a bounded FIFO, for every size of the ring:
\* each action that tl_action_add accepts is dispatched once and in its turn.
THEOREM RingImplementsFifo == Spec => FifoSpec
<1>1. Init => Fifo!Init
  <2>. SUFFICES ASSUME Init PROVE Fifo!Init
    OBVIOUS
  <2>1. RingTyped /\ Control /\ begin = end /\ running = None /\ None # "action"
    BY InitIInv, SlotAssumption DEF IInv, TypeOK, RingTyped, Init
  <2>2. RingCount = 0
    BY <2>1, RingLemma
  <2>3. Pending \in Seq(Tl) /\ Len(Pending) = 0
    BY <2>1, <2>2, PendingLemma DEF PendingTyped
  <2>4. Pending = <<>>
    BY <2>3, EmptySeq
  <2>5. Current = None
    BY <2>1 DEF Current
  <2>. QED
    BY <2>4, <2>5 DEF Fifo!Init
<1>. QED
  BY <1>1, FifoStep, Invariance, PTL DEF Spec, FifoSpec, Fifo!Spec

-----------------------------------------------------------------------------
(* The schedule of repeating events. *)

\* What holds of an event after so many complete dispatches.
Owes(n, dispatches) ==
    /\ n.asked # Forever => n.repeat > 0 /\ dispatches + n.repeat = n.asked
    /\ n.asked = Forever => n.repeat = Forever
    /\ n.time = n.first + dispatches * n.span

\* While an event is dispatched, the dispatch in progress is counted already.
Scheduled(n) ==
    /\ n.state = "building" => n.fired = 0
    /\ n.state = "queued" => Owes(n, n.fired)
    /\ n.state \in {"running", "deleting"} => Owes(n, n.fired - 1)

AllScheduled == \A e \in Event : node[e] # NoNode => Scheduled(node[e])

LEMMA FiresScheduled ==
    ASSUME NEW n \in Node, n.state = "queued", Scheduled(n)
    PROVE  Scheduled(Fires(n))
<1>. DEFINE f == Fires(n)
            k == n.fired + 1
<1>1. n.fired \in Nat /\ k - 1 = n.fired
  BY DEF Node
<1>2. f = [n EXCEPT !.state = "running", !.fired = k]
  BY DEF Fires
<1>. HIDE DEF k
<1>3. /\ f.state = "running" /\ f.fired = k
      /\ f.asked = n.asked /\ f.repeat = n.repeat /\ f.time = n.time
      /\ f.first = n.first /\ f.span = n.span
  BY <1>2 DEF Node
<1>4. Owes(n, n.fired)
  BY DEF Scheduled
<1>. HIDE DEF f
<1>5. Owes(f, k - 1)
  BY <1>1, <1>3, <1>4 DEF Owes
<1>6. Scheduled(f)
  BY <1>3, <1>5 DEF Scheduled
<1>. QED
  BY <1>6 DEF f

LEMMA AgainScheduled ==
    ASSUME NEW n \in Node, n.state \in {"running", "deleting"}, Scheduled(n), Rest(n) # 0
    PROVE  Scheduled(Again(n))
<1>. DEFINE f == Again(n)
<1>1. /\ n.fired \in Nat /\ n.span \in Int /\ n.time \in Nat /\ n.first \in Nat
      /\ n.asked \in Int /\ n.repeat \in Int
  BY BoundAssumption DEF Node, Repeat, Forever
<1>2. /\ f.state = "queued" /\ f.repeat = Rest(n) /\ f.time = n.time + n.span
      /\ f.fired = n.fired /\ f.asked = n.asked /\ f.first = n.first /\ f.span = n.span
  BY DEF Node, Again, NextTime
<1>3. Owes(n, n.fired - 1)
  BY DEF Scheduled
<1>. HIDE DEF f
<1>4. ASSUME n.asked # Forever PROVE f.repeat > 0 /\ n.fired + f.repeat = n.asked
  BY <1>1, <1>2, <1>3, <1>4 DEF Owes, Rest
<1>5. ASSUME n.asked = Forever PROVE f.repeat = Forever
  BY <1>2, <1>3, <1>5 DEF Owes, Rest, Forever
<1>6. f.time = n.first + n.fired * n.span
  <2>. DEFINE d == (n.fired - 1) * n.span
  <2>1. n.fired * n.span = d + n.span /\ d \in Int
    BY <1>1
  <2>2. n.time = n.first + d
    BY <1>3 DEF Owes
  <2>. HIDE DEF d
  <2>. QED
    BY <1>1, <1>2, <2>1, <2>2
<1>7. Scheduled(f)
  BY <1>2, <1>4, <1>5, <1>6 DEF Scheduled, Owes
<1>. QED
  BY <1>7 DEF f

\* After its dispatcher an event that is queued again is in its schedule.
LEMMA DoneScheduled ==
    ASSUME NEW e \in Event, NEW nodes \in [Event -> Node \cup {NoNode}], NEW q,
           nodes[e] # NoNode, nodes[e].state \in {"running", "deleting"},
           \A f \in Event : nodes[f] # NoNode => Scheduled(nodes[f]),
           EventDone(e, nodes, q)
    PROVE  AllScheduled'
<1>1. nodes[e] \in Node
  OBVIOUS
<1>2. CASE nodes[e].state = "deleting" \/ Rest(nodes[e]) = 0
  <2>. DEFINE m == [nodes EXCEPT ![e] = NoNode]
  <2>1. m \in [Event -> Node \cup {NoNode}] /\ node' = Cleared(m)
    BY <1>2 DEF EventDone
  <2>2. \A f \in Event : m[f] # NoNode => m[f] = nodes[f] /\ nodes[f] # NoNode
    OBVIOUS
  <2>. HIDE DEF m
  <2>3. \A f \in Event : node'[f] # NoNode => node'[f] = m[f]
    BY <2>1, ClearedLemma
  <2>. QED
    BY <2>2, <2>3 DEF AllScheduled
<1>3. CASE ~(nodes[e].state = "deleting" \/ Rest(nodes[e]) = 0)
  <2>. DEFINE n == Again(nodes[e])
              m == [nodes EXCEPT ![e] = n]
  <2>1. n \in Node /\ Scheduled(n)
    BY <1>1, <1>3, NodeTyping, AgainScheduled
  <2>2. node' = Cleared(m)
    BY <1>3 DEF EventDone
  <2>. HIDE DEF n
  <2>3. /\ m \in [Event -> Node \cup {NoNode}]
        /\ \A f \in Event : m[f] # NoNode => Scheduled(m[f])
    BY <2>1
  <2>. HIDE DEF m
  <2>4. \A f \in Event : node'[f] # NoNode => node'[f] = m[f]
    BY <2>2, <2>3, ClearedLemma
  <2>. QED
    BY <2>3, <2>4 DEF AllScheduled
<1>. QED
  BY <1>2, <1>3

LEMMA ScheduledStep ==
    ASSUME IInv, AllScheduled, [Next]_vars
    PROVE  AllScheduled'
<1>. USE DEF ringVars, eventVars, timeVars, tickVars
<1>1. TypeOK /\ NodesOK /\ node \in [Event -> Node \cup {NoNode}] /\ MaxSpan \in Nat /\ MaxRepeat \in Nat
  BY NodesLemma, BoundAssumption DEF IInv, NodesOK
<1>2. ASSUME \A e \in Event : node'[e] # NoNode => node'[e] = node[e]
      PROVE  AllScheduled'
  BY <1>2 DEF AllScheduled
<1>3. ASSUME node' = node \/ node' = Cleared(node) PROVE AllScheduled'
  BY <1>1, <1>2, <1>3, ClearedLemma
<1>4. ASSUME NEW e \in Event, NEW n, Scheduled(n), node' = [node EXCEPT ![e] = n] PROVE AllScheduled'
  BY <1>1, <1>4 DEF AllScheduled
<1>5. ASSUME NEW t \in Tl, CreateTl(t) \/ AddAction(t) PROVE AllScheduled'
  BY <1>3, <1>5 DEF CreateTl, AddAction
<1>6. ASSUME NEW t \in Tl, FreeTl(t) PROVE AllScheduled'
  BY <1>2, <1>6 DEF FreeTl
<1>7. ASSUME NEW t \in 0..MaxTime, Pause(t) \/ Resume(t) PROVE AllScheduled'
  BY <1>3, <1>7 DEF Pause, Resume
<1>8. ASSUME NEW e \in Event, NEW t \in Tl, CreateEvent(e, t) PROVE AllScheduled'
  <2>. DEFINE n == [state |-> "building", tl |-> t, time |-> 0, span |-> 0, repeat |-> 0,
                    first |-> 0, asked |-> 1, fired |-> 0]
  <2>1. Scheduled(n)
    BY DEF Scheduled
  <2>2. node' = [node EXCEPT ![e] = n]
    BY <1>8 DEF CreateEvent
  <2>. QED
    BY <1>4, <2>1, <2>2
<1>9. ASSUME NEW e \in Event, NEW delay \in 0..MaxSpan, NEW span \in 0..MaxSpan,
             NEW repeat \in Repeat, SendEvent(e, delay, span, repeat)
      PROVE  AllScheduled'
  <2>. DEFINE d == now + delay
              n == [node[e] EXCEPT !.state = "queued", !.time = d, !.span = span, !.repeat = repeat,
                                   !.first = d, !.asked = repeat]
  <2>1. node' = [node EXCEPT ![e] = n] /\ node[e] # NoNode /\ node[e].state = "building"
    BY <1>9 DEF SendEvent
  <2>2. d \in Nat
    BY <1>1 DEF TypeOK
  <2>3. node[e] \in Node /\ node[e].fired = 0
    BY <1>1, <2>1 DEF AllScheduled, Scheduled
  <2>. HIDE DEF d
  <2>4. /\ n.state = "queued" /\ n.time = d /\ n.span = span /\ n.repeat = repeat
        /\ n.first = d /\ n.asked = repeat /\ n.fired = 0
    BY <2>3 DEF Node
  <2>. HIDE DEF n
  <2>5. Owes(n, 0)
    BY <1>1, <2>2, <2>4 DEF Owes, Repeat, Forever
  <2>6. Scheduled(n)
    BY <2>4, <2>5 DEF Scheduled
  <2>. QED
    BY <1>4, <2>1, <2>6
<1>10. ASSUME NEW e \in Event, FreeEvent(e) PROVE AllScheduled'
  <2>1. CASE node[e].state \in {"running", "deleting"}
    <3>. DEFINE n == [node[e] EXCEPT !.state = "deleting"]
    <3>1. node' = [node EXCEPT ![e] = n] /\ node[e] # NoNode
      BY <1>10, <2>1 DEF FreeEvent
    <3>2. node[e] \in Node /\ Owes(node[e], node[e].fired - 1)
      BY <1>1, <2>1, <3>1 DEF AllScheduled, Scheduled
    <3>3. /\ n.state = "deleting" /\ n.fired = node[e].fired
          /\ n.asked = node[e].asked /\ n.repeat = node[e].repeat /\ n.time = node[e].time
          /\ n.first = node[e].first /\ n.span = node[e].span
      BY <3>2 DEF Node
    <3>. HIDE DEF n
    <3>4. Owes(n, n.fired - 1)
      BY <3>2, <3>3 DEF Owes
    <3>5. Scheduled(n)
      BY <3>3, <3>4 DEF Scheduled
    <3>. QED
      BY <1>4, <3>1, <3>5
  <2>2. CASE node[e].state \notin {"running", "deleting"}
    BY <1>1, <1>2, <1>10, <2>2 DEF FreeEvent
  <2>. QED
    BY <2>1, <2>2
<1>11. ASSUME NEW t, NEW count, Tick(t, count) PROVE AllScheduled'
  BY <1>3, <1>11 DEF Tick
<1>12. CASE DispatchAction \/ EndWrapped \/ EndActions \/ EndRound
  BY <1>3, <1>12 DEF DispatchAction, EndWrapped, EndActions, EndRound
<1>13. CASE ActionReturns \/ DropAction
  BY <1>3, <1>13 DEF ActionReturns, DropAction, ActionDone
<1>14. ASSUME queue # <<>>
       PROVE  \A f \in Event : Taken(queue[1])[f] # NoNode => Scheduled(Taken(queue[1])[f])
  <2>. DEFINE e == queue[1]
  <2>1. e \in Event /\ node[e] \in Node /\ node[e].state = "queued" /\ node[e] # NoNode
    BY <1>1, <1>14, TakenLemma, NodeTyping
  <2>2. Scheduled(Fires(node[e]))
    BY <2>1, FiresScheduled DEF AllScheduled
  <2>3. Taken(e)[e] = Fires(node[e]) /\ \A f \in Event : f # e => Taken(e)[f] = node[f]
    BY <1>1, <2>1 DEF Taken
  <2>. HIDE DEF e
  <2>4. \A f \in Event : Taken(e)[f] # NoNode => Scheduled(Taken(e)[f])
    BY <2>2, <2>3 DEF AllScheduled
  <2>. QED
    BY <2>4 DEF e
<1>15. CASE DispatchEvent
  BY <1>14, <1>15 DEF DispatchEvent, EventReady, AllScheduled
<1>16. CASE EventReturns
  <2>1. running \in Event /\ EventDone(running, node, queue)
    BY <1>16 DEF EventReturns
  <2>2. node[running] # NoNode /\ node[running].state \in {"running", "deleting"}
    BY <1>1, <2>1 DEF NodesOK, Owned
  <2>. QED
    BY <1>1, <2>1, <2>2, DoneScheduled DEF AllScheduled
<1>17. CASE DropEvent
  <2>. DEFINE e == queue[1]
              m == Taken(e)
  <2>1. queue # <<>> /\ EventDone(e, m, Tail(queue))
    BY <1>17 DEF DropEvent, EventReady
  <2>2. /\ e \in Event /\ m \in [Event -> Node \cup {NoNode}]
        /\ m[e] # NoNode /\ m[e].state = "running"
    BY <1>1, <2>1, TakenLemma
  <2>3. \A f \in Event : m[f] # NoNode => Scheduled(m[f])
    BY <1>14, <2>1
  <2>. HIDE DEF e, m
  <2>. QED
    BY <2>1, <2>2, <2>3, DoneScheduled
<1>18. CASE UNCHANGED vars
  BY <1>3, <1>18 DEF vars
<1>19. CASE Call
  BY <1>5, <1>6, <1>7, <1>8, <1>9, <1>10, <1>19 DEF Call
<1>20. CASE TickStep
  BY <1>12, <1>13, <1>15, <1>16, <1>17, <1>20 DEF TickStep
<1>. QED
  BY <1>11, <1>18, <1>19, <1>20 DEF Next

\* A repeating event is dispatched exactly as often as it was asked to and at
\* its own times, however late the ticks are.
THEOREM TheScheduleIsKept == Spec => []ScheduleKept
<1>1. Init => AllScheduled
  BY DEF Init, AllScheduled
<1>2. IInv /\ AllScheduled => ScheduleKept
  BY DEF AllScheduled, Scheduled, Owes, ScheduleKept
<1>. QED
  BY <1>1, <1>2, ScheduledStep, Invariance, PTL DEF Spec

-----------------------------------------------------------------------------
(* The order of the events: every step takes events out of the queue, or    *)
(* puts one in, or both, and leaves the others where they are.              *)

StableNow ==
    \A e \in Event, f \in Members(queue') : Stays(e) =>
        IF Stays(f) THEN Before(queue, e, f) => Before(queue', e, f)
        ELSE node[e].time <= node'[f].time => Before(queue', e, f)

\* No event comes.
LEMMA KeptStable ==
    ASSUME \A f \in Members(queue') : Stays(f),
           \A x, y \in Members(queue') : Before(queue, x, y) => Before(queue', x, y)
    PROVE  StableNow
  BY DEF StableNow, Stays

\* e comes, to the rest r of the queue.
LEMMA InsertStable ==
    ASSUME NEW nodes \in [Event -> Node \cup {NoNode}], NEW r, Agree(r, nodes),
           NEW e \in Event, nodes[e] # NoNode => nodes[e].state # "queued",
           NEW n \in Node, n.state = "queued",
           NEW m \in [Event -> Node \cup {NoNode}],
           m[e] = n, \A f \in Event : f # e => m[f] = nodes[f],
           queue' = Inserted(r, m, e), node'[e] = n, ~Stays(e),
           \A x \in Members(r) : x \in Members(queue) /\ node[x] = nodes[x] /\ node'[x] = nodes[x],
           \A x, y \in Members(r) : Before(queue, x, y) => Before(r, x, y)
    PROVE  StableNow
<1>. DEFINE p == Cardinality(Earlier(r, m, e)) + 1
<1>1. r \in Seq(Event) /\ Len(r) \in Nat
  BY MemberLemma DEF Agree
<1>2. p \in 1..(Len(r) + 1) /\ Earlier(r, m, e) = 1..(p - 1) /\ queue' = InsertAt(r, p, e)
  <2>1. Cardinality(Earlier(r, m, e)) \in 0..Len(r) /\ Earlier(r, m, e) = 1..Cardinality(Earlier(r, m, e))
    BY PlaceLemma
  <2>2. queue' = InsertAt(r, p, e)
    BY DEF Inserted, Earlier
  <2>. QED
    BY <1>1, <2>1, <2>2
<1>. HIDE DEF p
<1>3. Members(queue') = Members(r) \cup {e} /\ e \notin Members(r)
  <2>1. Agree(Inserted(r, [nodes EXCEPT ![e] = n], e), [nodes EXCEPT ![e] = n])
    BY InsertLemma
  <2>2. Agree(queue', m)
    <3>1. m = [nodes EXCEPT ![e] = n]
      OBVIOUS
    <3>. QED
      BY <2>1, <3>1
  <2>3. /\ Members(queue') = {f \in Event : m[f] # NoNode /\ m[f].state = "queued"}
        /\ Members(r) = {f \in Event : nodes[f] # NoNode /\ nodes[f].state = "queued"}
    BY <2>2 DEF Agree
  <2>4. n # NoNode
    BY NodeTyping
  <2>. QED
    BY <2>3, <2>4
<1>4. /\ \A x, y : Before(r, x, y) => Before(queue', x, y)
      /\ \A i \in 1..Len(r) : i < p => Before(queue', r[i], e)
  <2>1. /\ \A x, y : Before(r, x, y) => Before(InsertAt(r, p, e), x, y)
        /\ \A i \in 1..Len(r) : i < p => Before(InsertAt(r, p, e), r[i], e)
    BY <1>1, <1>2, InsertOrder
  <2>. QED
    BY <1>2, <2>1
<1>5. ASSUME NEW x \in Members(r), node[x].time <= n.time PROVE Before(queue', x, e)
  <2>1. PICK i \in 1..Len(r) : r[i] = x
    BY DEF Members
  <2>2. m[x] = nodes[x]
    BY <1>3, MemberLemma, <2>1
  <2>3. i \in Earlier(r, m, e)
    BY <1>5, <2>1, <2>2 DEF Earlier
  <2>4. i < p
    BY <1>2, <2>3
  <2>. QED
    BY <1>4, <2>1, <2>4
<1>6. \A x \in Members(r) : Stays(x)
  BY <1>3 DEF Stays
<1>7. SUFFICES ASSUME NEW x \in Event, NEW f \in Members(queue'), Stays(x)
               PROVE  IF Stays(f) THEN Before(queue, x, f) => Before(queue', x, f)
                      ELSE node[x].time <= node'[f].time => Before(queue', x, f)
  BY DEF StableNow
<1>8. x \in Members(r)
  BY <1>3, <1>7 DEF Stays
<1>9. CASE f = e
  BY <1>5, <1>8, <1>9
<1>10. CASE f # e
  BY <1>3, <1>4, <1>6, <1>8, <1>10
<1>. QED
  BY <1>9, <1>10

\* What the loop over the events does with the event it took, r being the rest.
LEMMA DoneStable ==
    ASSUME NEW e \in Event, NEW nodes \in [Event -> Node \cup {NoNode}],
           NEW r, Agree(r, nodes),
           nodes[e] # NoNode, nodes[e].state \in {"running", "deleting"},
           EventDone(e, nodes, r),
           \A x \in Members(r) : x \in Members(queue) /\ node[x] = nodes[x],
           \A x, y \in Members(r) : Before(queue, x, y) => Before(r, x, y),
           e \in Members(queue) => node[e] # Again(nodes[e])
    PROVE  StableNow
<1>1. nodes[e] \in Node /\ nodes[e].state # "queued"
  OBVIOUS
<1>2. Members(r) = {f \in Event : nodes[f] # NoNode /\ nodes[f].state = "queued"} /\ e \notin Members(r)
  BY <1>1 DEF Agree
<1>3. CASE nodes[e].state = "deleting" \/ Rest(nodes[e]) = 0
  <2>. DEFINE m == [nodes EXCEPT ![e] = NoNode]
  <2>1. node' = Cleared(m) /\ queue' = r
    BY <1>3 DEF EventDone
  <2>2. m \in [Event -> Node \cup {NoNode}] /\ \A f \in Event : f # e => m[f] = nodes[f]
    OBVIOUS
  <2>. HIDE DEF m
  <2>3. \A f \in Members(r) : m[f] = nodes[f] /\ m[f] # NoNode /\ m[f].state # "building"
    BY <1>2, <2>2
  <2>4. \A f \in Members(r) : node'[f] = nodes[f]
    BY <1>2, <2>1, <2>2, <2>3, ClearedLemma
  <2>. QED
    BY <2>1, <2>4, KeptStable DEF Stays
<1>4. CASE ~(nodes[e].state = "deleting" \/ Rest(nodes[e]) = 0)
  <2>. DEFINE n == Again(nodes[e])
              m == [nodes EXCEPT ![e] = n]
  <2>1. node' = Cleared(m) /\ queue' = Inserted(r, m, e)
    BY <1>4 DEF EventDone
  <2>2. n \in Node /\ n.state = "queued" /\ n # NoNode
    BY <1>1, NodeTyping
  <2>3. e \in Members(queue) => node[e] # n
    OBVIOUS
  <2>. HIDE DEF n
  <2>4. /\ m \in [Event -> Node \cup {NoNode}] /\ m[e] = n
        /\ \A f \in Event : f # e => m[f] = nodes[f]
    BY <2>2
  <2>. HIDE DEF m
  <2>6. \A f \in Members(r) : m[f] = nodes[f] /\ m[f] # NoNode /\ m[f].state # "building"
    BY <1>2, <2>4
  <2>7. node'[e] = n /\ \A f \in Members(r) : node'[f] = nodes[f]
    BY <1>2, <2>1, <2>2, <2>4, <2>6, ClearedLemma
  <2>8. ~Stays(e)
    BY <2>3, <2>7 DEF Stays
  <2>. QED
    BY <1>1, <2>1, <2>2, <2>4, <2>7, <2>8, InsertStable
<1>. QED
  BY <1>3, <1>4

\* A part of the queue has its order.
LEMMA PartOrder ==
    ASSUME NodesOK, NEW r, NEW kept, NEW gone, Part(r, kept, queue, gone)
    PROVE  \A x, y \in Members(r) : Before(queue, x, y) => Before(r, x, y)
<1>. USE DEF Part
<1>1. /\ Len(queue) \in Nat /\ Len(r) \in Nat
      /\ \A i, j \in 1..Len(queue) : queue[i] = queue[j] => i = j
  BY MemberLemma, LenProperties DEF NodesOK
<1>2. SUFFICES ASSUME NEW x \in Members(r), NEW y \in Members(r), Before(queue, x, y)
               PROVE  Before(r, x, y)
  OBVIOUS
<1>3. PICK i \in 1..Len(r), j \in 1..Len(r) : r[i] = x /\ r[j] = y
  BY <1>2 DEF Members
<1>4. PICK a \in 1..Len(queue), b \in 1..Len(queue) : a < b /\ queue[a] = x /\ queue[b] = y
  BY <1>2 DEF Before
<1>5. /\ kept[i] \in 1..Len(queue) /\ r[i] = queue[kept[i]]
      /\ kept[j] \in 1..Len(queue) /\ r[j] = queue[kept[j]]
  BY <1>3
<1>6. kept[i] = a /\ kept[j] = b
  BY <1>1, <1>3, <1>4, <1>5
<1>7. i < j
  <2>1. SUFFICES ASSUME ~(i < j) PROVE FALSE
    OBVIOUS
  <2>2. i = j \/ j < i
    BY <1>1, <1>3, <2>1
  <2>3. CASE i = j
    BY <2>3, <1>4, <1>6
  <2>4. CASE j < i
    <3>1. kept[j] < kept[i]
      BY <2>4, <1>3
    <3>. QED
      BY <3>1, <1>4, <1>6, <1>1
  <2>. QED
    BY <2>2, <2>3, <2>4
<1>. QED
  BY <1>3, <1>7 DEF Before

LEMMA StableStep ==
    ASSUME TypeOK, NodesOK, [Next]_vars
    PROVE  StableNow
<1>. USE DEF ringVars, eventVars, timeVars, tickVars
<1>1. /\ queue \in Seq(Event) /\ IsInjective(queue)
      /\ node \in [Event -> Node \cup {NoNode}] /\ Agree(queue, node)
      /\ Members(queue) = {e \in Event : node[e] # NoNode /\ node[e].state = "queued"}
  BY DEF NodesOK, Agree
<1>2. ASSUME queue' = queue, \A f \in Members(queue) : node'[f] = node[f]
      PROVE  StableNow
  BY <1>2, KeptStable DEF Stays
<1>3. \A f \in Members(queue) : Cleared(node)[f] = node[f]
  BY <1>1, ClearedLemma
<1>4. ASSUME NEW e \in Event, NEW t \in Tl, CreateEvent(e, t) PROVE StableNow
  <2>1. node[e] = NoNode /\ queue' = queue /\ \A f \in Event : f # e => node'[f] = node[f]
    BY <1>1, <1>4 DEF CreateEvent
  <2>. QED
    BY <1>1, <1>2, <2>1
<1>5. ASSUME NEW e \in Event, NEW delay \in 0..MaxSpan, NEW span \in 0..MaxSpan,
             NEW repeat \in Repeat, SendEvent(e, delay, span, repeat)
      PROVE  StableNow
  <2>. DEFINE d == now + delay
              n == [node[e] EXCEPT !.state = "queued", !.time = d, !.span = span, !.repeat = repeat,
                                   !.first = d, !.asked = repeat]
  <2>1. /\ node' = [node EXCEPT ![e] = n] /\ node[e] # NoNode /\ node[e].state = "building"
        /\ queue' = Inserted(queue, node', e)
    BY <1>5 DEF SendEvent
  <2>2. d \in Nat /\ node[e] \in Node
    BY <1>1, <2>1, BoundAssumption DEF TypeOK
  <2>. HIDE DEF d
  <2>3. n \in Node /\ n.state = "queued"
    BY <2>2 DEF Node
  <2>. HIDE DEF n
  <2>4. /\ node' \in [Event -> Node \cup {NoNode}]
        /\ node'[e] = n /\ \A f \in Event : f # e => node'[f] = node[f]
    BY <1>1, <2>1, <2>3
  <2>5. e \notin Members(queue)
    BY <1>1, <2>1
  <2>6. \A f \in Members(queue) : node'[f] = node[f]
    BY <1>1, <2>4, <2>5
  <2>7. queue' = Inserted(queue, node', e)
    BY <2>1
  <2>8. \A f \in Members(queue) : f \in Members(queue) /\ f # e /\ node'[f] = node[f]
    BY <2>5, <2>6
  <2>9. ~Stays(e)
    BY <2>5 DEF Stays
  <2>10. node[e] # NoNode => node[e].state # "queued"
    BY <2>1
  <2>. QED
    BY <1>1, <2>3, <2>4, <2>7, <2>8, <2>9, InsertStable
<1>6. ASSUME NEW e \in Event, FreeEvent(e) PROVE StableNow
  <2>1. queue' = Removed(queue, e) /\ \A f \in Event : f # e => node'[f] = node[f]
    BY <1>1, <1>6 DEF FreeEvent
  <2>2. Members(queue') = Members(queue) \ {e}
    BY <1>1, <2>1, RemovedLemma
  <2>3. \A x, y : Before(queue, x, y) /\ x # e /\ y # e => Before(queue', x, y)
    BY <1>1, <2>1, RemovedOrder
  <2>. QED
    BY <1>1, <2>1, <2>2, <2>3, KeptStable DEF Stays
<1>7. ASSUME NEW t \in Tl, FreeTl(t) PROVE StableNow
  <2>1. /\ node' = [e \in Event |-> IF e \in EventsOf(t) THEN NoNode ELSE node[e]]
        /\ Unlink(EventsOf(t))
    BY <1>7 DEF FreeTl
  <2>2. PICK kept : Part(queue', kept, queue, EventsOf(t))
    BY <2>1, UnlinkLemma DEF NodesOK
  <2>3. \A f \in Members(queue') : f \in Members(queue) /\ f \notin EventsOf(t)
    BY <2>2 DEF Part, Members
  <2>4. \A x, y \in Members(queue') : Before(queue, x, y) => Before(queue', x, y)
    BY <2>2, PartOrder
  <2>5. \A f \in Members(queue') : Stays(f)
    BY <1>1, <2>1, <2>3 DEF Stays
  <2>. QED
    BY <2>4, <2>5, KeptStable
<1>8. ASSUME queue # <<>>
      PROVE  LET e == queue[1] IN
             /\ e \in Event /\ node[e] \in Node /\ Taken(e) \in [Event -> Node \cup {NoNode}]
             /\ Taken(e)[e] = Fires(node[e])
             /\ Taken(e)[e] # NoNode /\ Taken(e)[e].state = "running"
             /\ Agree(Tail(queue), Taken(e))
             /\ Members(Tail(queue)) = Members(queue) \ {e}
             /\ \A x \in Members(Tail(queue)) : x \in Members(queue) /\ node[x] = Taken(e)[x]
             /\ \A x, y \in Members(Tail(queue)) : Before(queue, x, y) => Before(Tail(queue), x, y)
  <2>. DEFINE e == queue[1]
  <2>1. /\ e \in Event /\ node[e] \in Node /\ Taken(e) \in [Event -> Node \cup {NoNode}]
        /\ Taken(e)[e] # NoNode /\ Taken(e)[e].state = "running"
        /\ \A f \in Event : f # e => Taken(e)[f] = node[f]
        /\ Agree(Tail(queue), Taken(e))
    BY <1>8, TakenLemma
  <2>2. Taken(e)[e] = Fires(node[e])
    BY <1>1, <2>1 DEF Taken
  <2>3. /\ Members(Tail(queue)) = Members(queue) \ {e}
        /\ \A x, y : Before(queue, x, y) /\ x # e => Before(Tail(queue), x, y)
    BY <1>1, <1>8, TailOrder
  <2>. HIDE DEF e
  <2>4. \A x \in Members(Tail(queue)) : x \in Members(queue) /\ node[x] = Taken(e)[x]
    BY <1>1, <2>1, <2>3
  <2>. QED
    BY <2>1, <2>2, <2>3, <2>4 DEF e
<1>9. CASE DispatchEvent
  <2>1. queue # <<>> /\ node' = Taken(queue[1]) /\ queue' = Tail(queue)
    BY <1>9 DEF DispatchEvent, EventReady
  <2>. QED
    BY <1>8, <2>1, KeptStable DEF Stays
<1>10. CASE EventReturns
  <2>1. running \in Event /\ EventDone(running, node, queue)
    BY <1>10 DEF EventReturns
  <2>2. node[running] # NoNode /\ node[running].state \in {"running", "deleting"}
    BY <2>1 DEF NodesOK, Owned
  <2>3. running \notin Members(queue)
    BY <1>1, <2>2
  <2>. QED
    BY <1>1, <2>1, <2>2, <2>3, DoneStable
<1>11. CASE DropEvent
  <2>. DEFINE e == queue[1]
              m == Taken(e)
  <2>1. queue # <<>> /\ EventDone(e, m, Tail(queue))
    BY <1>11 DEF DropEvent, EventReady
  <2>2. /\ e \in Event /\ node[e] \in Node /\ m \in [Event -> Node \cup {NoNode}]
        /\ m[e] = Fires(node[e]) /\ m[e] # NoNode /\ m[e].state = "running"
        /\ Agree(Tail(queue), m)
        /\ \A x \in Members(Tail(queue)) : x \in Members(queue) /\ node[x] = m[x]
        /\ \A x, y \in Members(Tail(queue)) : Before(queue, x, y) => Before(Tail(queue), x, y)
    BY <1>8, <2>1
  <2>. HIDE DEF e, m
  <2>3. node[e] # Again(m[e])
    <3>1. node[e].fired \in Nat
      BY <2>2 DEF Node
    <3>2. Again(Fires(node[e])).fired = node[e].fired + 1
      BY <2>2 DEF Again, Fires, Node
    <3>. QED
      BY <2>2, <3>1, <3>2
  <2>. QED
    BY <2>1, <2>2, <2>3, DoneStable
<1>12. CASE EndRound
  BY <1>2, <1>3, <1>12 DEF EndRound
<1>13. CASE ActionReturns \/ DropAction
  BY <1>2, <1>3, <1>13 DEF ActionReturns, DropAction, ActionDone
<1>14. CASE Call
  <2>1. ASSUME NEW t \in Tl, CreateTl(t) \/ AddAction(t) PROVE StableNow
    BY <1>2, <2>1 DEF CreateTl, AddAction
  <2>2. ASSUME NEW t \in 0..MaxTime, Pause(t) \/ Resume(t) PROVE StableNow
    BY <1>2, <2>2 DEF Pause, Resume
  <2>. QED
    BY <1>4, <1>5, <1>6, <1>7, <1>14, <2>1, <2>2 DEF Call
<1>15. CASE TickStep
  <2>1. CASE DispatchAction \/ EndWrapped \/ EndActions
    BY <1>2, <2>1 DEF DispatchAction, EndWrapped, EndActions
  <2>. QED
    BY <1>9, <1>10, <1>11, <1>12, <1>13, <1>15, <2>1 DEF TickStep
<1>16. ASSUME NEW t \in 0..MaxTime, NEW count \in 1..MaxCount, Tick(t, count) PROVE StableNow
  BY <1>2, <1>16 DEF Tick
<1>17. CASE UNCHANGED vars
  BY <1>2, <1>17 DEF vars
<1>. QED
  BY <1>14, <1>15, <1>16, <1>17 DEF Next

\* Two events that stay queued keep their order, and one that comes, is sent again by
\* its dispatcher, or repeats, does not overtake an event of the same or an earlier time.
THEOREM EventsKeepTheirOrder == Spec => QueueIsStable
<1>1. IInv /\ [Next]_vars =>
          (\A e \in Event, f \in Members(queue') : Stays(e) =>
              IF Stays(f) THEN Before(queue, e, f) => Before(queue', e, f)
              ELSE node[e].time <= node'[f].time => Before(queue', e, f))
  BY StableStep, NodesLemma DEF IInv, StableNow
<1>. QED
  BY <1>1, Invariance, PTL DEF Spec, QueueIsStable
=============================================================================
