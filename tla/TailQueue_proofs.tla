--------------------------- MODULE TailQueue_proofs ---------------------------
(***************************************************************************)
(* What the operations of TailQueue do to a sequence, its members, and     *)
(* those of them that are not at its head.                                 *)
(***************************************************************************)
EXTENDS TailQueue, SequenceTheorems, TLAPS

\* All but the head of a queue.
Rear(q) == {q[i] : i \in 2..Len(q)}

\* Inserting shifts what was there, removing closes the gap.
LEMMA InsertAtLemma ==
    ASSUME NEW S, NEW q \in Seq(S), NEW e \in S, NEW p \in 1..(Len(q) + 1)
    PROVE  /\ InsertAt(q, p, e) \in Seq(S)
           /\ Len(InsertAt(q, p, e)) = Len(q) + 1
           /\ \A i \in 1..(Len(q) + 1) :
                 InsertAt(q, p, e)[i] = IF i < p THEN q[i] ELSE IF i = p THEN e ELSE q[i - 1]
<1>. DEFINE a == SubSeq(q, 1, p - 1)
            b == SubSeq(q, p, Len(q))
<1>1. Len(q) \in Nat /\ \A i \in 1..Len(q) : q[i] \in S
  BY ElementOfSeq, LenProperties
<1>2. a \in Seq(S) /\ Len(a) = p - 1 /\ \A i \in 1..(p - 1) : a[i] = q[i]
  <2>1. \A i \in 1..(p - 1) : q[i] \in S
    BY <1>1
  <2>2. 1 \in Int /\ p - 1 \in Int
    OBVIOUS
  <2>3. /\ a \in Seq(S)
        /\ Len(a) = IF 1 <= p - 1 THEN p - 1 - 1 + 1 ELSE 0
        /\ \A i \in 1..(p - 1 - 1 + 1) : a[i] = q[1 + i - 1]
    BY <2>1, <2>2, SubSeqProperties
  <2>. HIDE DEF a
  <2>. QED
    BY <1>1, <2>3
<1>3. b \in Seq(S) /\ Len(b) = Len(q) - p + 1 /\ \A i \in 1..(Len(q) - p + 1) : b[i] = q[p + i - 1]
  <2>1. \A i \in p..Len(q) : q[i] \in S
    BY <1>1
  <2>2. p \in Int /\ Len(q) \in Int
    BY <1>1
  <2>3. /\ b \in Seq(S)
        /\ Len(b) = IF p <= Len(q) THEN Len(q) - p + 1 ELSE 0
        /\ \A i \in 1..(Len(q) - p + 1) : b[i] = q[p + i - 1]
    BY <2>1, <2>2, SubSeqProperties
  <2>. HIDE DEF b
  <2>. QED
    BY <1>1, <2>3
<1>. HIDE DEF a, b
<1>4. /\ a \o <<e>> \in Seq(S) /\ Len(a \o <<e>>) = p
      /\ \A i \in 1..p : (a \o <<e>>)[i] = IF i < p THEN q[i] ELSE e
  BY <1>1, <1>2
<1>. DEFINE c == a \o <<e>>
<1>9. c \in Seq(S) /\ Len(c) = p /\ \A i \in 1..p : c[i] = IF i < p THEN q[i] ELSE e
  BY <1>4
<1>. HIDE DEF c
<1>5. /\ c \o b \in Seq(S)
      /\ Len(c \o b) = Len(c) + Len(b)
      /\ \A i \in 1..(Len(c) + Len(b)) : (c \o b)[i] = IF i <= Len(c) THEN c[i] ELSE b[i - Len(c)]
  BY <1>3, <1>9, ConcatProperties
<1>6. InsertAt(q, p, e) = c \o b
  BY DEF InsertAt, a, b, c
<1>7. Len(c) + Len(b) = Len(q) + 1 /\ Len(c) = p
  BY <1>1, <1>3, <1>9
<1>8. \A i \in 1..(Len(q) + 1) :
         (c \o b)[i] = IF i < p THEN q[i] ELSE IF i = p THEN e ELSE q[i - 1]
  <2>1. TAKE i \in 1..(Len(q) + 1)
  <2>2. CASE i <= p
    BY <1>1, <1>5, <1>7, <1>9, <2>2
  <2>3. CASE i > p
    <3>1. i - p \in 1..(Len(q) - p + 1) /\ p + (i - p) - 1 = i - 1
      BY <1>1, <2>3
    <3>. QED
      BY <1>1, <1>3, <1>5, <1>7, <2>3, <3>1
  <2>4. i <= p \/ i > p
    BY <1>1
  <2>. QED
    BY <2>2, <2>3, <2>4
<1>. QED
  BY <1>5, <1>6, <1>7, <1>8

LEMMA RemoveAtLemma ==
    ASSUME NEW S, NEW q \in Seq(S), NEW p \in 1..Len(q)
    PROVE  /\ RemoveAt(q, p) \in Seq(S)
           /\ Len(RemoveAt(q, p)) = Len(q) - 1
           /\ \A i \in 1..(Len(q) - 1) : RemoveAt(q, p)[i] = IF i < p THEN q[i] ELSE q[i + 1]
<1>. DEFINE a == SubSeq(q, 1, p - 1)
            b == SubSeq(q, p + 1, Len(q))
<1>1. Len(q) \in Nat /\ \A i \in 1..Len(q) : q[i] \in S
  BY ElementOfSeq, LenProperties
<1>2. a \in Seq(S) /\ Len(a) = p - 1 /\ \A i \in 1..(p - 1) : a[i] = q[i]
  <2>1. \A i \in 1..(p - 1) : q[i] \in S
    BY <1>1
  <2>2. 1 \in Int /\ p - 1 \in Int
    OBVIOUS
  <2>3. /\ a \in Seq(S)
        /\ Len(a) = IF 1 <= p - 1 THEN p - 1 - 1 + 1 ELSE 0
        /\ \A i \in 1..(p - 1 - 1 + 1) : a[i] = q[1 + i - 1]
    BY <2>1, <2>2, SubSeqProperties
  <2>. HIDE DEF a
  <2>. QED
    BY <1>1, <2>3
<1>3. b \in Seq(S) /\ Len(b) = Len(q) - p /\ \A i \in 1..(Len(q) - p) : b[i] = q[p + i]
  <2>1. \A i \in (p + 1)..Len(q) : q[i] \in S
    BY <1>1
  <2>2. p + 1 \in Int /\ Len(q) \in Int
    BY <1>1
  <2>3. /\ b \in Seq(S)
        /\ Len(b) = IF p + 1 <= Len(q) THEN Len(q) - (p + 1) + 1 ELSE 0
        /\ \A i \in 1..(Len(q) - (p + 1) + 1) : b[i] = q[p + 1 + i - 1]
    BY <2>1, <2>2, SubSeqProperties
  <2>. HIDE DEF b
  <2>. QED
    BY <1>1, <2>3
<1>. HIDE DEF a, b
<1>4. /\ a \o b \in Seq(S)
      /\ Len(a \o b) = Len(a) + Len(b)
      /\ \A i \in 1..(Len(a) + Len(b)) : (a \o b)[i] = IF i <= Len(a) THEN a[i] ELSE b[i - Len(a)]
  BY <1>2, <1>3, ConcatProperties
<1>5. RemoveAt(q, p) = a \o b
  BY DEF RemoveAt, a, b
<1>6. Len(a) + Len(b) = Len(q) - 1
  BY <1>1, <1>2, <1>3
<1>7. \A i \in 1..(Len(q) - 1) : (a \o b)[i] = IF i < p THEN q[i] ELSE q[i + 1]
  <2>1. TAKE i \in 1..(Len(q) - 1)
  <2>2. CASE i < p
    BY <1>1, <1>2, <1>4, <1>6, <2>2
  <2>3. CASE i >= p
    <3>1. i - (p - 1) \in 1..(Len(q) - p) /\ p + (i - (p - 1)) = i + 1
      BY <1>1, <2>3
    <3>2. (a \o b)[i] = b[i - (p - 1)]
      BY <1>1, <1>2, <1>4, <1>6, <2>3
    <3>3. b[i - (p - 1)] = q[p + (i - (p - 1))]
      BY <1>3, <3>1
    <3>. QED
      BY <2>3, <3>1, <3>2, <3>3
  <2>4. i < p \/ i >= p
    BY <1>1
  <2>. QED
    BY <2>2, <2>3, <2>4
<1>. QED
  BY <1>4, <1>5, <1>6, <1>7

-----------------------------------------------------------------------------
\* A queue by its positions.
LEMMA QueueLemma ==
    ASSUME NEW S, NEW q \in Seq(S)
    PROVE  /\ Len(q) \in Nat /\ \A i \in 1..Len(q) : q[i] \in S
           /\ IsInjective(q) <=> \A i, j \in 1..Len(q) : q[i] = q[j] => i = j
           /\ Members(q) \subseteq S /\ Rear(q) \subseteq Members(q)
<1>1. Len(q) \in Nat /\ DOMAIN q = 1..Len(q) /\ \A i \in 1..Len(q) : q[i] \in S
  BY ElementOfSeq, LenProperties
<1>2. Members(q) \subseteq S
  BY <1>1 DEF Members
<1>3. Rear(q) \subseteq Members(q)
  BY <1>1 DEF Members, Rear
<1>. QED
  BY <1>1, <1>2, <1>3 DEF IsInjective

\* TAILQ_INSERT_TAIL of an element that is not linked.
LEMMA AppendLemma ==
    ASSUME NEW S, NEW q \in Seq(S), IsInjective(q), NEW e \in S, e \notin Members(q)
    PROVE  /\ Append(q, e) \in Seq(S) /\ IsInjective(Append(q, e))
           /\ Members(Append(q, e)) = Members(q) \cup {e}
           /\ Rear(Append(q, e)) = IF q = <<>> THEN {} ELSE Rear(q) \cup {e}
<1>. DEFINE r == Append(q, e)
<1>1. Len(q) \in Nat /\ \A i, j \in 1..Len(q) : q[i] = q[j] => i = j
  BY QueueLemma
<1>2. /\ r \in Seq(S) /\ Len(r) = Len(q) + 1
      /\ \A i \in 1..Len(q) : r[i] = q[i]
      /\ r[Len(q) + 1] = e
  BY AppendProperties
<1>. HIDE DEF r
<1>3. \A i \in 1..Len(q) : q[i] # e
  BY DEF Members
<1>4. \A i \in 1..Len(r) : i \in 1..Len(q) \/ i = Len(q) + 1
  BY <1>1, <1>2
<1>5. \A i, j \in 1..Len(r) : r[i] = r[j] => i = j
  BY <1>1, <1>2, <1>3, <1>4
<1>6. IsInjective(r)
  BY <1>2, <1>5, QueueLemma
<1>7. Members(r) = Members(q) \cup {e}
  BY <1>1, <1>2, <1>4 DEF Members
<1>8. CASE q = <<>>
  <2>1. Len(r) = 1
    BY <1>2, <1>8, EmptySeq
  <2>2. Rear(r) = {}
    BY <2>1 DEF Rear
  <2>. QED
    BY <1>2, <1>6, <1>7, <1>8, <2>2 DEF r
<1>9. CASE q # <<>>
  <2>1. Len(q) >= 1
    BY <1>1, <1>9, EmptySeq
  <2>2. \A i \in 2..Len(r) : i \in 2..Len(q) \/ i = Len(q) + 1
    BY <1>1, <1>2
  <2>3. \A i \in 2..Len(q) : i \in 2..Len(r) /\ r[i] = q[i]
    BY <1>1, <1>2
  <2>4. Len(q) + 1 \in 2..Len(r)
    BY <1>1, <1>2, <2>1
  <2>5. Rear(r) \subseteq Rear(q) \cup {e}
    BY <1>2, <2>2, <2>3 DEF Rear
  <2>6. Rear(q) \cup {e} \subseteq Rear(r)
    BY <1>2, <2>3, <2>4 DEF Rear
  <2>. QED
    BY <1>2, <1>6, <1>7, <1>9, <2>5, <2>6 DEF r
<1>. QED
  BY <1>8, <1>9

\* TAILQ_REMOVE.  What is at the head afterwards is not behind any more.
LEMMA RemovedLemma ==
    ASSUME NEW S, NEW q \in Seq(S), IsInjective(q), NEW e
    PROVE  /\ Removed(q, e) \in Seq(S) /\ IsInjective(Removed(q, e))
           /\ Members(Removed(q, e)) = Members(q) \ {e}
           /\ Rear(Removed(q, e)) =
                 {x \in Rear(q) : x # e /\ ~(Len(q) > 1 /\ q[1] = e /\ q[2] = x)}
<1>. DEFINE r == Removed(q, e)
            p == Position(q, e)
<1>1. Len(q) \in Nat /\ \A i, j \in 1..Len(q) : q[i] = q[j] => i = j
  BY QueueLemma
<1>2. CASE e \notin Members(q)
  <2>1. r = q
    BY <1>2 DEF Removed
  <2>2. \A i \in 1..Len(q) : q[i] # e
    BY <1>2 DEF Members
  <2>3. \A x \in Rear(q) : x # e
    BY <1>1, <2>2 DEF Rear
  <2>4. Len(q) > 1 => q[1] # e
    BY <1>1, <2>2
  <2>. QED
    BY <1>2, <2>1, <2>3, <2>4 DEF r
<1>3. CASE e \in Members(q)
  <2>1. p \in 1..Len(q) /\ q[p] = e
    BY <1>3 DEF Members, Position
  <2>2. r = RemoveAt(q, p)
    BY <1>3 DEF Removed
  <2>. HIDE DEF p, r
  <2>3. /\ r \in Seq(S) /\ Len(r) = Len(q) - 1
        /\ \A i \in 1..(Len(q) - 1) : r[i] = IF i < p THEN q[i] ELSE q[i + 1]
    BY <2>1, <2>2, RemoveAtLemma
  <2>. DEFINE at(i) == IF i < p THEN i ELSE i + 1
  <2>4. \A i \in 1..Len(r) : at(i) \in 1..Len(q) /\ at(i) # p /\ r[i] = q[at(i)]
    BY <1>1, <2>1, <2>3
  <2>5. \A k \in 1..Len(q) : k # p => \E i \in 1..Len(r) : at(i) = k
    <3>1. TAKE k \in 1..Len(q)
    <3>2. CASE k < p
      BY <1>1, <2>1, <2>3, <3>2
    <3>3. CASE k > p
      <4>1. k - 1 \in 1..Len(r) /\ at(k - 1) = k
        BY <1>1, <2>1, <2>3, <3>3
      <4>. QED
        BY <4>1
    <3>. QED
      BY <1>1, <2>1, <3>2, <3>3
  <2>6. \A i, j \in 1..Len(r) : at(i) = at(j) => i = j
    BY <1>1, <2>1, <2>3
  <2>7. \A i \in 1..Len(r) : (i >= 2 <=> at(i) >= 2 /\ ~(p = 1 /\ at(i) = 2))
    BY <1>1, <2>1, <2>3
  <2>. HIDE DEF at
  <2>8. \A i, j \in 1..Len(r) : r[i] = r[j] => i = j
    BY <1>1, <2>4, <2>6
  <2>9. IsInjective(r)
    BY <2>3, <2>8, QueueLemma
  <2>10. Members(r) = Members(q) \ {e}
    <3>1. Members(r) \subseteq Members(q) \ {e}
      BY <1>1, <2>1, <2>4 DEF Members
    <3>2. Members(q) \ {e} \subseteq Members(r)
      BY <2>1, <2>4, <2>5 DEF Members
    <3>. QED
      BY <3>1, <3>2
  <2>11. Rear(r) = {x \in Rear(q) : x # e /\ ~(Len(q) > 1 /\ q[1] = e /\ q[2] = x)}
    <3>1. ASSUME NEW x \in Rear(r)
          PROVE  x \in Rear(q) /\ x # e /\ ~(Len(q) > 1 /\ q[1] = e /\ q[2] = x)
      <4>1. PICK i \in 2..Len(r) : x = r[i]
        BY <3>1 DEF Rear
      <4>2. i \in 1..Len(r) /\ i >= 2
        BY <2>3, <4>1
      <4>3. at(i) \in 2..Len(q) /\ at(i) # p /\ x = q[at(i)] /\ ~(p = 1 /\ at(i) = 2)
        BY <1>1, <2>4, <2>7, <4>1, <4>2
      <4>4. x \in Rear(q) /\ x # e
        BY <1>1, <2>1, <4>3 DEF Rear
      <4>5. ASSUME Len(q) > 1, q[1] = e, q[2] = x PROVE FALSE
        <5>1. 1 \in 1..Len(q) /\ 2 \in 1..Len(q) /\ at(i) \in 1..Len(q)
          BY <1>1, <4>3, <4>5
        <5>2. p = 1 /\ at(i) = 2
          BY <1>1, <2>1, <4>3, <4>5, <5>1
        <5>. QED
          BY <4>3, <5>2
      <4>. QED
        BY <4>4, <4>5
    <3>2. ASSUME NEW x \in Rear(q), x # e, ~(Len(q) > 1 /\ q[1] = e /\ q[2] = x)
          PROVE  x \in Rear(r)
      <4>1. PICK k \in 2..Len(q) : x = q[k]
        BY <3>2 DEF Rear
      <4>2. k \in 1..Len(q) /\ k # p /\ Len(q) > 1
        BY <1>1, <2>1, <3>2, <4>1
      <4>3. ~(p = 1 /\ k = 2)
        BY <2>1, <3>2, <4>1, <4>2
      <4>4. PICK i \in 1..Len(r) : at(i) = k
        BY <2>5, <4>2
      <4>5. i \in 2..Len(r) /\ r[i] = x
        BY <1>1, <2>3, <2>4, <2>7, <4>1, <4>3, <4>4
      <4>. QED
        BY <4>5 DEF Rear
    <3>. QED
      BY <3>1, <3>2
  <2>. QED
    BY <2>3, <2>9, <2>10, <2>11 DEF r
<1>. QED
  BY <1>2, <1>3

\* TAILQ_INSERT_AFTER of an element that is not linked: it is not the head.
LEMMA InsertedAfterLemma ==
    ASSUME NEW S, NEW q \in Seq(S), IsInjective(q), NEW pre \in Members(q),
           NEW e \in S, e \notin Members(q)
    PROVE  /\ InsertedAfter(q, pre, e) \in Seq(S) /\ IsInjective(InsertedAfter(q, pre, e))
           /\ Members(InsertedAfter(q, pre, e)) = Members(q) \cup {e}
           /\ Rear(InsertedAfter(q, pre, e)) = Rear(q) \cup {e}
           /\ InsertedAfter(q, pre, e)[1] = q[1]
<1>. DEFINE r == InsertedAfter(q, pre, e)
            p == Position(q, pre) + 1
<1>1. Len(q) \in Nat /\ \A i, j \in 1..Len(q) : q[i] = q[j] => i = j
  BY QueueLemma
<1>2. Position(q, pre) \in 1..Len(q)
  BY DEF Members, Position
<1>3. p \in 2..(Len(q) + 1) /\ p \in 1..(Len(q) + 1)
  BY <1>1, <1>2
<1>4. r = InsertAt(q, p, e)
  BY DEF InsertedAfter
<1>. HIDE DEF p, r
<1>5. /\ r \in Seq(S) /\ Len(r) = Len(q) + 1
      /\ \A i \in 1..(Len(q) + 1) : r[i] = IF i < p THEN q[i] ELSE IF i = p THEN e ELSE q[i - 1]
  <2>1. /\ InsertAt(q, p, e) \in Seq(S) /\ Len(InsertAt(q, p, e)) = Len(q) + 1
        /\ \A i \in 1..(Len(q) + 1) :
              InsertAt(q, p, e)[i] = IF i < p THEN q[i] ELSE IF i = p THEN e ELSE q[i - 1]
    BY <1>3, InsertAtLemma
  <2>. QED
    BY <1>4, <2>1
<1>. DEFINE old(i) == IF i < p THEN i ELSE i - 1
<1>6. \A i \in 1..Len(r) : i # p => old(i) \in 1..Len(q) /\ r[i] = q[old(i)]
  BY <1>1, <1>3, <1>5
<1>7. \A k \in 1..Len(q) : \E i \in 1..Len(r) : i # p /\ old(i) = k
  <2>1. TAKE k \in 1..Len(q)
  <2>2. CASE k < p
    BY <1>1, <1>3, <1>5, <2>2
  <2>3. CASE k >= p
    <3>1. k + 1 \in 1..Len(r) /\ k + 1 # p /\ old(k + 1) = k
      BY <1>1, <1>3, <1>5, <2>3
    <3>. QED
      BY <3>1
  <2>. QED
    BY <1>1, <1>3, <2>2, <2>3
<1>8. \A i, j \in 1..Len(r) : i # p /\ j # p /\ old(i) = old(j) => i = j
  BY <1>1, <1>3, <1>5
<1>9. \A i \in 1..Len(r) : i # p => (i >= 2 <=> old(i) >= 2)
  BY <1>1, <1>3, <1>5
<1>10. p \in 2..Len(r) /\ p \in 1..Len(r) /\ r[p] = e /\ r[1] = q[1]
  BY <1>1, <1>3, <1>5
<1>. HIDE DEF old
<1>11. \A i \in 1..Len(q) : q[i] # e
  BY DEF Members
<1>12. \A i, j \in 1..Len(r) : r[i] = r[j] => i = j
  <2>1. \A i \in 1..Len(r) : i # p => r[i] # e
    BY <1>6, <1>11
  <2>2. \A i, j \in 1..Len(r) : i # p /\ j # p /\ r[i] = r[j] => i = j
    BY <1>1, <1>6, <1>8
  <2>. QED
    BY <1>10, <2>1, <2>2
<1>13. IsInjective(r)
  BY <1>5, <1>12, QueueLemma
<1>14. Members(r) = Members(q) \cup {e}
  <2>1. Members(r) \subseteq Members(q) \cup {e}
    BY <1>6, <1>10 DEF Members
  <2>2. Members(q) \cup {e} \subseteq Members(r)
    <3>1. ASSUME NEW k \in 1..Len(q) PROVE q[k] \in Members(r)
      <4>1. PICK i \in 1..Len(r) : i # p /\ old(i) = k
        BY <1>7
      <4>. QED
        BY <1>6, <4>1 DEF Members
    <3>2. e \in Members(r)
      BY <1>10 DEF Members
    <3>. QED
      BY <3>1, <3>2 DEF Members
  <2>. QED
    BY <2>1, <2>2
<1>15. Rear(r) \subseteq Rear(q) \cup {e}
  <2>1. SUFFICES ASSUME NEW i \in 2..Len(r), i # p PROVE r[i] \in Rear(q)
    BY <1>10 DEF Rear
  <2>2. i \in 1..Len(r) /\ i >= 2
    BY <1>5
  <2>3. old(i) \in 2..Len(q) /\ r[i] = q[old(i)]
    BY <1>1, <1>6, <1>9, <2>1, <2>2
  <2>. QED
    BY <2>3 DEF Rear
<1>16. Rear(q) \cup {e} \subseteq Rear(r)
  <2>1. SUFFICES ASSUME NEW k \in 2..Len(q) PROVE q[k] \in Rear(r)
    BY <1>10 DEF Rear
  <2>2. k \in 1..Len(q) /\ k >= 2
    BY <1>1
  <2>3. PICK i \in 1..Len(r) : i # p /\ old(i) = k
    BY <1>7, <2>2
  <2>4. i \in 2..Len(r) /\ r[i] = q[k]
    BY <1>1, <1>5, <1>6, <1>9, <2>2, <2>3
  <2>. QED
    BY <2>4 DEF Rear
<1>. QED
  BY <1>5, <1>10, <1>13, <1>14, <1>15, <1>16 DEF r

\* A removal, and the tail.
LEMMA RequeuedLemma ==
    ASSUME NEW S, NEW q \in Seq(S), IsInjective(q), NEW e \in S
    PROVE  /\ Requeued(q, e) \in Seq(S) /\ IsInjective(Requeued(q, e))
           /\ Members(Requeued(q, e)) = Members(q) \cup {e}
<1>. DEFINE r == Removed(q, e)
<1>1. r \in Seq(S) /\ IsInjective(r) /\ Members(r) = Members(q) \ {e}
  BY RemovedLemma
<1>2. Requeued(q, e) = Append(r, e)
  BY DEF Requeued
<1>. HIDE DEF r
<1>3. e \notin Members(r)
  BY <1>1
<1>. QED
  BY <1>1, <1>2, <1>3, AppendLemma
-----------------------------------------------------------------------------
(* What the operations do to the order of the others. *)

\* Inserting keeps it, and what was in front of the place is in front of the new one.
LEMMA InsertOrder ==
    ASSUME NEW S, NEW q \in Seq(S), NEW e \in S, NEW p \in 1..(Len(q) + 1)
    PROVE  /\ \A x, y : Before(q, x, y) => Before(InsertAt(q, p, e), x, y)
           /\ \A i \in 1..Len(q) : i < p => Before(InsertAt(q, p, e), q[i], e)
<1>. DEFINE r == InsertAt(q, p, e)
            new(i) == IF i < p THEN i ELSE i + 1
<1>1. /\ Len(q) \in Nat /\ Len(r) = Len(q) + 1
      /\ \A i \in 1..(Len(q) + 1) : r[i] = IF i < p THEN q[i] ELSE IF i = p THEN e ELSE q[i - 1]
  BY InsertAtLemma, LenProperties
<1>. HIDE DEF r
<1>2. \A i \in 1..Len(q) : new(i) \in 1..Len(r) /\ r[new(i)] = q[i]
  <2>1. TAKE i \in 1..Len(q)
  <2>2. CASE i < p
    BY <1>1, <2>2
  <2>3. CASE ~(i < p)
    <3>1. i + 1 \in 1..(Len(q) + 1) /\ ~(i + 1 < p) /\ i + 1 # p /\ (i + 1) - 1 = i
      BY <1>1, <2>3
    <3>2. r[i + 1] = q[i]
      BY <1>1, <3>1
    <3>. QED
      BY <1>1, <2>3, <3>1, <3>2
  <2>. QED
    BY <2>2, <2>3
<1>3. \A i, j \in 1..Len(q) : i < j => new(i) < new(j)
  BY <1>1
<1>4. \A i \in 1..Len(q) : i < p => new(i) < p
  OBVIOUS
<1>5. p \in 1..Len(r) /\ r[p] = e
  BY <1>1
<1>. HIDE DEF new
<1>6. ASSUME NEW x, NEW y, Before(q, x, y) PROVE Before(r, x, y)
  <2>1. PICK i \in 1..Len(q), j \in 1..Len(q) : i < j /\ q[i] = x /\ q[j] = y
    BY <1>6 DEF Before
  <2>. QED
    BY <1>2, <1>3, <2>1 DEF Before
<1>7. ASSUME NEW i \in 1..Len(q), i < p PROVE Before(r, q[i], e)
  BY <1>2, <1>4, <1>5, <1>7 DEF Before
<1>. QED
  BY <1>6, <1>7 DEF r

\* Adding at the tail.
LEMMA AppendOrder ==
    ASSUME NEW S, NEW q \in Seq(S), NEW e \in S
    PROVE  /\ \A x, y : Before(q, x, y) => Before(Append(q, e), x, y)
           /\ \A x \in Members(q) : Before(Append(q, e), x, e)
<1>. DEFINE r == Append(q, e)
<1>1. /\ Len(q) \in Nat /\ Len(r) = Len(q) + 1
      /\ \A i \in 1..Len(q) : r[i] = q[i]
      /\ r[Len(q) + 1] = e
  BY AppendProperties, LenProperties
<1>. HIDE DEF r
<1>2. Len(q) + 1 \in 1..Len(r) /\ \A i \in 1..Len(q) : i \in 1..Len(r) /\ i < Len(q) + 1
  BY <1>1
<1>3. \A x, y : Before(q, x, y) => Before(r, x, y)
  BY <1>1, <1>2 DEF Before
<1>4. \A x \in Members(q) : Before(r, x, e)
  BY <1>1, <1>2 DEF Before, Members
<1>. QED
  BY <1>3, <1>4 DEF r

\* Removing one, for the others.
LEMMA RemovedOrder ==
    ASSUME NEW S, NEW q \in Seq(S), IsInjective(q), NEW e
    PROVE  \A x, y : Before(q, x, y) /\ x # e /\ y # e => Before(Removed(q, e), x, y)
<1>1. CASE e \notin Members(q)
  BY <1>1 DEF Removed
<1>2. CASE e \in Members(q)
  <2>. DEFINE p == Position(q, e)
              r == RemoveAt(q, p)
              new(i) == IF i < p THEN i ELSE i - 1
  <2>1. p \in 1..Len(q) /\ q[p] = e
    BY <1>2 DEF Members, Position
  <2>. HIDE DEF p
  <2>2. /\ Len(q) \in Nat /\ Len(r) = Len(q) - 1
        /\ \A i \in 1..(Len(q) - 1) : r[i] = IF i < p THEN q[i] ELSE q[i + 1]
    BY <2>1, RemoveAtLemma, LenProperties
  <2>. HIDE DEF r
  <2>3. \A i \in 1..Len(q) : i # p => new(i) \in 1..Len(r) /\ r[new(i)] = q[i]
    <3>1. TAKE i \in 1..Len(q)
    <3>2. CASE i < p
      BY <2>1, <2>2, <3>2
    <3>3. CASE i > p
      <4>1. i - 1 \in 1..(Len(q) - 1) /\ ~(i - 1 < p) /\ (i - 1) + 1 = i
        BY <2>1, <2>2, <3>3
      <4>2. r[i - 1] = q[i]
        BY <2>2, <4>1
      <4>. QED
        BY <2>1, <2>2, <3>3, <4>1, <4>2
    <3>. QED
      BY <2>1, <2>2, <3>2, <3>3
  <2>4. \A i, j \in 1..Len(q) : i < j /\ i # p /\ j # p => new(i) < new(j)
    BY <2>1, <2>2
  <2>. HIDE DEF new
  <2>5. ASSUME NEW x, NEW y, Before(q, x, y), x # e, y # e PROVE Before(r, x, y)
    <3>1. PICK i \in 1..Len(q), j \in 1..Len(q) : i < j /\ q[i] = x /\ q[j] = y
      BY <2>5 DEF Before
    <3>2. i # p /\ j # p
      BY <2>1, <2>5, <3>1
    <3>. QED
      BY <2>3, <2>4, <3>1, <3>2 DEF Before
  <2>. QED
    BY <1>2, <2>5 DEF Removed, r, p
<1>. QED
  BY <1>1, <1>2

\* Taking the first one.
LEMMA TailOrder ==
    ASSUME NEW S, NEW q \in Seq(S), q # <<>>, IsInjective(q)
    PROVE  /\ Tail(q) \in Seq(S) /\ Members(Tail(q)) = Members(q) \ {q[1]}
           /\ \A x, y : Before(q, x, y) /\ x # q[1] => Before(Tail(q), x, y)
<1>. DEFINE r == Tail(q)
<1>1. Len(q) \in Nat \ {0} /\ \A i, j \in 1..Len(q) : q[i] = q[j] => i = j
  BY EmptySeq, QueueLemma
<1>2. r \in Seq(S) /\ Len(r) = Len(q) - 1 /\ \A i \in 1..Len(r) : r[i] = q[i + 1]
  BY <1>1, HeadTailProperties
<1>. HIDE DEF r
<1>3. \A i \in 1..Len(r) : i + 1 \in 1..Len(q) /\ i + 1 # 1
  BY <1>1, <1>2
<1>4. ASSUME NEW i \in 1..Len(q), i # 1
      PROVE  i - 1 \in 1..Len(r) /\ r[i - 1] = q[i]
  <2>1. i - 1 \in 1..Len(r) /\ (i - 1) + 1 = i
    BY <1>1, <1>2, <1>4
  <2>. QED
    BY <1>2, <2>1
<1>5. Members(r) = Members(q) \ {q[1]}
  <2>1. 1 \in 1..Len(q)
    BY <1>1
  <2>2. Members(r) \subseteq Members(q) \ {q[1]}
    BY <1>1, <1>2, <1>3, <2>1 DEF Members
  <2>3. Members(q) \ {q[1]} \subseteq Members(r)
    BY <1>4 DEF Members
  <2>. QED
    BY <2>2, <2>3
<1>6. ASSUME NEW x, NEW y, Before(q, x, y), x # q[1] PROVE Before(r, x, y)
  <2>1. PICK i \in 1..Len(q), j \in 1..Len(q) : i < j /\ q[i] = x /\ q[j] = y
    BY <1>6 DEF Before
  <2>2. i # 1 /\ j # 1 /\ i - 1 < j - 1
    BY <1>6, <2>1
  <2>. QED
    BY <1>4, <2>1, <2>2 DEF Before
<1>. QED
  BY <1>2, <1>5, <1>6 DEF r
=============================================================================
