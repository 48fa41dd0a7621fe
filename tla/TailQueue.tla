------------------------------ MODULE TailQueue ------------------------------
(***************************************************************************)
(* The tail queues of src/include/cpe/pal/pal_queue.h (TAILQ) as sequences *)
(* without repetition: an element is linked by its own entry, so it is in  *)
(* a queue at most once and TAILQ_REMOVE needs only the element.           *)
(***************************************************************************)
EXTENDS Naturals, Sequences, SequencesExt

Members(q) == {q[i] : i \in 1..Len(q)}

Position(q, e) == CHOOSE i \in 1..Len(q) : q[i] = e

\* e is linked before f.
Before(q, e, f) == \E i, j \in 1..Len(q) : i < j /\ q[i] = e /\ q[j] = f

\* TAILQ_REMOVE, where the code tests first whether e is linked.
Removed(q, e) == IF e \in Members(q) THEN RemoveAt(q, Position(q, e)) ELSE q

\* TAILQ_INSERT_AFTER(q, pre, e).
InsertedAfter(q, pre, e) == InsertAt(q, Position(q, pre) + 1, e)

\* TAILQ_INSERT_TAIL after a removal.
Requeued(q, e) == Append(Removed(q, e), e)
=============================================================================
