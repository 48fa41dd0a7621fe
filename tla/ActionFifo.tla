----------------------------- MODULE ActionFifo -----------------------------
(***************************************************************************)
(* What src/cpe/tl promises about actions (tl_action_add): a bounded queue *)
(* served in the order of the calls.  An action keeps its place until its  *)
(* dispatcher has returned.                                                *)
(***************************************************************************)
EXTENDS Naturals, Sequences

CONSTANTS Tl, None, Capacity

VARIABLES pending, current

Init == pending = <<>> /\ current = None

Add(t) ==
    /\ Len(pending) < Capacity
    /\ pending' = Append(pending, t)
    /\ UNCHANGED current

Start ==
    /\ current = None /\ pending # <<>>
    /\ current' = Head(pending)
    /\ UNCHANGED pending

Done ==
    /\ current # None
    /\ pending' = Tail(pending) /\ current' = None

\* An action of a timeline without dispatcher.
Drop ==
    /\ current = None /\ pending # <<>>
    /\ pending' = Tail(pending)
    /\ UNCHANGED current

Next == (\E t \in Tl : Add(t)) \/ Start \/ Done \/ Drop

Spec == Init /\ [][Next]_<<pending, current>>
=============================================================================
