-------------------------- MODULE MCSpendAuthority --------------------------
(* Instances of SpendAuthority for TLC. *)
EXTENDS SpendAuthority

CONSTANTS p1, p2, p3, k1

Act(effect, what, derived, wording) ==
    [effect |-> effect, what |-> what, derived |-> derived, wording |-> wording]

\* Every purchase, on the Agent's own initiative and described in one way.
DescribedOnce == {Act("spend", p, FALSE, 1) : p \in Purchases}
\* One purchase once more, after something that was received.
DescribedTwice == DescribedOnce \cup {Act("spend", p1, TRUE, 1)}
\* Two wordings of one purchase, and a tool invocation and physical I/O under one
\* idempotency key.
Reworded == {Act("spend", p1, FALSE, 1), Act("spend", p1, FALSE, 2),
             Act("tool-call", k1, FALSE, 1), Act("physical-io", k1, FALSE, 2)}

\* Two of three purchases fit.
Total2 == [m \in Mandates |-> 2]
Unit == [p \in Purchases |-> 1]
One == [m \in Mandates |-> 1]
\* The mandate outlives the instance, and so do all terms but those of p3.
Late == [m \in Mandates |-> MaxTime + 1]
Lasting == [p \in Purchases |-> IF p = p3 THEN 2 ELSE MaxTime + 1]
=============================================================================
