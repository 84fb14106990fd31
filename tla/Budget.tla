------------------------------- MODULE Budget -------------------------------
(***************************************************************************)
(* A budget: what was spent, and what is held for purchases that may still *)
(* happen (pkg/negotiation/budget.go).  Reserve, Commit and Release work   *)
(* on the copy a Budget object loaded when it was opened and then record   *)
(* the whole copy, so an operation here takes that copy and gives back the *)
(* copy that is recorded.  Amounts are naturals: the code's are decimal    *)
(* strings of unbounded integers.                                          *)
(***************************************************************************)
EXTENDS Functions, Naturals

EmptyBudget == [spent |-> 0, reserved |-> <<>>]

Held(b, id) == id \in DOMAIN b.reserved

\* committedLocked: spent and everything held.
Committed(b) == b.spent + SumFunction(b.reserved)

\* A second hold for the same id replaces the first.
WithHold(b, id, amount) ==
    [b EXCEPT !.reserved = [k \in DOMAIN b.reserved \cup {id} |->
                              IF k = id THEN amount ELSE b.reserved[k]]]

WithoutHold(b, id) ==
    [b EXCEPT !.reserved = Restrict(b.reserved, DOMAIN b.reserved \ {id})]

\* Faulty variant: the hold ends and nothing is spent.
WithSpendUncounted(b, id) == WithoutHold(b, id)
\* The hold becomes a spend.
WithSpend(b, id) ==
    [WithoutHold(b, id) EXCEPT !.spent = b.spent + b.reserved[id]]
=============================================================================
