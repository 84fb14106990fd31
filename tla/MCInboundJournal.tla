-------------------------- MODULE MCInboundJournal --------------------------
(* Instances of InboundJournal for TLC. *)
EXTENDS InboundJournal

CONSTANTS e1, e2, s1, r1, r2, w1, w2

OneSession == [e \in Events |-> s1]

OneKind == [e \in Events |-> "message.v1"]
AnyKind == [w \in Workers |-> {"message.v1"}]
\* Two adapters, each for one of the two kinds.
TwoKinds == [e \in Events |-> IF e = e1 THEN "message.v1" ELSE "history.v1"]
TypedAdapters == [w \in Workers |-> IF w = w1 THEN {"message.v1"} ELSE {"history.v1"}]

NeverExpires == [e \in Events |-> 0]
=============================================================================
