--------------------------- MODULE EconomicStore ---------------------------
(***************************************************************************)
(* The record of economic actions (pkg/economicaction/store.go): for one   *)
(* owner and Agent the highest writer generation and its fence, and how    *)
(* far each action came.  An operation takes the document in memory and    *)
(* gives the one it persists; the whole document is written every time.    *)
(* An action commits its generation, its fence and its exact request.      *)
(***************************************************************************)
LOCAL INSTANCE Naturals
LOCAL INSTANCE FiniteSets

CONSTANTS
    EconomicActions,
    Generation,       \* of the writer an action was authorized for
    WriterFence,      \* the fence an action carries
    MaxActions,       \* capacity of the store
    NoFence

ASSUME GenerationAssumption ==
    Generation \in [EconomicActions -> Nat \ {0}] /\ NoFence \notin {WriterFence[a] : a \in EconomicActions}

EmptyDocument ==
    [highWater |-> 0, fence |-> NoFence, state |-> [a \in EconomicActions |-> "unknown"]]

\* Faulty variant: a generation below the high-water is let through.
AdmissibleStale(doc, a) == TRUE
\* Neither behind the high-water nor a second fence for the same generation.
Admissible(doc, a) ==
    /\ Generation[a] >= doc.highWater
    /\ Generation[a] = doc.highWater /\ doc.fence # NoFence => doc.fence = WriterFence[a]

RoomForAction(doc) ==
    Cardinality({a \in EconomicActions : doc.state[a] # "unknown"}) < MaxActions

\* Faulty variant: the action is recorded and the high-water is not.
AdmittedUnmarked(doc, a) == [doc EXCEPT !.state[a] = "prepared"]
\* Admit of an action that is not recorded: prepared, under its generation.
Admitted(doc, a) ==
    [highWater |-> IF Generation[a] > doc.highWater \/ doc.fence = NoFence
                   THEN Generation[a] ELSE doc.highWater,
     fence |-> IF Generation[a] > doc.highWater \/ doc.fence = NoFence
               THEN WriterFence[a] ELSE doc.fence,
     state |-> [doc.state EXCEPT ![a] = "prepared"]]

\* Submit moves prepared to submitted and leaves what is further alone.
Submitted(doc, a) ==
    [doc EXCEPT !.state[a] = IF @ = "prepared" THEN "submitted" ELSE @]

\* Accept, of what is prepared or submitted; once accepted it stays so.
Accepted(doc, a) == [doc EXCEPT !.state[a] = "accepted"]
=============================================================================
