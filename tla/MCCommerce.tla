----------------------------- MODULE MCCommerce -----------------------------
(***************************************************************************)
(* Small instances of the components behind purchases, owner commands and  *)
(* stored messages, which one run checks side by side.                     *)
(* `focus' says which component a behaviour is about; the others stay in   *)
(* their initial states, so a state is told apart by the variables of its  *)
(* component alone (Seen).                                                 *)
(***************************************************************************)
EXTENDS Negotiation, OwnerCommand, EconomicSend, Mailbox, RetriedDelivery,
        OwnerDecisions, TLC

CONSTANTS
    n1, n2,                                    \* exchanges
    a1, a2, a3, f1, f2,                        \* economic actions, fences
    s1, s2, b1, k1, k2, r1, r2, r3, r4, r5,    \* the mailbox relay
    p1, p2, p3                                 \* connections to the local sockets

VARIABLE focus

Offer(price) == [price |-> price, notAfter |-> 2, class |-> "mandated", own |-> TRUE]
MCOffers == {Offer(1), Offer(2)}

MCGeneration == a1 :> 1 @@ a2 :> 2 @@ a3 :> 2
MCWriterFence == a1 :> f1 @@ a2 :> f2 @@ a3 :> f1

MCBoxOf == s1 :> b1 @@ s2 :> b1
MCExpiresAt == k1 :> 3 @@ k2 :> 3
Asks(op, slot, content) == [op |-> op, slot |-> slot, content |-> content]
MCAccess == r1 :> Asks("deposit", s1, k1) @@ r2 :> Asks("deposit", s1, k2)
            @@ r3 :> Asks("delete", s1, k1) @@ r4 :> Asks("deposit", s2, k1)
            @@ r5 :> Asks("read", s1, k1)
MCRequestExpiry == r1 :> 2 @@ r2 :> 3 @@ r3 :> 3 @@ r4 :> 3 @@ r5 :> 3

MCPrincipalOf == p1 :> "owner" @@ p2 :> "owner" @@ p3 :> "runtime"

Components == {"negotiation", "command", "economic", "mailbox", "retry", "decision"}

Init ==
    /\ focus \in Components
    /\ NegotiationInit
    /\ OwnerCommandInit
    /\ EconomicInit
    /\ MailboxInit
    /\ RetryInit
    /\ OwnerDecisionsInit

Next ==
    \/ /\ focus = "negotiation" /\ NegotiationNext
       /\ UNCHANGED <<focus, ownerCommandVars, economicVars, mailboxVars, retryVars,
                      ownerDecisionVars>>
    \/ /\ focus = "command" /\ OwnerCommandNext
       /\ UNCHANGED <<focus, negotiationVars, economicVars, mailboxVars, retryVars,
                      ownerDecisionVars>>
    \/ /\ focus = "economic" /\ EconomicNext
       /\ UNCHANGED <<focus, negotiationVars, ownerCommandVars, mailboxVars, retryVars,
                      ownerDecisionVars>>
    \/ /\ focus = "mailbox" /\ MailboxNext
       /\ UNCHANGED <<focus, negotiationVars, ownerCommandVars, economicVars, retryVars,
                      ownerDecisionVars>>
    \/ /\ focus = "retry" /\ RetryNext
       /\ UNCHANGED <<focus, negotiationVars, ownerCommandVars, economicVars, mailboxVars,
                      ownerDecisionVars>>
    \/ /\ focus = "decision" /\ OwnerDecisionsNext
       /\ UNCHANGED <<focus, negotiationVars, ownerCommandVars, economicVars, mailboxVars,
                      retryVars>>

Seen ==
    <<focus, CASE focus = "negotiation" -> negotiationVars
                 [] focus = "command" -> ownerCommandVars
                 [] focus = "economic" -> economicVars
                 [] focus = "mailbox" -> mailboxVars
                 [] focus = "retry" -> retryVars
                 [] focus = "decision" -> ownerDecisionVars>>

\* The exchanges are alike.
Alike == Permutations({n1, n2})

\* The records of every component keep their shape.
CommerceTypeOK ==
    /\ NegotiationTypeOK
    /\ OwnerCommandTypeOK
    /\ EconomicTypeOK
    /\ MailboxTypeOK
    /\ OwnerDecisionsTypeOK
=============================================================================
