---------------------------- MODULE Negotiation ----------------------------
(***************************************************************************)
(* Negotiations of a purchase under one mandate, the budget they share,    *)
(* and the Accepted Quote that turns an agreement into a commitment        *)
(* (pkg/negotiation, pkg/eventlog/{negotiation,budget,escrow_locator}.go,  *)
(* pkg/chainquote).                                                        *)
(*                                                                         *)
(* An exchange is an object in memory and a snapshot on disk; the budget   *)
(* is an object in memory and a ledger on disk.  An operation writes the   *)
(* snapshot and the ledger one after the other.  Either write can fail,    *)
(* before the rename or after it, and the process can end between the two; *)
(* opening the journal again repairs the seam (reconcileCommerce).         *)
(***************************************************************************)
EXTENDS Budget, FiniteSets, FiniteSetsExt, Functions, Naturals

CONSTANTS
    Exchanges,        \* negotiation identifiers, each used once
    Offers,           \* the terms the parties can name
    Commitments, Escrows,
    MaxTotal,         \* of the mandate
    ApprovalAbove,    \* of the mandate
    MaxCounteroffers, \* of the mandate
    MandateExpires,   \* of the mandate
    BudgetTotal,      \* what all exchanges together may commit
    MaxOpen,          \* MaxNegotiations
    MaxGeneration, MaxClock, MaxWriteFaults, \* bounds of the model
    Nil

\* Terms: their price, when they lapse, the capability class they buy, and
\* whether they name this counterparty and this network.
TermsSet == [price : Nat, notAfter : Nat, class : {"mandated", "other"}, own : BOOLEAN]

ASSUME OffersAssumption == Offers \subseteq TermsSet /\ Nil \notin Offers

Settled == {"finalized", "rejected", "withdrawn", "expired"}
Agreed == {"intent-agreed", "canonicalization-pending"}
States == {"discussing", "proposal-pending", "counterproposal-pending"}
             \cup Agreed \cup Settled

VARIABLES
    mem,        \* the objects in memory
    disk,       \* their snapshots
    bud,        \* the Budget object
    ledger,     \* its ledger
    chain,      \* what each escrow account holds in finalized state
    location,   \* where the journal says the escrow of a commitment is
    clock,
    decided,    \* history: the owner approved the agreement in force
    used,       \* history: identifiers already started
    writeFaults

negotiationVars ==
    <<mem, disk, bud, ledger, chain, location, clock, decided, used, writeFaults>>
outside == <<chain, location, clock, used>>

NegotiationInit ==
    /\ mem = [i \in Exchanges |-> Nil]
    /\ disk = [i \in Exchanges |-> Nil]
    /\ bud = EmptyBudget
    /\ ledger = EmptyBudget
    /\ chain = [a \in Escrows |-> Nil]
    /\ location = [c \in Commitments |-> Nil]
    /\ clock = 1
    /\ decided = [i \in Exchanges |-> FALSE]
    /\ used = {}
    /\ writeFaults = 0

\* The object New returns.
NewExchange ==
    [state |-> "discussing", generation |-> 0, counteroffers |-> 0, onTable |-> Nil,
     agreed |-> Nil, needsApproval |-> FALSE, approval |-> Nil, commitment |-> Nil,
     poisoned |-> FALSE]

\* What is written: everything but the mark of a failed write.
Snapshot(n) == [n EXCEPT !.poisoned = FALSE]

\* Snapshot.Validate, on writing and on reading: no approval from a later
\* generation, and no finalized exchange without its commitment.
ValidSnapshot(s) ==
    /\ s.approval # Nil => s.approval.generation <= s.generation
    /\ s.state = "finalized" => s.commitment # Nil

\* Mandate.Validate: an owner's approval is asked for below the ceiling, not above.
ValidMandate ==
    /\ ApprovalAbove <= MaxTotal
    /\ MaxCounteroffers > 0 /\ MandateExpires > 0

Live == ValidMandate /\ clock < MandateExpires

\* permits: inside the mandate at all.
Permits(t) ==
    /\ Live
    /\ t.class = "mandated"
    /\ t.price <= MaxTotal
    /\ clock < t.notAfter
    /\ t.notAfter <= MandateExpires

NeedsOwner(t) == t.price > ApprovalAbove

\* bindsCounterparty and bindsNetwork.
Binds(t) == t.own

Open(n) ==
    /\ n # Nil
    /\ ~n.poisoned
    /\ n.state \notin Settled \cup Agreed
    /\ Live

\* How a durable write can end: done, refused with the old record in place,
\* or an error although the new record landed.
Outcomes == IF writeFaults < MaxWriteFaults THEN {"ok", "lost", "landed"} ELSE {"ok"}

Faulted(k) == writeFaults' = writeFaults + k

\* Faulty variant: a hold of a finalized exchange goes back with the others.
dispositionForgetful(i, d) ==
    IF d[i] # Nil /\ d[i].state \in Agreed THEN "stands" ELSE "returns"
\* holdDisposition
disposition(i, d) ==
    IF d[i] = Nil THEN "returns"
    ELSE IF d[i].state \in Agreed THEN "stands"
    ELSE IF d[i].state = "finalized" THEN "becomes spend"
    ELSE "returns"

\* Faulty variant: a hold that becomes a spend is kept as well.
ReconciledTwice(l, d) ==
    LET of(what) == {i \in DOMAIN l.reserved : disposition(i, d) = what}
    IN  [spent |-> l.spent + MapThenSumSet(LAMBDA i : l.reserved[i], of("becomes spend")),
         reserved |-> Restrict(l.reserved, of("stands") \cup of("becomes spend"))]
\* reconcileCommerce over the ledger l and the snapshots d.
Reconciled(l, d) ==
    LET of(what) == {i \in DOMAIN l.reserved : disposition(i, d) = what}
    IN  [spent |-> l.spent + MapThenSumSet(LAMBDA i : l.reserved[i], of("becomes spend")),
         reserved |-> Restrict(l.reserved, of("stands"))]

\* The journal is opened again on the snapshots d and the ledger l: the repair
\* runs, and the budget is loaded from what it leaves.
Reopened(d, l) ==
    /\ disk' = d
    /\ ledger' = Reconciled(l, d)
    /\ bud' = ledger'
    /\ mem' = [i \in Exchanges |-> Nil]

\* Budget.Release: a hold that is not there is released without a write.
Released(i) == IF Held(bud, i) THEN WithoutHold(bud, i) ELSE bud

\* Faulty variant: the hold goes back first and the state is written second.
PersistThenBudgetFirst(i, n, b) ==
    \E w1, w2 \in Outcomes :
        /\ Faulted(Cardinality({k \in {1, 2} : <<w1, w2>>[k] # "ok"}))
        /\ w1 = "ok" \/ w2 = "ok"
        /\ ledger' = IF w2 = "lost" THEN ledger ELSE b
        /\ bud' = IF w2 = "ok" THEN b ELSE bud
        /\ disk' = IF w2 # "ok" \/ w1 = "lost" THEN disk ELSE [disk EXCEPT ![i] = Snapshot(n)]
        /\ mem' = [mem EXCEPT ![i] = [n EXCEPT !.poisoned = @ \/ w1 # "ok"]]
\* persist, and then the write that leaves the budget as b.  The budget is
\* left alone when the snapshot could not be written, and its object keeps the
\* old figures when its own write fails.  The process can end in between.
PersistThenBudget(i, n, b) ==
    \/ \E w1, w2 \in Outcomes :
          /\ w1 = "ok" \/ w2 = "ok"
          /\ w2 # "ok" => b # bud
          /\ Faulted(IF w1 = "ok" /\ w2 = "ok" THEN 0 ELSE 1)
          /\ mem' = [mem EXCEPT ![i] = [n EXCEPT !.poisoned = @ \/ w1 # "ok"]]
          /\ disk' = IF w1 = "lost" THEN disk ELSE [disk EXCEPT ![i] = Snapshot(n)]
          /\ ledger' = IF w1 # "ok" \/ w2 = "lost" THEN ledger ELSE b
          /\ bud' = IF w1 # "ok" \/ w2 # "ok" THEN bud ELSE b
    \/ /\ b # bud /\ "lost" \in Outcomes
       /\ Faulted(1)
       /\ Reopened([disk EXCEPT ![i] = Snapshot(n)], ledger)

Persist(i, n) == PersistThenBudget(i, n, bud)

\* settle: the exchange ends, and then its hold goes back.
Settle(i, s) ==
    PersistThenBudget(i, [mem[i] EXCEPT !.state = s, !.onTable = Nil], Released(i))

\* New, under a live mandate; NegotiationStore.Save refuses a new record when
\* as many exchanges are open as may be.  There is no object when the first
\* state could not be written.
NewNegotiation(i) ==
    /\ i \notin used /\ Live
    /\ Cardinality({j \in Exchanges : disk[j] # Nil /\ disk[j].state \notin Settled}) < MaxOpen
    /\ \E w \in Outcomes :
          /\ Faulted(IF w = "ok" THEN 0 ELSE 1)
          /\ mem' = IF w = "ok" THEN [mem EXCEPT ![i] = NewExchange] ELSE mem
          /\ disk' = IF w = "lost" THEN disk ELSE [disk EXCEPT ![i] = NewExchange]
    /\ UNCHANGED <<bud, ledger>>
    /\ used' = used \cup {i}
    /\ UNCHANGED <<chain, location, clock, decided>>

ReceiveProposal(i, t) ==
    /\ Open(mem[i]) /\ Binds(t)
    /\ Persist(i, [mem[i] EXCEPT !.onTable = t, !.state = "proposal-pending"])
    /\ UNCHANGED <<outside, decided>>

\* Our own offer, or the end of an exchange that has used up its counteroffers.
Counter(i, t) ==
    /\ Open(mem[i])
    /\ IF mem[i].counteroffers >= MaxCounteroffers
       THEN Settle(i, "withdrawn")
       ELSE /\ Permits(t) /\ Binds(t)
            /\ Persist(i, [mem[i] EXCEPT !.onTable = t, !.counteroffers = @ + 1,
                                          !.state = "counterproposal-pending"])
    /\ UNCHANGED <<outside, decided>>

\* The terms on the table are agreed: the hold is recorded first, the
\* agreement second.
AcceptIntent(i) ==
    /\ Open(mem[i]) /\ mem[i].onTable # Nil
    /\ LET t == mem[i].onTable
           b == WithHold(bud, i, t.price)
           n == [mem[i] EXCEPT !.agreed = t, !.needsApproval = NeedsOwner(t),
                               !.state = "intent-agreed"]
       IN  /\ Permits(t)
           /\ Committed(b) <= BudgetTotal
           /\ \/ \E w \in Outcomes \ {"ok"} :    \* Reserve fails
                    /\ Faulted(1)
                    /\ ledger' = IF w = "landed" THEN b ELSE ledger
                    /\ UNCHANGED <<mem, disk, bud>>
              \/ \E w \in Outcomes :             \* then persist
                    /\ Faulted(IF w = "ok" THEN 0 ELSE 1)
                    /\ ledger' = b /\ bud' = b
                    /\ mem' = [mem EXCEPT ![i] = [n EXCEPT !.poisoned = w # "ok"]]
                    /\ disk' = IF w = "lost" THEN disk ELSE [disk EXCEPT ![i] = Snapshot(n)]
              \/ /\ "lost" \in Outcomes          \* the process ends in between
                 /\ Faulted(1)
                 /\ Reopened(disk, b)
    /\ decided' = [decided EXCEPT ![i] = FALSE]
    /\ UNCHANGED outside

\* Faulty variant: a reopened exchange keeps the owner's decision.
ReopenKeepingApproval(i) ==
    /\ mem[i] # Nil /\ mem[i].state = "intent-agreed" /\ Live
    /\ PersistThenBudget(i, [mem[i] EXCEPT !.agreed = Nil, !.needsApproval = FALSE,
                               !.state = "discussing"], Released(i))
    /\ UNCHANGED <<outside, decided>>
\* Reopen: the agreement, the owner's decision and then the hold are dropped.
Reopen(i) ==
    /\ mem[i] # Nil /\ mem[i].state = "intent-agreed" /\ Live
    /\ mem[i].generation < MaxGeneration
    /\ PersistThenBudget(i, [mem[i] EXCEPT !.agreed = Nil, !.needsApproval = FALSE,
                               !.approval = Nil, !.generation = @ + 1,
                               !.state = "discussing"], Released(i))
    /\ UNCHANGED <<outside, decided>>

\* RejectIntent, Withdraw and DenyByOwner.
End(i) ==
    /\ mem[i] # Nil
    /\ \/ mem[i].state \notin Settled /\ Settle(i, "rejected")
       \/ mem[i].state \notin Settled /\ Settle(i, "withdrawn")
       \/ mem[i].state = "intent-agreed" /\ Settle(i, "rejected")
    /\ UNCHANGED <<outside, decided>>

\* ApproveByOwner: bound to the terms shown and to the generation.
ApproveByOwner(i) ==
    /\ mem[i] # Nil /\ mem[i].state = "intent-agreed" /\ Live
    /\ mem[i].needsApproval
    /\ Persist(i, [mem[i] EXCEPT !.approval = [terms |-> mem[i].agreed,
                                               generation |-> mem[i].generation]])
    /\ decided' = [decided EXCEPT ![i] = TRUE]
    /\ UNCHANGED outside

approvalStands(n) ==
    n.approval = [terms |-> n.agreed, generation |-> n.generation]

BeginCanonicalization(i) ==
    /\ mem[i] # Nil /\ ~mem[i].poisoned
    /\ mem[i].state = "intent-agreed" /\ Live
    /\ mem[i].needsApproval => approvalStands(mem[i])
    /\ Persist(i, [mem[i] EXCEPT !.state = "canonicalization-pending"])
    /\ UNCHANGED <<outside, decided>>

\* The quote an escrow carries says everything but the class, which comes from
\* the locator.
mapTerms(t, class) == [t EXCEPT !.class = class]

\* ResolveAcceptedQuote: what finalized state says under commitment c; Nil when
\* there is nothing to say yet, or when the account located holds another
\* commitment.
ResolveAcceptedQuote(c) ==
    IF location[c] = Nil THEN Nil
    ELSE LET held == chain[location[c].escrow]
         IN  IF held = Nil \/ held.commitment # c THEN Nil
             ELSE mapTerms(held.terms, location[c].class)

\* Faulty variant: a quote that asks for less is taken for the one agreed.
MatchAtMost(q, t) == q.price <= t.price
\* MatchAcceptedQuote: every field of the terms, and the network.
MatchAcceptedQuote(q, t) == q = t

\* Finalize: an expired mandate or another purchase under the commitment ends
\* the exchange; a quote that is not there yet leaves it alone.  The finalized
\* state is written first, and the hold becomes a spend second.
Finalize(i, c) ==
    /\ mem[i] # Nil /\ ~mem[i].poisoned /\ mem[i].state = "canonicalization-pending"
    /\ IF ~Live THEN Settle(i, "expired")
       ELSE LET q == ResolveAcceptedQuote(c)
            IN  /\ q # Nil
                /\ IF ~MatchAcceptedQuote(q, mem[i].agreed) THEN Settle(i, "rejected")
                   ELSE /\ mem[i].needsApproval => approvalStands(mem[i])
                        /\ IF ~Permits(q) THEN Settle(i, "rejected")
                           ELSE PersistThenBudget(i,
                                  [mem[i] EXCEPT !.commitment = c, !.state = "finalized"],
                                  WithSpend(bud, i))
    /\ UNCHANGED <<outside, decided>>

\* Expire: the mandate or the agreed terms ran out.
Expire(i) ==
    /\ mem[i] # Nil /\ mem[i].state \notin Settled
    /\ ~Live \/ (mem[i].agreed # Nil /\ clock >= mem[i].agreed.notAfter)
    /\ Settle(i, "expired")
    /\ UNCHANGED <<outside, decided>>

\* Restore from the snapshot, under the mandate that stands.
Reload(i) ==
    /\ disk[i] # Nil /\ mem[i] # disk[i]
    /\ ValidSnapshot(disk[i])
    /\ mem' = [mem EXCEPT ![i] = disk[i]]
    /\ UNCHANGED <<disk, bud, ledger, outside, decided, writeFaults>>

\* Drop: the record of a settled exchange is removed.
Drop(i) ==
    /\ disk[i] # Nil /\ disk[i].state \in Settled
    /\ disk' = [disk EXCEPT ![i] = Nil]
    /\ UNCHANGED <<mem, bud, ledger, outside, decided, writeFaults>>

\* RecordEscrowLocation: one commitment is bound to one place, once.
RecordEscrowLocation(c, a, class) ==
    /\ location[c] = Nil
    /\ location' = [location EXCEPT ![c] = [escrow |-> a, class |-> class]]
    /\ UNCHANGED <<mem, disk, bud, ledger, chain, clock, used, decided, writeFaults>>

\* A buyer's wallet funds an escrow account with an Accepted Quote.
FundEscrow(a, c, t) ==
    /\ chain[a] = Nil
    /\ chain' = [chain EXCEPT ![a] = [commitment |-> c, terms |-> t]]
    /\ UNCHANGED <<mem, disk, bud, ledger, location, clock, used, decided, writeFaults>>

Passing ==
    /\ clock < MaxClock
    /\ clock' = clock + 1
    /\ UNCHANGED <<mem, disk, bud, ledger, chain, location, used, decided, writeFaults>>

\* The process ends between operations and the journal is opened again.
RestartCommerce ==
    /\ writeFaults < MaxWriteFaults
    /\ Faulted(1)
    /\ Reopened(disk, ledger)
    /\ UNCHANGED <<outside, decided>>

NegotiationNext ==
    \/ \E i \in Exchanges :
          \/ NewNegotiation(i) \/ AcceptIntent(i) \/ Reopen(i) \/ End(i)
          \/ ApproveByOwner(i) \/ BeginCanonicalization(i) \/ Expire(i)
          \/ Reload(i) \/ Drop(i)
          \/ \E t \in Offers : ReceiveProposal(i, t) \/ Counter(i, t)
          \/ \E c \in Commitments : Finalize(i, c)
    \/ \E c \in Commitments, a \in Escrows :
          \/ \E class \in {"mandated", "other"} : RecordEscrowLocation(c, a, class)
          \/ \E t \in Offers : FundEscrow(a, c, t)
    \/ Passing
    \/ RestartCommerce

-----------------------------------------------------------------------------
\* The shapes the objects, snapshots and budgets can take.
NegotiationTypeOK ==
    LET exchange == [state : States, generation : 0..MaxGeneration,
                     counteroffers : 0..MaxCounteroffers, onTable : Offers \cup {Nil},
                     agreed : Offers \cup {Nil}, needsApproval : BOOLEAN,
                     approval : [terms : Offers, generation : 0..MaxGeneration] \cup {Nil},
                     commitment : Commitments \cup {Nil}, poisoned : BOOLEAN]
    IN  \A i \in Exchanges :
          /\ mem[i] = Nil \/ mem[i] \in exchange
          /\ disk[i] = Nil \/ (disk[i] \in exchange /\ ~disk[i].poisoned)

\* "The reverse orphan -- an agreed exchange with no hold -- cannot arise from
\* these orderings" (reconcileCommerce): whatever write failed and wherever the
\* process ended, an exchange recorded as agreed has its price on the ledger.
AgreedIsHeld ==
    \A i \in Exchanges :
        disk[i] # Nil /\ disk[i].state \in Agreed =>
            Held(ledger, i) /\ ledger.reserved[i] = disk[i].agreed.price

\* A finalized exchange is counted: its price is still held or has become a
\* spend, also when the process ended between Finalize's two writes.
FinalizedIsCounted ==
    LET counted == {i \in Exchanges : /\ disk[i] # Nil /\ disk[i].state = "finalized"
                                      /\ ~Held(ledger, i)}
    IN  ledger.spent >= MapThenSumSet(LAMBDA i : disk[i].agreed.price, counted)

\* What is spent and held on the ledger never exceeds the budget's total, the
\* repair at start-up included (Reserve bounds it, Commit relies on it).
BudgetNeverOverdrawn == Committed(ledger) <= BudgetTotal

\* An agreement above the owner's threshold is canonicalised only on a decision
\* the owner made about this very agreement, and not about one that was reopened.
DecidedByOwner ==
    \A i \in Exchanges :
        disk[i] # Nil /\ disk[i].state \in {"canonicalization-pending", "finalized"}
           /\ NeedsOwner(disk[i].agreed) => decided[i]

\* A finalized exchange has its evidence: an escrow in finalized state holds the
\* commitment it names, with exactly the terms that were agreed.
FinalizedHasEvidence ==
    \A i \in Exchanges :
        disk[i] # Nil /\ disk[i].state = "finalized" =>
            \E a \in Escrows : chain[a] = [commitment |-> disk[i].commitment,
                                           terms |-> disk[i].agreed]

\* What the journal holds of an exchange that ended is never rewritten: it stays
\* as it is until it is dropped, whatever object is still in memory.
EndedStaysEnded ==
    [][\A i \in Exchanges :
          disk[i] # Nil /\ disk[i].state \in Settled => disk'[i] \in {disk[i], Nil}]_negotiationVars

\* "every further operation is refused until the negotiation is reloaded from
\* what was actually written" (negotiation.go, on poisoned): no operation moves
\* an object whose last write failed.
PoisonedIsStill ==
    [][\A i \in Exchanges :
          mem[i] # Nil /\ mem[i].poisoned =>
              mem'[i] \in {mem[i], disk[i], Nil}]_negotiationVars

\* A purchase is on the budget from the agreement on (its price is held while it is agreed,
\* held or spent when it is finalized, and the sum stays within the total), and none is
\* settled without its grounds: the owner's decision on this very agreement where one is
\* needed, and an escrow with exactly its terms.
PurchasesAreSound ==
    /\ AgreedIsHeld /\ FinalizedIsCounted /\ BudgetNeverOverdrawn
    /\ DecidedByOwner /\ FinalizedHasEvidence
=============================================================================
