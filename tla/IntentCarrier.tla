--------------------------- MODULE IntentCarrier ---------------------------
(***************************************************************************)
(* The Messenger intent carrier (pkg/intentcarrier/store.go): signed       *)
(* Intents and their withdrawals are appended to a journal, each backed by *)
(* an economic action of the carrier's own action store and by a one-time  *)
(* admission challenge; subscribers page through the journal by sequence.  *)
(*                                                                         *)
(* An operation is its economic action: it publishes an Intent, or         *)
(* withdraws the one another operation published.  The journal is written  *)
(* by a rename that is not followed by a sync of the directory; the action *)
(* store lives in the same directory and does sync it.  A power loss takes *)
(* back every rename since the last sync.                                  *)
(***************************************************************************)
EXTENDS EconomicStore, FiniteSets, Naturals, Sequences, SequencesExt

CONSTANTS
    Withdrawn,        \* what an operation withdraws; NoOperation if it publishes
    Actor,            \* who issued it
    Challenges,
    MaxEntries, MaxActorEntries,
    Publishers,       \* requests being served
    MaxRequests, MaxCarrierFaults, \* bounds of the model
    NoOperation

VARIABLES
    journal,      \* in memory: [operations, next, consumed]
    journalFile,  \* as renamed into place
    journalSafe,  \* as a power loss leaves it
    acts, actsFile, actsSafe, \* the action store, likewise
    publisher,    \* [step, op, challenge] of each request
    served, carrierFaults

carrierVars == <<journal, journalFile, journalSafe, acts, actsFile, actsSafe,
                 publisher, served, carrierFaults>>
journalFiles == <<journal, journalFile, journalSafe>>
actionFiles == <<acts, actsFile, actsSafe>>

Idle == [step |-> "idle", op |-> NoOperation, challenge |-> NoOperation]
EmptyJournal == [operations |-> <<>>, next |-> 1, consumed |-> [c \in Challenges |-> NoOperation]]

CarrierInit ==
    /\ journal = EmptyJournal /\ journalFile = journal /\ journalSafe = journal
    /\ acts = EmptyDocument /\ actsFile = acts /\ actsSafe = acts
    /\ publisher = [p \in Publishers |-> Idle]
    /\ served = 0 /\ carrierFaults = 0

Publishes(op) == Withdrawn[op] = NoOperation

Retained(j) == {j.operations[k].op : k \in DOMAIN j.operations}

\* findIntentLocked
findIntent(j, op) == op \in Retained(j)

actorCount(j, actor) ==
    Cardinality({op \in Retained(j) : Publishes(op) /\ Actor[op] = actor})

\* The action store writes its file and syncs the directory both files are in.
\* With an error memory keeps the old document, and the file may be the new one.
ActionsWritten(new) ==
    /\ acts' = new /\ actsFile' = new /\ actsSafe' = new
    /\ journalSafe' = journalFile'

ActionsFailed(new) ==
    /\ actsFile' \in {actsFile, new}
    /\ UNCHANGED <<acts, actsSafe>>
    /\ journalSafe' = journalSafe

Fault == carrierFaults < MaxCarrierFaults /\ carrierFaults' = carrierFaults + 1

\* actions.Admit: the action is admitted, found as it was left, or refused.
CarrierAdmit(p, op, c) ==
    /\ publisher[p] = Idle /\ served < MaxRequests
    /\ served' = served + 1 /\ UNCHANGED <<journal, journalFile>>
    /\ Admissible(acts, op) /\ acts.state[op] # "accepted"
    /\ LET go == [publisher EXCEPT ![p] = [step |-> "append", op |-> op, challenge |-> c]]
       IN  \/ /\ acts.state[op] # "unknown"
              /\ publisher' = go
              /\ UNCHANGED <<actionFiles, journalSafe, carrierFaults>>
           \/ /\ acts.state[op] = "unknown" /\ RoomForAction(acts)
              /\ \/ ActionsWritten(Admitted(acts, op)) /\ publisher' = go /\ UNCHANGED carrierFaults
                 \/ ActionsFailed(Admitted(acts, op)) /\ Fault /\ UNCHANGED publisher

\* The first halves of Publish and of Withdraw: a withdrawal has to name a
\* retained Intent.
StartPublish(p, op, c) == Publishes(op) /\ CarrierAdmit(p, op, c)
StartWithdraw(p, op, c) ==
    ~Publishes(op) /\ findIntent(journal, Withdrawn[op]) /\ CarrierAdmit(p, op, c)

\* Accept ends the request, with or without an error.
AcceptAction(op) ==
    \/ ActionsWritten(Accepted(acts, op)) /\ UNCHANGED carrierFaults
    \/ ActionsFailed(Accepted(acts, op)) /\ Fault

\* Faulty variant: the challenge is looked up and never marked.
ConsumedUnmarked(j, c, op) == j
\* consumeLocked, of a challenge that was not consumed.
Consumed(j, c, op) == [j EXCEPT !.consumed[c] = op]

\* Faulty variant: the sequence number is taken from the number of entries.
AppendedByLength(j, op) ==
    [j EXCEPT !.operations = Append(@, [sequence |-> Len(@), op |-> op])]
Appended(j, op) ==
    [j EXCEPT !.operations = Append(@, [sequence |-> j.next, op |-> op]), !.next = @ + 1]

WithinQuota(op) ==
    Len(journal.operations) < MaxEntries /\ actorCount(journal, Actor[op]) < MaxActorEntries

Conflicting(op) ==
    \E other \in Retained(journal) : other # op /\ Withdrawn[other] = Withdrawn[op]

\* Faulty variant: accepted although the journal was not written.
AppendAcceptedFirst(p) ==
    UNCHANGED <<journal, journalFile>> /\ AcceptAction(publisher[p].op)
\* The operation is appended and written, and then accepted; or a failed write
\* takes the entry and the challenge back.
CarrierAppend(p) ==
    LET op == publisher[p].op
        new == Appended(Consumed(journal, publisher[p].challenge, op), op)
    IN  \/ journal' = new /\ journalFile' = new /\ AcceptAction(op)
        \/ Fault /\ UNCHANGED <<journalFiles, actionFiles>>

NothingDone == UNCHANGED <<journal, journalFile, journalSafe, actionFiles, carrierFaults>>

\* The second half of Publish, under the carrier's lock.  What is retained already is
\* only accepted; a publication over quota does not use up its challenge.
Publish(p) ==
    LET op == publisher[p].op
        c == publisher[p].challenge
    IN  /\ publisher[p].step = "append" /\ Publishes(op)
        /\ publisher' = [publisher EXCEPT ![p] = Idle] /\ UNCHANGED served
        /\ \/ /\ findIntent(journal, op) /\ journal.consumed[c] = NoOperation
              /\ journal' = Consumed(journal, c, op) /\ UNCHANGED journalFile
              /\ AcceptAction(op)
           \/ /\ ~findIntent(journal, op) /\ WithinQuota(op) /\ journal.consumed[c] = NoOperation
              /\ CarrierAppend(p)
           \/ /\ journal.consumed[c] # NoOperation \/ (~findIntent(journal, op) /\ ~WithinQuota(op))
              /\ NothingDone

\* The second half of Withdraw: the challenge is consumed first, and stays so in memory
\* when another withdrawal of the Intent is retained.
Withdraw(p) ==
    LET op == publisher[p].op
        c == publisher[p].challenge
        used == Consumed(journal, c, op)
    IN  /\ publisher[p].step = "append" /\ ~Publishes(op)
        /\ publisher' = [publisher EXCEPT ![p] = Idle] /\ UNCHANGED served
        /\ \/ journal.consumed[c] # NoOperation /\ NothingDone
           \/ /\ journal.consumed[c] = NoOperation /\ Conflicting(op)
              /\ journal' = used
              /\ UNCHANGED <<journalFile, journalSafe, actionFiles, carrierFaults>>
           \/ /\ journal.consumed[c] = NoOperation /\ op \in Retained(journal)
              /\ journal' = used /\ UNCHANGED journalFile
              /\ AcceptAction(op)
           \/ /\ journal.consumed[c] = NoOperation /\ ~Conflicting(op) /\ op \notin Retained(journal)
              /\ CarrierAppend(p)

\* The carrier ends and is opened again, on its files or, after a power loss,
\* on what was synced.
CarrierRestart ==
    /\ \/ UNCHANGED <<journalFile, actsFile, carrierFaults>>
       \/ Fault /\ journalFile' = journalSafe /\ actsFile' = actsSafe
    /\ journal' = journalFile' /\ acts' = actsFile'
    /\ publisher' = [p \in Publishers |-> Idle]
    /\ UNCHANGED <<journalSafe, actsSafe, served>>

CarrierNext ==
    \/ \E p \in Publishers :
          \/ \E op \in EconomicActions, c \in Challenges : StartPublish(p, op, c) \/ StartWithdraw(p, op, c)
          \/ Publish(p) \/ Withdraw(p)
    \/ CarrierRestart

\* Faulty variant: the entry the cursor names is given again.
SearchInclusive(after, limit) ==
    LET found == SelectSeq(journal.operations, LAMBDA e : e.sequence >= after)
        page == SubSeq(found, 1, IF Len(found) < limit THEN Len(found) ELSE limit)
    IN  [page |-> page, next |-> IF Len(page) = limit THEN Last(page).sequence ELSE 0]
\* Search: at most `limit' entries after a sequence number, without Intents that
\* were withdrawn; the cursor is given when the page is full.
Search(after, limit) ==
    LET gone == {Withdrawn[op] : op \in Retained(journal)}
        found == SelectSeq(journal.operations, LAMBDA e : e.sequence > after /\ e.op \notin gone)
        page == SubSeq(found, 1, IF Len(found) < limit THEN Len(found) ELSE limit)
    IN  [page |-> page, next |-> IF Len(page) = limit THEN Last(page).sequence ELSE 0]

-----------------------------------------------------------------------------
\* The journal's entries and the requests' shape.
CarrierTypeOK ==
    /\ \A j \in {journal, journalFile, journalSafe} :
          /\ j.operations \in Seq([sequence : Nat \ {0}, op : EconomicActions])
          /\ j.consumed \in [Challenges -> EconomicActions \cup {NoOperation}]
    /\ \A p \in Publishers : publisher[p].step \in {"idle", "append"}

\* What an action was accepted for is in the journal, on disk, and a power loss
\* does not take it back: the sync of the action store's directory covers the
\* journal's rename.
AcceptedIsRetained ==
    \A op \in EconomicActions :
        /\ actsFile.state[op] = "accepted" => op \in Retained(journalFile)
        /\ actsSafe.state[op] = "accepted" => op \in Retained(journalSafe)

\* One challenge admits one entry: entries that name different operations were
\* never admitted on the same challenge, whatever was retried or lost.
ChallengeAdmitsOne ==
    \A k \in DOMAIN journalFile.operations :
        \E c \in Challenges : journalFile.consumed[c] = journalFile.operations[k].op

\* An operation is in the journal once, and the journal can be loaded again: its
\* sequence numbers rise and stay below the next one to be given.
JournalLoads ==
    \A j \in {journalFile, journalSafe} :
        /\ Cardinality(Retained(j)) = Len(j.operations)
        /\ \A k \in DOMAIN j.operations :
              /\ j.operations[k].sequence < j.next
              /\ k > 1 => j.operations[k - 1].sequence < j.operations[k].sequence

\* A subscriber that follows the cursor from page to page misses no entry and
\* sees none twice, for every page size.
PagesMissNothing ==
    \A limit \in 1..MaxEntries :
        LET first == Search(0, limit)
            rest == Search(first.next, MaxEntries + Cardinality(EconomicActions))
        IN  IF first.next = 0 THEN first.page = Search(0, 100).page
            ELSE first.page \o rest.page = Search(0, 100).page

\* The journal of the carrier is what its subscribers and its publishers believe:
\* what was accepted is in it, once, for one challenge each, it loads again, and its
\* pages add up to it.
CarrierKeepsEntries ==
    AcceptedIsRetained /\ ChallengeAdmitsOne /\ JournalLoads /\ PagesMissNothing
=============================================================================
