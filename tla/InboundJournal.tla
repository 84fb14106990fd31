--------------------------- MODULE InboundJournal ---------------------------
(***************************************************************************)
(* The inbound half of the daemon's event journal: how a sealed message    *)
(* that a peer delivers (possibly many times, possibly on several          *)
(* connections at once) becomes a durable record, how the ratchet of the   *)
(* session that opened it is advanced, how the owner decides about it and  *)
(* how a runtime leases and finishes it.                                   *)
(*                                                                         *)
(* A definition commented as a faulty variant is no part of the model: it  *)
(* is the bug a property of the definition that follows it would catch.    *)
(*                                                                         *)
(* Sources: pkg/daemon/inbound.go, pkg/admission/admit.go and, in          *)
(* pkg/eventlog, journal.go, session.go, quota.go and prune.go.            *)
(*                                                                         *)
(* Every journal operation holds Journal.mutex, so each is one action.     *)
(* ReceiveSealed is not one operation: it reads the session, releases the  *)
(* mutex, opens the ciphertext, takes the mutex for Accept, releases it,   *)
(* and takes it again to advance the session and finish the record.  Each  *)
(* of these three critical sections is an action of a handler.             *)
(*                                                                         *)
(* The ratchet state of a session is the set of events whose ciphertext it *)
(* has consumed: Open fails on a member and otherwise adds one.            *)
(***************************************************************************)
EXTENDS Integers, FiniteSets

CONSTANTS
    Events,         \* content-addressed events the peers have sealed
    Sessions,       \* device sessions, one per peer device
    SessionOf,      \* the session each event was sealed under
    Receivers,      \* concurrent ingress handlers
    Workers,        \* runtime workers and daemon-owned typed adapters
    KindOf,         \* the event_kind of each event
    Adapter,        \* the kinds each worker may claim
    ExpiresAt,      \* each event's own expiry, 0 for none
    Overlap,        \* may two handlers work on the same event at once?
    MaxPendingAdmissions, MaxPendingPerSender, MaxPendingAge,
    LeaseSeconds, Retention,
    FaultKinds,     \* which faults happen: "crash", "write"
    Moderated,      \* events room moderators decide about
    MaxTime, MaxClaims, MaxSeals, MaxFaults,    \* bounds of the instance
    None            \* no event

ASSUME InboundAssumption ==
    /\ SessionOf \in [Events -> Sessions]
    /\ ExpiresAt \in [Events -> Nat]
    /\ Overlap \in BOOLEAN
    /\ MaxPendingAdmissions \in Nat /\ MaxPendingPerSender \in Nat
    /\ MaxPendingAge \in Nat /\ LeaseSeconds \in Nat /\ Retention \in Nat
    /\ MaxTime \in Nat /\ MaxClaims \in Nat
    /\ MaxSeals \in Nat /\ MaxFaults \in Nat
    /\ Moderated \subseteq Events
    /\ None \notin Events

VARIABLES
    mode,       \* "serving", or "recovering" between a start and Open's return
    records,    \* inbound/<event>.json
    session,    \* sessions/<session>.json
    handlers,   \* the ingress handlers' local state
    workers,    \* what each worker has listed, and the lease it works under
    now,        \* the clock, in seconds
    leases,     \* how many lease identifiers have been drawn
    seals,      \* how many times the outbound side advanced a session
    hidden,     \* events whose latest moderation decision is "hide"
    faults,     \* how many faults and failed writes there were
    acked,      \* history: events a peer was told are accepted or duplicate
    applied,    \* history: how many runtime attempts finished each event
    finished    \* history: events a runtime, the owner or expiry settled

vars == <<mode, records, session, handlers, workers, now, leases, seals,
          hidden, faults, acked, applied, finished>>

-----------------------------------------------------------------------------
(* State of one record, one session, one handler, one worker *)

\* A fourth crypto state, "unbound", marks events accepted outside any session;
\* no path of the daemon produces one.
AdmissionState == {"admitted", "pending", "denied"}
CryptoState == {"staged", "committed", "abandoned"}
ApplicationState == {"queued", "claimed", "applied", "rejected"}

\* expected and next are the transition that recovery may have to finish.
Record == [admission: AdmissionState, crypto: CryptoState,
           expected: Nat, next: SUBSET Events,
           application: ApplicationState, lease: Nat, leaseUntil: Nat,
           received: Nat]

NoRecord == [admission |-> "none", crypto |-> "none", expected |-> 0,
             next |-> {}, application |-> "none", lease |-> 0,
             leaseUntil |-> 0, received |-> 0]

\* What a crash in the middle of creating a record leaves: a file that exists and
\* that readRecord refuses.
Torn == [admission |-> "none", crypto |-> "torn", expected |-> 0,
         next |-> {}, application |-> "none", lease |-> 0,
         leaseUntil |-> 0, received |-> 0]

\* Generation 0 is a session file that does not exist.
SessionRecord == [generation: Nat, state: SUBSET Events,
                  lastInbound: Events \cup {None}]

Idle == [pc |-> "idle", event |-> None, generation |-> 0, next |-> {},
         at |-> 0, copy |-> NoRecord]

OpenedHandler == [pc: {"opened"}, event: Events, generation: Nat,
                  next: SUBSET Events, at: Nat, copy: {NoRecord}]
AcceptedHandler == [pc: {"accepted"}, event: Events, generation: Nat,
                    next: SUBSET Events, at: Nat, copy: Record]
Handler == OpenedHandler \cup AcceptedHandler

Worker == [listed: SUBSET Events, event: Events \cup {None}, lease: Nat]

TypeOK ==
    /\ mode \in {"serving", "recovering"}
    /\ records \in [Events -> Record \cup {NoRecord, Torn}]
    /\ session \in [Sessions -> SessionRecord]
    /\ handlers \in [Receivers -> Handler \cup {Idle}]
    /\ workers \in [Workers -> Worker]
    /\ now \in Nat /\ leases \in Nat /\ seals \in Nat /\ faults \in Nat
    /\ acked \in SUBSET Events /\ hidden \in SUBSET Events
    /\ applied \in [Events -> Nat]
    /\ finished \in SUBSET Events

Exists(e) == records[e] # NoRecord

Readable(e) == records[e] \notin {NoRecord, Torn}

Deliverable(e) == records[e].crypto = "committed"

WithCrypto(rec, crypto) == [rec EXCEPT !.crypto = crypto]

Terminal(rec) == rec.application \in {"applied", "rejected"}

\* Record.expired: the event's own time ran out, or the installation's.
Expired(rec, e, t) ==
    \/ ExpiresAt[e] # 0 /\ t >= ExpiresAt[e]
    \/ t >= rec.received + MaxPendingAge

Waiting(t) == {e \in Events : records[e].admission = "pending"
                              /\ ~Expired(records[e], e, t)}

\* Faulty variant: the bound is compared with <= instead of <.
PendingCapacityOffByOne(e, t) ==
    /\ Cardinality(Waiting(t)) <= MaxPendingAdmissions
    /\ Cardinality({x \in Waiting(t) : SessionOf[x] = SessionOf[e]})
         <= MaxPendingPerSender

\* pendingCapacity.  A duplicate of a waiting event counts against its own
\* admission: the bound is tested before the journal looks whether the event is
\* already there.  MaxPendingBytes is a third bound of the same form; payloads
\* have one size here, so it is the smaller of the two counts.
PendingCapacity(e, t) ==
    /\ Cardinality(Waiting(t)) < MaxPendingAdmissions
    /\ Cardinality({x \in Waiting(t) : SessionOf[x] = SessionOf[e]})
         < MaxPendingPerSender

-----------------------------------------------------------------------------
(* Ingress: the three critical sections of ReceiveSealed *)

\* Faulty variant: the ratchet does not remember consumed ciphertexts.
CanOpenAgain(s, e) == TRUE
\* The ratchet opens a ciphertext it has not consumed, in any order (it keeps
\* skipped keys), and refuses one it has.
CanOpen(s, e) == e \notin s.state

\* The session is read and the ciphertext opened against what was read.  An
\* event that produced the current state is acknowledged as a duplicate; any
\* other consumed ciphertext fails to open and changes nothing.
ReceiveSealed(r, e) ==
    LET s == session[SessionOf[e]] IN
    /\ mode = "serving"
    /\ handlers[r] = Idle
    /\ Overlap \/ \A q \in Receivers : handlers[q].event # e
    /\ \/ /\ s.lastInbound = e
          /\ acked' = acked \cup {e}
          /\ UNCHANGED handlers
       \/ /\ CanOpen(s, e)
          /\ handlers' = [handlers EXCEPT ![r] =
                [pc |-> "opened", event |-> e, generation |-> s.generation,
                 next |-> s.state \cup {e}, at |-> now, copy |-> NoRecord]]
          /\ UNCHANGED acked
    /\ UNCHANGED <<mode, records, session, workers, now, leases, seals,
                   faults, applied, finished, hidden>>

\* The gate refuses the opened event, for its window or for any other reason:
\* nothing is written down.
Refuse(r) ==
    /\ handlers[r].pc = "opened"
    /\ handlers' = [handlers EXCEPT ![r] = Idle]
    /\ UNCHANGED <<mode, records, session, workers, now, leases, seals,
                   faults, acked, applied, finished, hidden>>

WithinWindow(e, t) == ExpiresAt[e] = 0 \/ ExpiresAt[e] > t

Staged(h, admission) ==
    [admission |-> admission, crypto |-> "staged", expected |-> h.generation,
     next |-> h.next, application |-> "queued", lease |-> 0, leaseUntil |-> 0,
     received |-> h.at]

Holding(h, rec) == [h EXCEPT !.pc = "accepted", !.copy = rec]

\* Journal.Accept, reached from the gate once every check has passed.  The
\* handler keeps the record it got back: a later commit writes that copy.
Accept(r, admission) ==
    LET h == handlers[r]
        e == h.event
    IN  /\ h.pc = "opened"
        /\ WithinWindow(e, h.at)
        /\ \/ /\ admission = "pending" /\ ~PendingCapacity(e, h.at)
              /\ handlers' = [handlers EXCEPT ![r] = Idle]
              /\ UNCHANGED <<records, acked>>
           \/ /\ admission = "pending" => PendingCapacity(e, h.at)
              /\ ~Exists(e)
              /\ records' = [records EXCEPT ![e] = Staged(h, admission)]
              /\ handlers' = [handlers EXCEPT ![r] =
                                 Holding(h, Staged(h, admission))]
              /\ UNCHANGED acked
           \/ /\ admission = "pending" => PendingCapacity(e, h.at)
              /\ records[e] = Torn
              /\ handlers' = [handlers EXCEPT ![r] = Idle]
              /\ UNCHANGED <<records, acked>>
           \/ /\ admission = "pending" => PendingCapacity(e, h.at)
              /\ Readable(e) /\ Deliverable(e)
              /\ handlers' = [handlers EXCEPT ![r] = Idle]
              /\ acked' = acked \cup {e}
              /\ UNCHANGED records
           \/ /\ admission = "pending" => PendingCapacity(e, h.at)
              /\ Readable(e) /\ ~Deliverable(e)
              /\ handlers' = [handlers EXCEPT ![r] = Holding(h, records[e])]
              /\ UNCHANGED <<records, acked>>
        /\ UNCHANGED <<mode, session, workers, now, leases, seals, faults,
                       applied, finished, hidden>>

Advanced(generation, state, e) ==
    [generation |-> generation + 1, state |-> state, lastInbound |-> e]

\* Faulty variant: the compare-and-swap is dropped.
SessionNeverMoved(h) == FALSE
SessionMoved(h) == session[SessionOf[h.event]].generation # h.generation

\* The second half of commitInbound.  A session that moved since it was read
\* makes the record abandoned; otherwise the session is written first and the
\* record second, both from what the handler remembers.
CommitInbound(r) ==
    LET h == handlers[r]
        e == h.event
        s == SessionOf[e]
    IN  /\ h.pc = "accepted"
        /\ handlers' = [handlers EXCEPT ![r] = Idle]
        /\ \/ /\ SessionMoved(h)
              /\ records' = [records EXCEPT ![e] =
                                WithCrypto(h.copy, "abandoned")]
              /\ UNCHANGED <<session, acked>>
           \/ /\ ~SessionMoved(h)
              /\ session' = [session EXCEPT ![s] =
                                Advanced(h.generation, h.next, e)]
              /\ records' = [records EXCEPT ![e] =
                                WithCrypto(h.copy, "committed")]
              /\ acked' = acked \cup {e}
        /\ UNCHANGED <<mode, workers, now, leases, seals, faults, applied,
                       finished, hidden>>

Fault(kind) == /\ kind \in FaultKinds
               /\ faults < MaxFaults
               /\ faults' = faults + 1

\* A write of the commit fails without killing the process: the first one, or
\* the second with the session already advanced.  The handler gives up.
CommitFails(r) ==
    LET h == handlers[r]
        s == SessionOf[h.event]
    IN  /\ h.pc = "accepted"
        /\ ~SessionMoved(h)
        /\ Fault("write")
        /\ handlers' = [handlers EXCEPT ![r] = Idle]
        /\ \/ UNCHANGED session
           \/ session' = [session EXCEPT ![s] =
                             Advanced(h.generation, h.next, h.event)]
        /\ UNCHANGED <<mode, records, workers, now, leases, seals, hidden,
                       acked, applied, finished>>

-----------------------------------------------------------------------------
(* Crashes, and the recovery a restart runs before it serves anything *)

Die == /\ Fault("crash")
       /\ mode' = "recovering"
       /\ handlers' = [r \in Receivers |-> Idle]

Crash ==
    /\ Die
    /\ UNCHANGED <<records, session, workers, now, leases, seals, acked,
                   applied, finished, hidden>>

\* The process dies while Accept writes a new record: the name is taken, the
\* content is not there, and no sweep removes it.
CrashInAccept(r) ==
    LET h == handlers[r] IN
    /\ h.pc = "opened"
    /\ WithinWindow(h.event, h.at)
    /\ ~Exists(h.event)
    /\ records' = [records EXCEPT ![h.event] = Torn]
    /\ Die
    /\ UNCHANGED <<session, workers, now, leases, seals, hidden, acked, applied,
                   finished>>

\* The process dies between the two writes of a commit.
CrashInCommit(r) ==
    LET h == handlers[r]
        s == SessionOf[h.event]
    IN  /\ h.pc = "accepted"
        /\ ~SessionMoved(h)
        /\ session' = [session EXCEPT ![s] =
                          Advanced(h.generation, h.next, h.event)]
        /\ Die
        /\ UNCHANGED <<records, workers, now, leases, seals, hidden, acked,
                       applied, finished>>

\* Faulty variant: the event that moved the session is not compared.
AlreadyAdvancedBySomeone(rec, e) ==
    session[SessionOf[e]].generation = rec.expected + 1

AlreadyAdvanced(rec, e) ==
    /\ session[SessionOf[e]].generation = rec.expected + 1
    /\ session[SessionOf[e]].lastInbound = e

Superseded(rec, e) ==
    /\ session[SessionOf[e]].generation # rec.expected
    /\ ~AlreadyAdvanced(rec, e)

\* resolveStaged.  Records are taken in directory order, which is the order of
\* content hashes: any order.
ResolveStaged(e) ==
    LET s == SessionOf[e]
        rec == records[e]
        commit == [records EXCEPT ![e] = WithCrypto(rec, "committed")]
    IN  /\ mode = "recovering"
        /\ rec.crypto = "staged"
        /\ \/ /\ session[s].generation = rec.expected
              /\ session' = [session EXCEPT ![s] =
                                Advanced(rec.expected, rec.next, e)]
              /\ records' = commit
           \/ /\ AlreadyAdvanced(rec, e)
              /\ records' = commit
              /\ UNCHANGED session
           \/ /\ Superseded(rec, e)
              /\ records' = [records EXCEPT ![e] =
                                WithCrypto(rec, "abandoned")]
              /\ UNCHANGED session
        /\ UNCHANGED <<mode, handlers, workers, now, leases, seals, faults,
                       acked, applied, finished, hidden>>

\* Recovery dies between its own two writes.
CrashInRecovery(e) ==
    LET s == SessionOf[e]
        rec == records[e]
    IN  /\ mode = "recovering"
        /\ rec.crypto = "staged"
        /\ session[s].generation = rec.expected
        /\ session' = [session EXCEPT ![s] = Advanced(rec.expected, rec.next, e)]
        /\ Die
        /\ UNCHANGED <<records, workers, now, leases, seals, hidden, acked,
                       applied, finished>>

\* Faulty variant: recovery may be left with staged records.
OpenedWithStaged ==
    /\ mode = "recovering"
    /\ mode' = "serving"
    /\ UNCHANGED <<records, session, handlers, workers, now, leases, seals,
                   faults, acked, applied, finished, hidden>>

\* openJournalAt returns: no staged record is left.
Opened ==
    /\ mode = "recovering"
    /\ \A e \in Events : records[e].crypto # "staged"
    /\ mode' = "serving"
    /\ UNCHANGED <<records, session, handlers, workers, now, leases, seals,
                   faults, acked, applied, finished, hidden>>

-----------------------------------------------------------------------------
(* The outbound side of a session: CommitSealed advances the generation and
   clears the name of the last inbound event. *)

AdvanceSession(s) ==
    /\ mode = "serving"
    /\ seals < MaxSeals
    /\ session[s].generation > 0
    /\ seals' = seals + 1
    /\ session' = [session EXCEPT ![s] =
                      Advanced(session[s].generation, session[s].state, None)]
    /\ UNCHANGED <<mode, records, handlers, workers, now, leases, faults,
                   acked, applied, finished, hidden>>

-----------------------------------------------------------------------------
(* The runtime *)

\* Faulty variant: the crypto state is not looked at.
ListPendingUnopened ==
    {e \in Events :
        /\ records[e].admission = "admitted"
        /\ \/ records[e].application = "queued"
           \/ records[e].application = "claimed" /\ records[e].leaseUntil <= now
        /\ e \notin hidden}

ListPending ==
    {e \in Events :
        /\ records[e].admission = "admitted"
        /\ Deliverable(e)
        /\ \/ records[e].application = "queued"
           \/ records[e].application = "claimed" /\ records[e].leaseUntil <= now
        /\ e \notin hidden}

\* A worker refreshes the list it works from; it may act on it much later.
List(w) ==
    /\ mode = "serving"
    /\ workers[w].event = None
    /\ workers' = [workers EXCEPT ![w] =
                      [listed |-> {e \in ListPending : KindOf[e] \in Adapter[w]},
                       event |-> None, lease |-> 0]]
    /\ UNCHANGED <<mode, records, session, handlers, now, leases, seals,
                   faults, acked, applied, finished, hidden>>

Leased(rec, application, lease, until) ==
    [rec EXCEPT !.application = application, !.lease = lease,
                !.leaseUntil = until]

\* claimForApplicationKind, under a freshly drawn lease identifier.
ClaimForApplication(w, e) ==
    LET rec == records[e] IN
    /\ mode = "serving"
    /\ workers[w].event = None /\ e \in workers[w].listed
    /\ leases < MaxClaims
    /\ Readable(e)
    /\ KindOf[e] \in Adapter[w]
    /\ rec.admission = "admitted"
    /\ \/ rec.application = "queued"
       \/ rec.application = "claimed" /\ rec.leaseUntil <= now
    /\ leases' = leases + 1
    /\ records' = [records EXCEPT ![e] =
                      Leased(rec, "claimed", leases + 1, now + LeaseSeconds)]
    /\ workers' = [workers EXCEPT ![w] =
                      [listed |-> workers[w].listed, event |-> e,
                       lease |-> leases + 1]]
    /\ UNCHANGED <<mode, session, handlers, now, seals, faults, acked,
                   applied, finished, hidden>>

\* finish: the lease on the record must still be this attempt's.  The expiry of
\* the lease is not looked at.
HoldsLease(w, e) == /\ records[e].application = "claimed"
                    /\ records[e].lease = workers[w].lease

Finish(w, state) ==
    LET e == workers[w].event IN
    /\ mode = "serving"
    /\ e # None
    /\ workers' = [workers EXCEPT ![w] =
                      [listed |-> workers[w].listed, event |-> None,
                       lease |-> 0]]
    /\ \/ /\ HoldsLease(w, e)
          /\ records' = [records EXCEPT ![e] = Leased(records[e], state, 0, 0)]
          /\ applied' = [applied EXCEPT ![e] = @ + 1]
          /\ finished' = finished \cup {e}
       \/ /\ ~HoldsLease(w, e)
          /\ UNCHANGED <<records, applied, finished>>
    /\ UNCHANGED <<mode, session, handlers, now, leases, seals, faults, acked,
                   hidden>>

\* A worker dies with its work: the lease stays until it expires.
WorkerDies(w) ==
    /\ workers[w].event # None
    /\ workers' = [workers EXCEPT ![w] =
                      [listed |-> {}, event |-> None, lease |-> 0]]
    /\ UNCHANGED <<mode, records, session, handlers, now, leases, seals,
                   faults, acked, applied, finished, hidden>>

-----------------------------------------------------------------------------
(* The owner, and maintenance *)

Admitted(rec) == [rec EXCEPT !.admission = "admitted"]
Denied(rec) == [rec EXCEPT !.admission = "denied", !.application = "rejected"]

AdmitEvent(e) ==
    /\ mode = "serving"
    /\ records[e].admission = "pending"
    /\ records' = [records EXCEPT ![e] = Admitted(records[e])]
    /\ UNCHANGED <<mode, session, handlers, workers, now, leases, seals,
                   faults, acked, applied, finished, hidden>>

DenyEvent(e) ==
    /\ mode = "serving"
    /\ records[e].admission = "pending"
    /\ records' = [records EXCEPT ![e] = Denied(records[e])]
    /\ finished' = finished \cup {e}
    /\ UNCHANGED <<mode, session, handlers, workers, now, leases, seals,
                   faults, acked, applied, hidden>>

ExpirePendingAdmissions ==
    LET out == {e \in Events : records[e].admission = "pending"
                               /\ Expired(records[e], e, now)}
    IN  /\ mode = "serving"
        /\ out # {}
        /\ records' = [e \in Events |-> IF e \in out THEN Denied(records[e])
                                        ELSE records[e]]
        /\ finished' = finished \cup out
        /\ UNCHANGED <<mode, session, handlers, workers, now, leases, seals,
                       faults, acked, applied, hidden>>

\* Faulty variant: age alone removes a record.
PrunableUnsettled(e) == Readable(e) /\ records[e].received + Retention <= now

Prunable(e) == /\ Readable(e) /\ Terminal(records[e])
               /\ records[e].received + Retention <= now

Prune ==
    LET out == {e \in Events : Prunable(e)}
    IN  /\ mode = "serving"
        /\ out # {}
        /\ records' = [e \in Events |-> IF e \in out THEN NoRecord
                                        ELSE records[e]]
        /\ UNCHANGED <<mode, session, handlers, workers, now, leases, seals,
                       faults, acked, applied, finished, hidden>>

\* A room moderator's next decision about a recorded event: hide, or restore.
Moderate(e) ==
    /\ mode = "serving"
    /\ e \in Moderated
    /\ Readable(e)
    /\ \/ e \notin hidden /\ hidden' = hidden \cup {e}
       \/ e \in hidden /\ hidden' = hidden \ {e}
    /\ UNCHANGED <<mode, records, session, handlers, workers, now, leases,
                   seals, faults, acked, applied, finished>>

Tick ==
    /\ now < MaxTime
    /\ now' = now + 1
    /\ UNCHANGED <<mode, records, session, handlers, workers, leases, seals,
                   faults, acked, applied, finished, hidden>>

-----------------------------------------------------------------------------

\* A session either does not exist yet, so the first event is a first contact,
\* or was bootstrapped here by PutBootstrappedSessionState.
Init ==
    /\ mode = "serving"
    /\ records = [e \in Events |-> NoRecord]
    /\ session \in [Sessions -> {[generation |-> g, state |-> {},
                                  lastInbound |-> None] : g \in {0, 1}}]
    /\ handlers = [r \in Receivers |-> Idle]
    /\ workers = [w \in Workers |-> [listed |-> {}, event |-> None, lease |-> 0]]
    /\ now = 1 /\ leases = 0 /\ seals = 0 /\ faults = 0 /\ hidden = {}
    /\ acked = {} /\ finished = {}
    /\ applied = [e \in Events |-> 0]

Receive(r) ==
    \/ \E e \in Events : ReceiveSealed(r, e)
    \/ Refuse(r)
    \/ \E admission \in {"admitted", "pending"} : Accept(r, admission)
    \/ CommitInbound(r)

Recover == \/ \E e \in Events : ResolveStaged(e)
           \/ Opened

Fail == \/ \E r \in Receivers : CommitFails(r)
        \/ Crash
        \/ \E r \in Receivers : CrashInAccept(r) \/ CrashInCommit(r)
        \/ \E e \in Events : CrashInRecovery(e)

Work(w) == \/ List(w)
           \/ \E e \in Events : ClaimForApplication(w, e)
           \/ \E state \in {"applied", "rejected"} : Finish(w, state)
           \/ WorkerDies(w)

Next == \/ \E r \in Receivers : Receive(r)
        \/ Recover
        \/ Fail
        \/ \E s \in Sessions : AdvanceSession(s)
        \/ \E w \in Workers : Work(w)
        \/ \E e \in Events : AdmitEvent(e) \/ DenyEvent(e) \/ Moderate(e)
        \/ ExpirePendingAdmissions
        \/ Prune
        \/ Tick

Spec == Init /\ [][Next]_vars

\* A handler that has opened a message runs to its end, and so does a recovery;
\* neither waits for anything outside the process.
HandlerStep(r) == \/ Refuse(r)
                  \/ \E admission \in {"admitted", "pending"} : Accept(r, admission)
                  \/ CommitInbound(r)

FairSpec == /\ Spec
            /\ \A r \in Receivers : WF_vars(HandlerStep(r))
            /\ WF_vars(Recover)

-----------------------------------------------------------------------------
(* Properties *)

Consumed(e) == e \in session[SessionOf[e]].state

\* A record is committed only when the ratchet of its session has consumed the
\* ciphertext: in every interleaving of handlers, whatever crashes between the
\* two writes of commitInbound or of resolveStaged.
CommittedWasOpened == \A e \in Events : Deliverable(e) => Consumed(e)

\* No runtime is ever offered, or works on, an event the session considers
\* unread (the comment in ListPending).
RuntimeSeesOnlyOpened ==
    \A w \in Workers : \A e \in Events :
        e \in workers[w].listed \/ e = workers[w].event => Consumed(e)

\* The compare-and-swap on the generation: no step of any handler, recovery or
\* seal takes a session back to a state that has forgotten a consumed
\* ciphertext, and the state changes only with the generation.
RatchetNeverForgets ==
    [][\A s \in Sessions :
          /\ session[s].state \subseteq session'[s].state
          /\ session[s].generation <= session'[s].generation
          /\ session'[s].state # session[s].state =>
                session'[s].generation = session[s].generation + 1]_vars

\* Two attempts never both finish one event: a lease that was taken over can no
\* longer complete or reject.
AppliedAtMostOnce == \A e \in Events : applied[e] <= 1

\* "inbound never loses a message" (README.md): an event the peer was told is
\* accepted or a duplicate is deliverable, or was settled.
AckedIsKept == \A e \in acked : Deliverable(e) \/ e \in finished

\* The comment on CryptoAbandoned: its "ciphertext was never consumed".
AbandonedNotConsumed ==
    \A e \in Events : records[e].crypto = "abandoned" => ~Consumed(e)

\* "The owner decides once. A second decision on the same event would let a denied
\* message be admitted later" (decideAdmission): an event that was decided about does
\* not go back to the owner's queue.
OwnerDecidesOnce ==
    [][\A e \in Events :
          Readable(e) /\ records[e].admission # "pending" /\ Readable(e)'
             => records'[e].admission = records[e].admission]_vars

\* The bounds of quota.go hold for what the owner could be asked about now.
PendingBounded ==
    /\ Cardinality(Waiting(now)) <= MaxPendingAdmissions
    /\ \A s \in Sessions :
          Cardinality({e \in Waiting(now) : SessionOf[e] = s})
             <= MaxPendingPerSender

\* A restart gets to serving again, whatever it finds staged, and then every
\* staged record has been committed or abandoned: no session is left a message
\* behind.
RecoveryCompletes ==
    mode = "recovering" ~>
        mode = "serving" /\ \A e \in Events : records[e].crypto # "staged"

\* Only what the ratchet has opened is deliverable, listed or worked on: a runtime
\* never acts on a message that its session considers unread.
OnlyOpenedIsDelivered == CommittedWasOpened /\ RuntimeSeesOnlyOpened

\* "inbound never loses a message" and does not repeat one: what the peer was told
\* is accepted stays deliverable until it was settled, no event is finished twice,
\* and an abandoned one can still be opened when the peer sends it again.
InboundExactlyOnce == AckedIsKept /\ AppliedAtMostOnce /\ AbandonedNotConsumed
=============================================================================
