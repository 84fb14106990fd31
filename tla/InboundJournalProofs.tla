------------------------ MODULE InboundJournalProofs ------------------------
(***************************************************************************)
(* For every set of events, sessions, handlers and workers, every bound    *)
(* and every pattern of crashes and failed writes: the types are right, a  *)
(* committed record was consumed by its ratchet, a runtime sees only       *)
(* consumed events, and no step makes a ratchet forget.                    *)
(*                                                                         *)
(* CommittedWasOpened is not inductive: resolveStaged and commitInbound    *)
(* install a state that was computed earlier, against a session that was   *)
(* read earlier. What makes that right is the generation. A prepared       *)
(* transition is never ahead of the session, and while the session is      *)
(* still at the generation it was prepared against, the prepared state is  *)
(* the session's own plus the one event.                                   *)
(***************************************************************************)
EXTENDS InboundJournal, FiniteSetTheorems, TLAPS

\* A transition prepared at generation g to state n for event e is usable
\* exactly while the session is at g.
Prepared(g, n, e) ==
    /\ g <= session[SessionOf[e]].generation
    /\ g = session[SessionOf[e]].generation =>
          n = session[SessionOf[e]].state \cup {e}

StagedPrepared ==
    \A e \in Events : records[e].crypto = "staged" =>
        Prepared(records[e].expected, records[e].next, e)

HandlersPrepared ==
    \A r \in Receivers : handlers[r] # Idle =>
        Prepared(handlers[r].generation, handlers[r].next, handlers[r].event)

\* What lastInbound names has been consumed.
LastConsumed ==
    \A s \in Sessions : \A e \in Events :
        session[s].lastInbound = e => e \in session[s].state

IInv == /\ TypeOK
        /\ StagedPrepared
        /\ HandlersPrepared
        /\ LastConsumed
        /\ CommittedWasOpened
        /\ RuntimeSeesOnlyOpened

-----------------------------------------------------------------------------
(* Types *)

\* A handler that is past reading the session holds a message.
LEMMA BusyHandler ==
    ASSUME TypeOK, NEW r \in Receivers, handlers[r].pc # "idle"
    PROVE  /\ handlers[r] \in Handler
           /\ handlers[r].event \in Events
           /\ SessionOf[handlers[r].event] \in Sessions
BY InboundAssumption DEF TypeOK, Handler, OpenedHandler, AcceptedHandler, Idle

\* A record with one of the real states in a field is not NoRecord.
LEMMA RealRecord ==
    ASSUME TypeOK, NEW e \in Events,
           \/ records[e].crypto \notin {"none", "torn"}
           \/ records[e].admission # "none"
           \/ records[e].application # "none"
           \/ Readable(e)
    PROVE  records[e] \in Record
BY DEF TypeOK, Readable, NoRecord, Torn

\* What the updates of a record change and keep.
LEMMA WithCryptoUpdate ==
    ASSUME NEW rec \in Record, NEW c \in CryptoState
    PROVE  WithCrypto(rec, c) \in Record /\ WithCrypto(rec, c).crypto = c
BY Zenon DEF Record, WithCrypto, CryptoState

LEMMA LeasedUpdate ==
    ASSUME NEW rec \in Record, NEW a \in ApplicationState, NEW l \in Nat,
           NEW u \in Nat
    PROVE  /\ Leased(rec, a, l, u) \in Record
           /\ Leased(rec, a, l, u).crypto = rec.crypto
           /\ Leased(rec, a, l, u).expected = rec.expected
           /\ Leased(rec, a, l, u).next = rec.next
BY Zenon DEF Record, Leased, ApplicationState

LEMMA DecisionUpdate ==
    ASSUME NEW rec \in Record, NEW new \in {Admitted(rec), Denied(rec)}
    PROVE  /\ new \in Record
           /\ new.crypto = rec.crypto
           /\ new.expected = rec.expected
           /\ new.next = rec.next
BY Zenon DEF Record, Admitted, Denied, ApplicationState, AdmissionState

LEMMA TypeInit == Init => TypeOK
BY InboundAssumption DEF Init, TypeOK, SessionRecord, Worker

LEMMA TypeReceive ==
    ASSUME TypeOK, NEW r \in Receivers, Receive(r)
    PROVE  TypeOK'
<1>1. ASSUME NEW e \in Events, ReceiveSealed(r, e) PROVE TypeOK'
  BY <1>1, InboundAssumption
     DEF TypeOK, ReceiveSealed, Handler, OpenedHandler, SessionRecord
<1>2. CASE Refuse(r)
  BY Zenon, <1>2 DEF TypeOK, Refuse
<1>3. ASSUME NEW a \in {"admitted", "pending"}, Accept(r, a) PROVE TypeOK'
  <2> DEFINE h == handlers[r]
             e == h.event
  <2>1. h \in Handler /\ e \in Events
    BY Zenon, <1>3, BusyHandler DEF Accept
  <2>2. Staged(h, a) \in Record
    BY Zenon, <2>1 DEF Staged, Record, Handler, OpenedHandler, AcceptedHandler,
                AdmissionState, CryptoState, ApplicationState
  <2>3. records' \in [Events -> Record \cup {NoRecord, Torn}]
    BY Zenon, <1>3, <2>1, <2>2 DEF TypeOK, Accept
  <2>4. handlers' \in [Receivers -> Handler \cup {Idle}]
    <3>1. ASSUME NEW c \in Record PROVE Holding(h, c) \in Handler
      BY Zenon, <2>1 DEF Holding, Handler, OpenedHandler, AcceptedHandler
    <3>2. Readable(e) => records[e] \in Record
      BY Zenon, <2>1, RealRecord
    <3> QED
      BY Zenon, <1>3, <2>1, <2>2, <3>1, <3>2 DEF TypeOK, Accept
  <2>5. acked' \in SUBSET Events
    BY Zenon, <1>3, <2>1 DEF TypeOK, Accept
  <2> QED
    BY Zenon, <1>3, <2>3, <2>4, <2>5 DEF TypeOK, Accept
<1>4. CASE CommitInbound(r)
  <2> DEFINE h == handlers[r]
             e == h.event
  <2>1. h \in Handler /\ e \in Events /\ SessionOf[e] \in Sessions
    BY Zenon, <1>4, BusyHandler DEF CommitInbound
  <2>2. h.copy \in Record
    BY Zenon, <1>4, <2>1 DEF CommitInbound, Handler, OpenedHandler, AcceptedHandler
  <2>3. /\ WithCrypto(h.copy, "abandoned") \in Record
        /\ WithCrypto(h.copy, "committed") \in Record
    BY Zenon, <2>2, WithCryptoUpdate DEF CryptoState
  <2>4. Advanced(h.generation, h.next, e) \in SessionRecord
    BY <2>1 DEF Advanced, SessionRecord, Handler, OpenedHandler,
                AcceptedHandler
  <2> QED
    BY <1>4, <2>1, <2>3, <2>4 DEF TypeOK, CommitInbound
<1> QED
  BY Zenon, <1>1, <1>2, <1>3, <1>4 DEF Receive

\* The transition a staged record carries is well typed.
LEMMA TypeStaged ==
    ASSUME TypeOK, NEW e \in Events, records[e].crypto = "staged"
    PROVE  /\ records[e] \in Record
           /\ SessionOf[e] \in Sessions
           /\ Advanced(records[e].expected, records[e].next, e) \in SessionRecord
BY RealRecord, InboundAssumption DEF Advanced, SessionRecord, Record

LEMMA TypeRecover ==
    ASSUME TypeOK, Recover
    PROVE  TypeOK'
<1>1. ASSUME NEW e \in Events, ResolveStaged(e) PROVE TypeOK'
  <2>1. records[e] \in Record /\ SessionOf[e] \in Sessions
        /\ Advanced(records[e].expected, records[e].next, e) \in SessionRecord
    BY Zenon, <1>1, TypeStaged DEF ResolveStaged
  <2>2. /\ WithCrypto(records[e], "abandoned") \in Record
        /\ WithCrypto(records[e], "committed") \in Record
    BY Zenon, <2>1, WithCryptoUpdate DEF CryptoState
  <2> QED
    BY Zenon, <1>1, <2>1, <2>2 DEF TypeOK, ResolveStaged
<1>2. CASE Opened
  BY Zenon, <1>2 DEF TypeOK, Opened
<1> QED
  BY Zenon, <1>1, <1>2 DEF Recover

LEMMA TypeFail ==
    ASSUME TypeOK, Fail
    PROVE  TypeOK'
<1>1. ASSUME NEW r \in Receivers, handlers[r].pc = "accepted"
      PROVE  /\ SessionOf[handlers[r].event] \in Sessions
             /\ Advanced(handlers[r].generation, handlers[r].next,
                         handlers[r].event) \in SessionRecord
  BY <1>1, BusyHandler DEF Advanced, SessionRecord, Handler, OpenedHandler,
                           AcceptedHandler
<1>2. ASSUME NEW r \in Receivers, CommitFails(r) PROVE TypeOK'
  BY <1>1, <1>2, InboundAssumption DEF TypeOK, CommitFails, Fault
<1>3. CASE Crash
  BY <1>3, InboundAssumption DEF TypeOK, Crash, Die, Fault
<1>4. ASSUME NEW r \in Receivers, CrashInCommit(r) PROVE TypeOK'
  BY <1>1, <1>4, InboundAssumption DEF TypeOK, CrashInCommit, Die, Fault
<1>5. ASSUME NEW r \in Receivers, CrashInAccept(r) PROVE TypeOK'
  BY <1>5, BusyHandler, InboundAssumption DEF TypeOK, CrashInAccept, Die, Fault
<1>6. ASSUME NEW e \in Events, CrashInRecovery(e) PROVE TypeOK'
  BY <1>6, TypeStaged, InboundAssumption
     DEF TypeOK, CrashInRecovery, Die, Fault
<1> QED
  BY Zenon, <1>2, <1>3, <1>4, <1>5, <1>6 DEF Fail

LEMMA TypeWork ==
    ASSUME TypeOK, NEW w \in Workers, Work(w)
    PROVE  TypeOK'
<1>1. CASE List(w)
  BY Zenon, <1>1 DEF TypeOK, List, ListPending, Worker
<1>2. ASSUME NEW e \in Events, ClaimForApplication(w, e) PROVE TypeOK'
  <2>1. records[e] \in Record
    BY Zenon, <1>2, RealRecord DEF ClaimForApplication
  <2>2. Leased(records[e], "claimed", leases + 1, now + LeaseSeconds) \in Record
    <3>1. leases + 1 \in Nat /\ now + LeaseSeconds \in Nat
      BY InboundAssumption DEF TypeOK
    <3>2. "claimed" \in ApplicationState
      BY Zenon DEF ApplicationState
    <3> QED
      BY Zenon, <2>1, <3>1, <3>2, LeasedUpdate
  <2> QED
    BY <1>2, <2>2 DEF TypeOK, ClaimForApplication, Worker
<1>3. ASSUME NEW state \in {"applied", "rejected"}, Finish(w, state)
      PROVE  TypeOK'
  <2> DEFINE e == workers[w].event
  <2>1. e \in Events
    BY Zenon, <1>3 DEF TypeOK, Finish, Worker
  <2>2. HoldsLease(w, e) => Leased(records[e], state, 0, 0) \in Record
    BY Zenon, <2>1, RealRecord, LeasedUpdate DEF HoldsLease, ApplicationState
  <2> QED
    BY <1>3, <2>1, <2>2 DEF TypeOK, Finish, Worker
<1>4. CASE WorkerDies(w)
  BY Zenon, <1>4 DEF TypeOK, WorkerDies, Worker
<1> QED
  BY Zenon, <1>1, <1>2, <1>3, <1>4 DEF Work

LEMMA TypeOwner ==
    ASSUME TypeOK,
           \/ \E e \in Events : AdmitEvent(e) \/ DenyEvent(e) \/ Moderate(e)
           \/ ExpirePendingAdmissions
           \/ Prune
    PROVE  TypeOK'
<1>1. \A e \in Events : records[e].admission = "pending" =>
         Admitted(records[e]) \in Record /\ Denied(records[e]) \in Record
  BY Zenon, RealRecord, DecisionUpdate
<1>2. ASSUME NEW e \in Events, AdmitEvent(e) PROVE TypeOK'
  BY Zenon, <1>1, <1>2 DEF TypeOK, AdmitEvent
<1>3. ASSUME NEW e \in Events, DenyEvent(e) PROVE TypeOK'
  BY Zenon, <1>1, <1>3 DEF TypeOK, DenyEvent
<1>4. ASSUME NEW e \in Events, Moderate(e) PROVE TypeOK'
  BY Zenon, <1>4 DEF TypeOK, Moderate
<1>5. CASE ExpirePendingAdmissions
  BY Zenon, <1>1, <1>5 DEF TypeOK, ExpirePendingAdmissions
<1>6. CASE Prune
  BY Zenon, <1>6 DEF TypeOK, Prune
<1> QED
  BY Zenon, <1>2, <1>3, <1>4, <1>5, <1>6

LEMMA TypeStep == TypeOK /\ [Next]_vars => TypeOK'
<1> SUFFICES ASSUME TypeOK, [Next]_vars PROVE TypeOK'
  BY Zenon
<1>1. ASSUME NEW s \in Sessions, AdvanceSession(s) PROVE TypeOK'
  BY <1>1 DEF TypeOK, AdvanceSession, Advanced, SessionRecord
<1>2. CASE Tick
  BY <1>2 DEF TypeOK, Tick
<1>3. CASE UNCHANGED vars
  BY Zenon, <1>3 DEF TypeOK, vars
<1> QED
  BY Zenon, <1>1, <1>2, <1>3, TypeReceive, TypeRecover, TypeFail, TypeWork, TypeOwner
     DEF Next

\* Every value the inbound side stores is one its file format allows, in every
\* reachable state.
THEOREM TypeCorrect == Spec => []TypeOK
BY TypeInit, TypeStep, PTL DEF Spec

-----------------------------------------------------------------------------
(* Sessions only grow *)

\* What any step does to one session: nothing to generation and state, or one
\* generation more and no event less.
SessionStep ==
    \A s \in Sessions :
        \/ /\ session'[s].generation = session[s].generation
           /\ session'[s].state = session[s].state
        \/ /\ session'[s].generation = session[s].generation + 1
           /\ session[s].state \subseteq session'[s].state

\* Installing a transition prepared at the session's generation is such a step.
LEMMA InstallGrows ==
    ASSUME TypeOK, NEW e \in Events, NEW g \in Nat, NEW n \in SUBSET Events,
           Prepared(g, n, e), g = session[SessionOf[e]].generation,
           session' = [session EXCEPT ![SessionOf[e]] = Advanced(g, n, e)]
    PROVE  /\ SessionStep
           /\ e \in session'[SessionOf[e]].state
           /\ session'[SessionOf[e]].lastInbound = e
           /\ \A s \in Sessions \ {SessionOf[e]} : session'[s] = session[s]
BY Zenon, InboundAssumption DEF TypeOK, SessionRecord, Prepared, Advanced, SessionStep

LEMMA StepGrows ==
    ASSUME IInv, [Next]_vars
    PROVE  SessionStep /\ LastConsumed'
<1> USE DEF IInv
<1>1. ASSUME NEW e \in Events, NEW g \in Nat, NEW n \in SUBSET Events,
             Prepared(g, n, e), g = session[SessionOf[e]].generation,
             session' = [session EXCEPT ![SessionOf[e]] = Advanced(g, n, e)]
      PROVE  SessionStep /\ LastConsumed'
  BY Zenon, <1>1, InstallGrows DEF LastConsumed
<1>2. ASSUME session' = session PROVE SessionStep /\ LastConsumed'
  BY Zenon, <1>2 DEF SessionStep, LastConsumed
<1>3. ASSUME NEW r \in Receivers, handlers[r].pc = "accepted",
             ~SessionMoved(handlers[r]),
             session' = [session EXCEPT ![SessionOf[handlers[r].event]] =
                Advanced(handlers[r].generation, handlers[r].next,
                         handlers[r].event)]
      PROVE  SessionStep /\ LastConsumed'
  <2>1. /\ handlers[r].event \in Events
        /\ handlers[r].generation \in Nat
        /\ handlers[r].next \in SUBSET Events
        /\ handlers[r] # Idle
    BY <1>3, BusyHandler DEF Handler, OpenedHandler, AcceptedHandler, Idle
  <2>2. Prepared(handlers[r].generation, handlers[r].next, handlers[r].event)
    BY Zenon, <2>1 DEF HandlersPrepared
  <2> QED
    BY Zenon, <1>1, <1>3, <2>1, <2>2 DEF SessionMoved
<1>4. ASSUME NEW e \in Events, records[e].crypto = "staged",
             session[SessionOf[e]].generation = records[e].expected,
             session' = [session EXCEPT ![SessionOf[e]] =
                Advanced(records[e].expected, records[e].next, e)]
      PROVE  SessionStep /\ LastConsumed'
  <2>1. records[e].expected \in Nat /\ records[e].next \in SUBSET Events
    BY Zenon, <1>4, RealRecord DEF Record
  <2>2. Prepared(records[e].expected, records[e].next, e)
    BY Zenon, <1>4 DEF StagedPrepared
  <2> QED
    BY ZenonT(40), <1>1, <1>4, <2>1, <2>2
<1>5. ASSUME NEW r \in Receivers, Receive(r) PROVE SessionStep /\ LastConsumed'
  BY Zenon, <1>2, <1>3, <1>5 DEF Receive, ReceiveSealed, Refuse, Accept, CommitInbound
<1>6. CASE Recover
  BY SMTT(40), <1>2, <1>4, <1>6 DEF Recover, ResolveStaged, Opened
<1>7. CASE Fail
  BY Zenon, <1>2, <1>3, <1>4, <1>7
     DEF Fail, CommitFails, Crash, CrashInAccept, CrashInCommit, CrashInRecovery
<1>8. ASSUME NEW s \in Sessions, AdvanceSession(s)
      PROVE  SessionStep /\ LastConsumed'
  BY Zenon, <1>8, InboundAssumption
     DEF AdvanceSession, Advanced, TypeOK, SessionRecord, SessionStep,
         LastConsumed
<1>9. ASSUME NEW w \in Workers, Work(w) PROVE SessionStep /\ LastConsumed'
  BY Zenon, <1>2, <1>9 DEF Work, List, ClaimForApplication, Finish, WorkerDies
<1>10. ASSUME NEW e \in Events, AdmitEvent(e) \/ DenyEvent(e) \/ Moderate(e)
       PROVE  SessionStep /\ LastConsumed'
  BY Zenon, <1>2, <1>10 DEF AdmitEvent, DenyEvent, Moderate
<1>11. CASE ExpirePendingAdmissions \/ Prune \/ Tick \/ UNCHANGED vars
  BY Zenon, <1>2, <1>11 DEF ExpirePendingAdmissions, Prune, Tick, vars
<1> QED
  BY Zenon, <1>5, <1>6, <1>7, <1>8, <1>9, <1>10, <1>11 DEF Next

\* A prepared transition stays prepared when sessions grow.
LEMMA PreparedKept ==
    ASSUME TypeOK, TypeOK', SessionStep, NEW e \in Events, NEW g \in Nat, NEW n,
           Prepared(g, n, e)
    PROVE  Prepared(g, n, e)'
<1> DEFINE s == SessionOf[e]
<1>1. s \in Sessions
  BY Zenon, InboundAssumption
<1>2. session[s].generation \in Nat /\ session'[s].generation \in Nat
  BY Zenon, <1>1 DEF TypeOK, SessionRecord
<1> QED
  BY <1>1, <1>2 DEF SessionStep, Prepared

LEMMA ConsumedKept ==
    ASSUME SessionStep, NEW e \in Events, Consumed(e)
    PROVE  Consumed(e)'
BY Zenon, InboundAssumption DEF SessionStep, Consumed

-----------------------------------------------------------------------------
(* The inductive invariant *)

\* The ways a step may leave one record: none or abandoned, as it was (as far as
\* the crypto state goes), freshly prepared, or consumed and committed.
RecordStep(e) ==
    \/ records'[e].crypto \notin {"staged", "committed"}
    \/ /\ records'[e].crypto = records[e].crypto
       /\ records'[e].expected = records[e].expected
       /\ records'[e].next = records[e].next
    \/ /\ records'[e].crypto = "staged"
       /\ Prepared(records[e].expected, records[e].next, e)'
    \/ /\ records'[e].crypto = "committed"
       /\ Consumed(e)'

LEMMA RecordsKept ==
    ASSUME IInv, TypeOK', SessionStep, \A e \in Events : RecordStep(e)
    PROVE  StagedPrepared' /\ CommittedWasOpened'
<1>1. ASSUME NEW e \in Events, records'[e].crypto = "staged"
      PROVE  Prepared(records[e].expected, records[e].next, e)'
  <2>1. CASE /\ records[e].crypto = "staged"
             /\ records'[e].expected = records[e].expected
             /\ records'[e].next = records[e].next
    <3>1. records[e].expected \in Nat
      BY Zenon, <2>1, RealRecord DEF IInv, Record
    <3>2. Prepared(records[e].expected, records[e].next, e)
      BY Zenon, <2>1 DEF IInv, StagedPrepared
    <3> QED
      BY Zenon, <2>1, <3>1, <3>2, PreparedKept DEF IInv, Prepared
  <2> QED
    BY Zenon, <1>1, <2>1 DEF RecordStep
<1>2. ASSUME NEW e \in Events, records'[e].crypto = "committed"
      PROVE  Consumed(e)'
  BY Zenon, <1>2, ConsumedKept DEF RecordStep, IInv, CommittedWasOpened, Deliverable
<1> QED
  BY Zenon, <1>1, <1>2 DEF StagedPrepared, CommittedWasOpened, Deliverable

LEMMA RecordsReceive ==
    ASSUME IInv, TypeOK', NEW r \in Receivers, Receive(r), NEW e \in Events
    PROVE  RecordStep(e)
<1> USE DEF IInv
<1>0. records \in [Events -> Record \cup {NoRecord, Torn}]
  BY Zenon DEF TypeOK
<1>1. CASE records' = records
  BY Zenon, <1>1 DEF RecordStep
<1>2. ASSUME NEW a \in {"admitted", "pending"}, Accept(r, a),
             ~(records' = records)
      PROVE  RecordStep(e)
  <2> DEFINE h == handlers[r]
  <2>1. h.event \in Events /\ h # Idle
    <3>1. h.pc = "opened"
      BY Zenon, <1>2 DEF Accept
    <3>2. h.event \in Events
      BY Zenon, <3>1, BusyHandler
    <3> QED
      BY <3>1, <3>2 DEF Idle
  <2>2. records' = [records EXCEPT ![h.event] = Staged(h, a)]
    BY Zenon, <1>2 DEF Accept
  <2>3. CASE e = h.event
    <3>1. records'[e] = Staged(h, a)
      BY Zenon, <1>0, <2>1, <2>2, <2>3
    <3>2. Prepared(h.generation, h.next, e)
      BY Zenon, <2>1, <2>3 DEF HandlersPrepared
    <3>3. session' = session
      BY ZenonT(30), <1>2 DEF Accept
    <3>4. Prepared(records[e].expected, records[e].next, e)'
      BY <3>1, <3>2, <3>3 DEF Prepared, Staged
    <3> QED
      BY <3>1, <3>4 DEF RecordStep, Staged
  <2>4. CASE e # h.event
    BY Zenon, <1>0, <2>2, <2>4 DEF RecordStep
  <2> QED
    BY Zenon, <2>3, <2>4
<1>3. CASE CommitInbound(r)
  <2> DEFINE h == handlers[r]
  <2>1. h.event \in Events /\ h # Idle /\ h \in Handler
    BY <1>3, BusyHandler DEF CommitInbound, Idle
  <2>2. h.copy \in Record
    BY Zenon, <1>3, <2>1 DEF CommitInbound, Handler, OpenedHandler, AcceptedHandler
  <2>3. CASE e # h.event
    BY Zenon, <1>0, <1>3, <2>3 DEF CommitInbound, RecordStep
  <2>4. CASE e = h.event /\ SessionMoved(h)
    <3>1. records'[e] = WithCrypto(h.copy, "abandoned")
      BY Zenon, <1>0, <1>3, <2>4 DEF CommitInbound
    <3>2. records'[e].crypto = "abandoned"
      BY <2>2, <3>1, WithCryptoUpdate DEF CryptoState
    <3> QED
      BY Zenon, <3>2 DEF RecordStep
  <2>5. CASE e = h.event /\ ~SessionMoved(h)
    <3>1. /\ records'[e] = WithCrypto(h.copy, "committed")
          /\ session' = [session EXCEPT ![SessionOf[e]] =
                            Advanced(h.generation, h.next, e)]
      BY Zenon, <1>0, <1>3, <2>5 DEF CommitInbound
    <3>2. records'[e].crypto = "committed"
      BY <2>2, <3>1, WithCryptoUpdate DEF CryptoState
    <3>3. Prepared(h.generation, h.next, e)
      BY Zenon, <2>1, <2>5 DEF HandlersPrepared
    <3>4. h.generation \in Nat /\ h.next \in SUBSET Events
      BY SMTT(40), <2>1 DEF Handler, OpenedHandler, AcceptedHandler
    <3>5. e \in session'[SessionOf[e]].state
      BY Zenon, <2>5, <3>1, <3>3, <3>4, InstallGrows DEF SessionMoved
    <3> QED
      BY Zenon, <3>2, <3>5 DEF RecordStep, Consumed
  <2> QED
    BY Zenon, <2>3, <2>4, <2>5
<1> QED
  BY Zenon, <1>1, <1>2, <1>3 DEF Receive, ReceiveSealed, Refuse

LEMMA RecordsRecover ==
    ASSUME IInv, TypeOK', Recover, NEW e \in Events
    PROVE  RecordStep(e)
<1> USE DEF IInv
<1>0. records \in [Events -> Record \cup {NoRecord, Torn}]
  BY Zenon DEF TypeOK
<1>1. ASSUME NEW x \in Events, ResolveStaged(x) PROVE RecordStep(e)
  <2>1. records[x] \in Record
    BY Zenon, <1>1, RealRecord DEF ResolveStaged
  <2>2. CASE e # x
    BY Zenon, <1>0, <1>1, <2>2 DEF ResolveStaged, RecordStep
  <2>3. CASE e = x /\ records' = [records EXCEPT ![x] =
                                     WithCrypto(records[x], "abandoned")]
    <3>1. records'[e].crypto = "abandoned"
      BY Zenon, <1>0, <2>1, <2>3, WithCryptoUpdate DEF CryptoState
    <3> QED
      BY Zenon, <3>1 DEF RecordStep
  <2>4. CASE e = x /\ records' = [records EXCEPT ![x] =
                                     WithCrypto(records[x], "committed")]
    <3>1. records'[e].crypto = "committed"
      BY Zenon, <1>0, <2>1, <2>4, WithCryptoUpdate DEF CryptoState
    <3>2. ~(records'[e].crypto = "abandoned")
      BY Zenon, <3>1
    <3>3. WithCrypto(records[x], "abandoned").crypto = "abandoned"
      BY Zenon, <2>1, WithCryptoUpdate DEF CryptoState
    <3>4. ~(records' = [records EXCEPT ![x] =
                           WithCrypto(records[x], "abandoned")])
      BY Zenon, <1>0, <2>4, <3>2, <3>3
    <3>5. CASE AlreadyAdvanced(records[x], x) /\ session' = session
      <4>1. SessionOf[x] \in Sessions
        BY Zenon, InboundAssumption
      <4>2. x \in session[SessionOf[x]].state
        BY Zenon, <3>5, <4>1 DEF AlreadyAdvanced, LastConsumed
      <4> QED
        BY Zenon, <2>4, <3>1, <3>5, <4>2 DEF RecordStep, Consumed
    <3>6. CASE /\ session[SessionOf[x]].generation = records[x].expected
               /\ session' = [session EXCEPT ![SessionOf[x]] =
                     Advanced(records[x].expected, records[x].next, x)]
      <4>1. Prepared(records[x].expected, records[x].next, x)
        BY Zenon, <1>1 DEF ResolveStaged, StagedPrepared
      <4>2. records[x].expected \in Nat /\ records[x].next \in SUBSET Events
        BY Zenon, <2>1 DEF Record
      <4>3. x \in session'[SessionOf[x]].state
        BY Zenon, <3>6, <4>1, <4>2, InstallGrows
      <4> QED
        BY Zenon, <2>4, <3>1, <4>3 DEF RecordStep, Consumed
    <3> QED
      BY Zenon, <1>1, <3>4, <3>5, <3>6 DEF ResolveStaged
  <2> QED
    BY Zenon, <1>1, <2>2, <2>3, <2>4 DEF ResolveStaged
<1>2. CASE Opened
  BY Zenon, <1>2 DEF Opened, RecordStep
<1> QED
  BY Zenon, <1>1, <1>2 DEF Recover

LEMMA RecordsOther ==
    ASSUME IInv, TypeOK', NEW e \in Events,
           \/ Fail
           \/ \E s \in Sessions : AdvanceSession(s)
           \/ \E w \in Workers : Work(w)
           \/ \E x \in Events : AdmitEvent(x) \/ DenyEvent(x) \/ Moderate(x)
           \/ ExpirePendingAdmissions
           \/ Prune
           \/ Tick
           \/ UNCHANGED vars
    PROVE  RecordStep(e)
<1> USE DEF IInv
<1>0. records \in [Events -> Record \cup {NoRecord, Torn}]
  BY Zenon DEF TypeOK
<1>1. CASE records'[e] = records[e]
  BY Zenon, <1>1 DEF RecordStep
<1>2. ASSUME NEW w \in Workers, NEW x \in Events, ClaimForApplication(w, x)
      PROVE  RecordStep(e)
  <2>1. records[x] \in Record
    BY Zenon, <1>2, RealRecord DEF ClaimForApplication
  <2>2. leases + 1 \in Nat /\ now + LeaseSeconds \in Nat
    BY InboundAssumption DEF TypeOK
  <2>3. "claimed" \in ApplicationState
    BY Zenon DEF ApplicationState
  <2>4. CASE e = x
    <3>1. records'[e] =
             Leased(records[x], "claimed", leases + 1, now + LeaseSeconds)
      BY Zenon, <1>0, <1>2, <2>4 DEF ClaimForApplication
    <3> QED
      <4>1. /\ records'[e].crypto = records[x].crypto
            /\ records'[e].expected = records[x].expected
            /\ records'[e].next = records[x].next
        BY <2>1, <2>2, <2>3, <3>1, LeasedUpdate
      <4> QED
        BY Zenon, <2>4, <4>1 DEF RecordStep
  <2>5. CASE e # x
    BY Zenon, <1>0, <1>1, <1>2, <2>5 DEF ClaimForApplication
  <2> QED
    BY Zenon, <2>4, <2>5
<1>3. ASSUME NEW w \in Workers, NEW state \in {"applied", "rejected"},
             Finish(w, state)
      PROVE  RecordStep(e)
  <2> DEFINE x == workers[w].event
  <2>1. CASE HoldsLease(w, x) /\ e = x
    <3>1. records[x] \in Record
      BY Zenon, <2>1, RealRecord DEF HoldsLease
    <3>2. state \in ApplicationState
      BY Zenon DEF ApplicationState
    <3>3. records'[e] = Leased(records[x], state, 0, 0)
      BY Zenon, <1>0, <1>3, <2>1 DEF Finish
    <3> QED
      <4>1. /\ records'[e].crypto = records[x].crypto
            /\ records'[e].expected = records[x].expected
            /\ records'[e].next = records[x].next
        BY <3>1, <3>2, <3>3, LeasedUpdate
      <4> QED
        BY Zenon, <2>1, <4>1 DEF RecordStep
  <2>2. CASE ~(HoldsLease(w, x) /\ e = x)
    BY Zenon, <1>0, <1>1, <1>3, <2>2 DEF Finish
  <2> QED
    BY ZenonT(30), <2>1, <2>2
<1>4. \A x \in Events : records[x].admission = "pending" => records[x] \in Record
  BY Zenon, RealRecord
<1>5. ASSUME NEW x \in Events, AdmitEvent(x) \/ DenyEvent(x)
      PROVE  RecordStep(e)
  <2>1. records'[x] \in {Admitted(records[x]), Denied(records[x])}
    BY Zenon, <1>0, <1>5 DEF AdmitEvent, DenyEvent
  <2>2. records[x] \in Record
    BY Zenon, <1>4, <1>5 DEF AdmitEvent, DenyEvent
  <2>3. CASE e = x
    BY Zenon, <2>1, <2>2, <2>3, DecisionUpdate DEF RecordStep
  <2>4. CASE e # x
    BY Zenon, <1>0, <1>1, <1>5, <2>4 DEF AdmitEvent, DenyEvent
  <2> QED
    BY Zenon, <2>3, <2>4
<1>6. CASE ExpirePendingAdmissions
  <2>1. \/ records'[e] = records[e]
        \/ records[e].admission = "pending" /\ records'[e] = Denied(records[e])
    BY ZenonT(40), <1>6 DEF ExpirePendingAdmissions
  <2> QED
    BY ZenonT(30), <1>1, <1>4, <2>1, DecisionUpdate DEF RecordStep
<1>7. CASE Prune
  <2>1. records'[e] = records[e] \/ records'[e] = NoRecord
    BY Zenon, <1>7 DEF Prune
  <2>2. NoRecord.crypto = "none"
    BY Zenon DEF NoRecord
  <2> QED
    BY Zenon, <1>1, <2>1, <2>2 DEF RecordStep
<1>8. ASSUME NEW r \in Receivers, CrashInAccept(r) PROVE RecordStep(e)
  <2>1. records'[e] = records[e] \/ records'[e] = Torn
    BY Zenon, <1>0, <1>8 DEF CrashInAccept
  <2>2. Torn.crypto = "torn"
    BY ZenonT(30) DEF Torn
  <2> QED
    BY Zenon, <1>1, <2>1, <2>2 DEF RecordStep
<1>9. CASE \/ Crash
           \/ \E r \in Receivers : CommitFails(r) \/ CrashInCommit(r)
           \/ \E x \in Events : CrashInRecovery(x)
           \/ \E s \in Sessions : AdvanceSession(s)
           \/ \E w \in Workers : List(w) \/ WorkerDies(w)
           \/ \E x \in Events : Moderate(x)
           \/ Tick
           \/ UNCHANGED vars
  BY Zenon, <1>1, <1>9 DEF CommitFails, Crash, CrashInCommit, CrashInRecovery,
                    AdvanceSession, List, WorkerDies, Moderate, Tick, vars
<1> QED
  BY Zenon, <1>2, <1>3, <1>5, <1>6, <1>7, <1>8, <1>9 DEF Work, Fail

LEMMA HandlersStep ==
    ASSUME IInv, TypeOK', SessionStep, [Next]_vars
    PROVE  HandlersPrepared'
<1> USE DEF IInv
\* A handler that a step leaves alone, or only lets remember a record.
<1>1. ASSUME NEW r \in Receivers, handlers[r] # Idle,
             handlers'[r].generation = handlers[r].generation,
             handlers'[r].next = handlers[r].next,
             handlers'[r].event = handlers[r].event
      PROVE  Prepared(handlers[r].generation, handlers[r].next,
                      handlers[r].event)'
  <2>1. handlers[r].event \in Events /\ handlers[r].generation \in Nat
    BY Zenon, <1>1 DEF TypeOK, Handler, OpenedHandler, AcceptedHandler
  <2>2. Prepared(handlers[r].generation, handlers[r].next, handlers[r].event)
    BY Zenon, <1>1 DEF HandlersPrepared
  <2> QED
    BY <1>1, <2>1, <2>2, PreparedKept DEF Prepared
<1>2. CASE handlers' = handlers
  BY Zenon, <1>1, <1>2 DEF HandlersPrepared
<1>3. ASSUME NEW r \in Receivers, handlers' = [handlers EXCEPT ![r] = Idle]
      PROVE  HandlersPrepared'
  BY Zenon, <1>1, <1>3 DEF HandlersPrepared, TypeOK
<1>4. CASE handlers' = [r \in Receivers |-> Idle]
  BY Zenon, <1>4 DEF HandlersPrepared
<1>5. ASSUME NEW r \in Receivers, Receive(r) PROVE HandlersPrepared'
  <2>1. ASSUME NEW e \in Events, ReceiveSealed(r, e), ~(handlers' = handlers)
        PROVE  HandlersPrepared'
    <3> DEFINE new == [pc |-> "opened", event |-> e,
                       generation |-> session[SessionOf[e]].generation,
                       next |-> session[SessionOf[e]].state \cup {e},
                       at |-> now, copy |-> NoRecord]
    <3>1. handlers' = [handlers EXCEPT ![r] = new] /\ session' = session
      BY ZenonT(40), <2>1 DEF ReceiveSealed
    <3>2. /\ handlers'[r].generation = session[SessionOf[e]].generation
          /\ handlers'[r].next = session[SessionOf[e]].state \cup {e}
          /\ handlers'[r].event = e
      BY Zenon, <3>1 DEF TypeOK
    <3>3. session[SessionOf[e]].generation \in Nat
      BY Zenon, InboundAssumption DEF TypeOK, SessionRecord
    <3> HIDE DEF new
    <3>4. Prepared(handlers[r].generation, handlers[r].next, handlers[r].event)'
      BY <3>1, <3>2, <3>3 DEF Prepared
    <3>5. \A q \in Receivers \ {r} : handlers'[q] = handlers[q]
      BY Zenon, <3>1 DEF TypeOK
    <3> QED
      BY ZenonT(30), <1>1, <3>4, <3>5 DEF HandlersPrepared
  <2>2. ASSUME NEW c, handlers' = [handlers EXCEPT ![r] = Holding(handlers[r], c)],
               handlers[r].pc = "opened"
        PROVE  HandlersPrepared'
    <3>1. handlers[r] \in Handler /\ handlers[r] # Idle
      BY <2>2, BusyHandler DEF Idle
    <3>2. /\ Holding(handlers[r], c).generation = handlers[r].generation
          /\ Holding(handlers[r], c).next = handlers[r].next
          /\ Holding(handlers[r], c).event = handlers[r].event
      BY Zenon, <3>1 DEF Holding, Handler, OpenedHandler, AcceptedHandler
    <3>3. \A q \in Receivers \ {r} : handlers'[q] = handlers[q]
      BY Zenon, <2>2 DEF TypeOK
    <3>4. Prepared(handlers[r].generation, handlers[r].next, handlers[r].event)'
      BY Zenon, <1>1, <2>2, <3>1, <3>2 DEF TypeOK
    <3> QED
      BY Zenon, <1>1, <3>3, <3>4 DEF HandlersPrepared
  <2>3. ASSUME NEW a \in {"admitted", "pending"}, Accept(r, a)
        PROVE  HandlersPrepared'
    BY Zenon, <1>2, <1>3, <2>2, <2>3 DEF Accept
  <2> QED
    BY Zenon, <1>2, <1>3, <1>5, <2>1, <2>3 DEF Receive, Refuse, CommitInbound
<1>6. CASE Fail
  BY SMTT(40), <1>3, <1>4, <1>6
     DEF Fail, CommitFails, Crash, CrashInAccept, CrashInCommit,
         CrashInRecovery, Die
<1>7. CASE \/ Recover
           \/ \E s \in Sessions : AdvanceSession(s)
           \/ \E w \in Workers : Work(w)
           \/ \E e \in Events : AdmitEvent(e) \/ DenyEvent(e) \/ Moderate(e)
           \/ ExpirePendingAdmissions
           \/ Prune
           \/ Tick
           \/ UNCHANGED vars
  BY Zenon, <1>2, <1>7
     DEF Recover, ResolveStaged, Opened, AdvanceSession, Work, List,
         ClaimForApplication, Finish, WorkerDies, AdmitEvent, DenyEvent,
         Moderate, ExpirePendingAdmissions, Prune, Tick, vars
<1> QED
  BY Zenon, <1>5, <1>6, <1>7 DEF Next

LEMMA WorkersStep ==
    ASSUME IInv, SessionStep, [Next]_vars
    PROVE  RuntimeSeesOnlyOpened'
<1> USE DEF IInv
<1>1. ASSUME NEW w \in Workers, NEW e \in Events, Consumed(e)
      PROVE  Consumed(e)'
  BY Zenon, <1>1, ConsumedKept
<1>2. CASE workers' = workers
  BY Zenon, <1>1, <1>2 DEF RuntimeSeesOnlyOpened
<1>3. ASSUME NEW w \in Workers, NEW new,
             workers' = [workers EXCEPT ![w] = new],
             \A e \in Events : e \in new.listed \/ e = new.event => Consumed(e)
      PROVE  RuntimeSeesOnlyOpened'
  BY Zenon, <1>1, <1>3 DEF RuntimeSeesOnlyOpened, TypeOK
<1>4. ASSUME NEW w \in Workers, List(w) PROVE RuntimeSeesOnlyOpened'
  <2>1. \A e \in ListPending : Consumed(e)
    BY Zenon DEF ListPending, CommittedWasOpened
  <2> DEFINE new == [listed |-> {e \in ListPending : KindOf[e] \in Adapter[w]},
                     event |-> None, lease |-> 0]
  <2>2. workers' = [workers EXCEPT ![w] = new]
    BY Zenon, <1>4 DEF List
  <2>3. \A e \in Events : e \in new.listed \/ e = new.event => Consumed(e)
    BY Zenon, <2>1, InboundAssumption
  <2> QED
    BY Zenon, <1>3, <2>2, <2>3
<1>5. ASSUME NEW w \in Workers, NEW e \in Events, ClaimForApplication(w, e)
      PROVE  RuntimeSeesOnlyOpened'
  <2> DEFINE new == [listed |-> workers[w].listed, event |-> e,
                     lease |-> leases + 1]
  <2>1. workers' = [workers EXCEPT ![w] = new]
    BY Zenon, <1>5 DEF ClaimForApplication
  <2>2. \A x \in Events : x \in new.listed \/ x = new.event => Consumed(x)
    BY Zenon, <1>5 DEF ClaimForApplication, RuntimeSeesOnlyOpened
  <2> QED
    BY Zenon, <1>3, <2>1, <2>2
<1>6. ASSUME NEW w \in Workers, NEW state \in {"applied", "rejected"},
             Finish(w, state)
      PROVE  RuntimeSeesOnlyOpened'
  <2> DEFINE new == [listed |-> workers[w].listed, event |-> None, lease |-> 0]
  <2>1. workers' = [workers EXCEPT ![w] = new]
    BY Zenon, <1>6 DEF Finish
  <2>2. \A x \in Events : x \in new.listed \/ x = new.event => Consumed(x)
    BY Zenon, InboundAssumption DEF RuntimeSeesOnlyOpened
  <2> QED
    BY Zenon, <1>3, <2>1, <2>2
<1>7. ASSUME NEW w \in Workers, WorkerDies(w) PROVE RuntimeSeesOnlyOpened'
  <2> DEFINE new == [listed |-> {}, event |-> None, lease |-> 0]
  <2>1. workers' = [workers EXCEPT ![w] = new]
    BY Zenon, <1>7 DEF WorkerDies
  <2>2. \A x \in Events : x \in new.listed \/ x = new.event => Consumed(x)
    BY SMTT(40), InboundAssumption
  <2> QED
    BY ZenonT(40), <1>3, <2>1, <2>2
<1>8. ASSUME NEW r \in Receivers, Receive(r) PROVE RuntimeSeesOnlyOpened'
  BY ZenonT(40), <1>2, <1>8 DEF Receive, ReceiveSealed, Refuse, Accept, CommitInbound
<1>9. CASE \/ Recover
           \/ Fail
           \/ \E s \in Sessions : AdvanceSession(s)
           \/ \E e \in Events : AdmitEvent(e) \/ DenyEvent(e) \/ Moderate(e)
           \/ ExpirePendingAdmissions
           \/ Prune
           \/ Tick
           \/ UNCHANGED vars
  BY Zenon, <1>2, <1>9
     DEF Recover, ResolveStaged, Opened, Fail, CommitFails, Crash,
         CrashInAccept, CrashInCommit, CrashInRecovery, AdvanceSession,
         AdmitEvent, DenyEvent, Moderate, ExpirePendingAdmissions, Prune, Tick, vars
<1> QED
  BY Zenon, <1>4, <1>5, <1>6, <1>7, <1>8, <1>9 DEF Next, Work

LEMMA IInvInit == Init => IInv
<1> SUFFICES ASSUME Init PROVE IInv
  BY Zenon
<1>1. TypeOK
  BY Zenon, TypeInit
<1>2. \A e \in Events : records[e].crypto = "none"
  BY ZenonT(40) DEF Init, NoRecord
<1>3. StagedPrepared /\ CommittedWasOpened
  BY Zenon, <1>2 DEF StagedPrepared, CommittedWasOpened, Deliverable
<1>4. HandlersPrepared
  <2>1. \A r \in Receivers : handlers[r] = Idle
    BY ZenonT(40) DEF Init
  <2> QED
    BY Zenon, <2>1 DEF HandlersPrepared
<1>5. LastConsumed
  <2>1. None \notin Events
    BY Zenon, InboundAssumption
  <2>2. \A s \in Sessions : session[s].lastInbound = None
    <3>1. session \in [Sessions -> {[generation |-> g, state |-> {}, lastInbound |-> None] :
                                    g \in {0, 1}}]
      BY Zenon DEF Init
    <3>2. \A g : [generation |-> g, state |-> {}, lastInbound |-> None].lastInbound = None
      BY Zenon
    <3> QED
      BY ZenonT(40), <3>1, <3>2
  <2> QED
    BY Zenon, <2>1, <2>2 DEF LastConsumed
<1>6. RuntimeSeesOnlyOpened
  <2>1. None \notin Events
    BY Zenon, InboundAssumption
  <2>2. \A w \in Workers : workers[w].listed = {} /\ workers[w].event = None
    BY Zenon DEF Init
  <2> QED
    BY Zenon, <2>1, <2>2 DEF RuntimeSeesOnlyOpened
<1> QED
  BY Zenon, <1>1, <1>3, <1>4, <1>5, <1>6 DEF IInv

LEMMA IInvStep == IInv /\ [Next]_vars => IInv'
<1> SUFFICES ASSUME IInv, [Next]_vars PROVE IInv'
  BY Zenon
<1>1. TypeOK'
  BY Zenon, TypeStep DEF IInv
<1>2. SessionStep /\ LastConsumed'
  BY Zenon, StepGrows
<1>3. \A e \in Events : RecordStep(e)
  BY Zenon, <1>1, RecordsReceive, RecordsRecover, RecordsOther DEF Next
<1>4. StagedPrepared' /\ CommittedWasOpened'
  BY Zenon, <1>1, <1>2, <1>3, RecordsKept
<1>5. HandlersPrepared' /\ RuntimeSeesOnlyOpened'
  BY Zenon, <1>1, <1>2, HandlersStep, WorkersStep
<1> QED
  BY Zenon, <1>1, <1>2, <1>4, <1>5 DEF IInv

LEMMA Invariance == Spec => []IInv
BY IInvInit, IInvStep, PTL DEF Spec

\* A record is committed only when the ratchet consumed its ciphertext, however
\* many handlers race on a session and wherever the process dies in
\* commitInbound or in recovery.
THEOREM CommitIsBacked == Spec => []CommittedWasOpened
<1>1. IInv => CommittedWasOpened
  BY Zenon DEF IInv
<1> QED
  BY <1>1, Invariance, PTL

\* What ListPending offers a runtime, and what a runtime works on under a lease,
\* has been opened by the session, even long after it was listed.
THEOREM RuntimeIsShielded == Spec => []RuntimeSeesOnlyOpened
<1>1. IInv => RuntimeSeesOnlyOpened
  BY Zenon DEF IInv
<1> QED
  BY <1>1, Invariance, PTL

\* Whatever is deliverable, offered to a runtime or worked on has been opened.
THEOREM DeliveredWasOpened == Spec => []OnlyOpenedIsDelivered
<1>1. IInv => OnlyOpenedIsDelivered
  BY Zenon DEF IInv, OnlyOpenedIsDelivered
<1> QED
  BY <1>1, Invariance, PTL

\* The generation check makes every write of a session an extension of the state
\* it replaces: no step forgets a consumed ciphertext.
THEOREM RatchetMonotone == Spec => RatchetNeverForgets
<1>1. IInv /\ [Next]_vars =>
         [\A s \in Sessions :
            /\ session[s].state \subseteq session'[s].state
            /\ session[s].generation <= session'[s].generation
            /\ session'[s].state # session[s].state =>
                  session'[s].generation = session[s].generation + 1]_vars
  <2> SUFFICES ASSUME IInv, [Next]_vars, NEW s \in Sessions
               PROVE  /\ session[s].state \subseteq session'[s].state
                      /\ session[s].generation <= session'[s].generation
                      /\ session'[s].state # session[s].state =>
                           session'[s].generation = session[s].generation + 1
    BY Zenon
  <2>1. SessionStep
    BY Zenon, StepGrows
  <2>2. session[s].generation \in Nat
    BY Zenon DEF IInv, TypeOK, SessionRecord
  <2> QED
    BY <2>1, <2>2 DEF SessionStep
<1> QED
  BY <1>1, Invariance, PTL DEF Spec, RatchetNeverForgets

-----------------------------------------------------------------------------
(***************************************************************************)
(* Exactly once: what was acknowledged stays deliverable until it is       *)
(* settled, no event is finished twice and an abandoned one can still be   *)
(* opened. It takes two assumptions the code does not enforce, that the    *)
(* handlers of one event do not overlap and that nothing fails             *)
(* (Undisturbed), and the inductive invariant SerialInv: a handler works   *)
(* on an event the ratchet has not consumed, only a commit consumes, and   *)
(* what was settled is over.                                               *)
(***************************************************************************)

\* No two handlers work on one event, no write fails and the process lives.
Undisturbed == ~Overlap /\ FaultKinds = {}

\* One handler for an event, which the ratchet has not consumed yet.
HandlersApart ==
    /\ \A q, r \in Receivers :
          handlers[q] # Idle /\ handlers[q].event = handlers[r].event => q = r
    /\ \A r \in Receivers : handlers[r] # Idle => ~Consumed(handlers[r].event)

\* Only a commit consumes: what is staged or abandoned has not been consumed, and
\* what has been consumed is committed until it is settled.
RecordsFollow ==
    \A e \in Events :
        /\ records[e].crypto \in {"staged", "abandoned", "torn"} => ~Consumed(e)
        /\ Consumed(e) => Deliverable(e) \/ e \in finished

\* What a record, or the copy of one in a handler, calls settled was settled.
SettledIsFinished ==
    /\ \A e \in Events : Terminal(records[e]) => e \in finished
    /\ \A r \in Receivers :
          Terminal(handlers[r].copy) => handlers[r].event \in finished

\* An event that was applied is settled for good.
AppliedIsOver ==
    \A e \in Events :
        \/ applied[e] = 0
        \/ /\ applied[e] = 1
           /\ Consumed(e)
           /\ records[e] = NoRecord \/ Terminal(records[e])

SerialInv ==
    /\ IInv
    /\ mode = "serving"
    /\ HandlersApart
    /\ RecordsFollow
    /\ SettledIsFinished
    /\ AppliedIsOver
    /\ \A e \in acked : Consumed(e)

\* The ways a step may leave the record of one event.
Keeping(e) ==
    /\ records'[e].crypto = records[e].crypto
    /\ records[e] = NoRecord => records'[e] = NoRecord
    /\ Terminal(records[e]) => Terminal(records'[e])
    /\ Terminal(records'[e]) => Terminal(records[e]) \/ e \in finished'
    /\ applied'[e] = applied[e]
    /\ Consumed(e)' <=> Consumed(e)

Staging(e) ==
    /\ ~Consumed(e) /\ ~Consumed(e)'
    /\ records'[e].crypto = "staged"
    /\ ~Terminal(records'[e])
    /\ applied'[e] = applied[e]

Committing(e) ==
    /\ ~Consumed(e)
    /\ \/ records'[e].crypto = "committed" /\ Consumed(e)'
       \/ records'[e].crypto = "abandoned" /\ ~Consumed(e)'
    /\ \A r \in Receivers : handlers'[r].event # e
    /\ Terminal(records'[e]) => e \in finished
    /\ applied'[e] = applied[e]

Finishing(e) ==
    /\ Consumed(e) /\ Consumed(e)'
    /\ records'[e].crypto = records[e].crypto
    /\ records[e] # NoRecord
    /\ ~Terminal(records[e]) /\ Terminal(records'[e])
    /\ e \in finished'
    /\ applied'[e] = applied[e] + 1

Pruning(e) ==
    /\ Terminal(records[e])
    /\ records'[e] = NoRecord
    /\ applied'[e] = applied[e]
    /\ Consumed(e)' <=> Consumed(e)

EventMove(e) == \/ Keeping(e)
                \/ Staging(e)
                \/ Committing(e)
                \/ Finishing(e)
                \/ Pruning(e)

\* The ways a step may leave one handler: idle, with its event, or with a new
\* event that no handler had.
HandlerMove(r) ==
    \/ handlers'[r] = Idle
    \/ /\ handlers[r] # Idle /\ handlers'[r] # Idle
       /\ handlers'[r].event = handlers[r].event
       /\ Terminal(handlers'[r].copy) => handlers[r].event \in finished
    \/ /\ handlers'[r].event \in Events
       /\ ~Consumed(handlers'[r].event)
       /\ session' = session
       /\ ~Terminal(handlers'[r].copy)
       /\ \A q \in Receivers \ {r} : /\ handlers'[q] = handlers[q]
                                     /\ handlers[q].event # handlers'[r].event

SerialMoves ==
    /\ \A e \in Events : EventMove(e)
    /\ \A r \in Receivers : HandlerMove(r)
    /\ finished \subseteq finished'
    /\ \A e \in acked' : e \in acked \/ Consumed(e)'

LEMMA NotTerminal == ~Terminal(NoRecord) /\ NoRecord.crypto = "none"
                     /\ ~Terminal(Idle.copy) /\ Idle.event = None
BY SMT DEF Terminal, NoRecord, Idle

\* Moves of records and handlers keep the invariant.
LEMMA SerialKept ==
    ASSUME SerialInv, IInv', mode' = "serving", SessionStep, SerialMoves
    PROVE  SerialInv'
<1> USE NotTerminal
<1>0. TypeOK /\ TypeOK'
  BY Zenon DEF SerialInv, IInv
<1>1. HandlersApart'
  <2>1. ASSUME NEW q \in Receivers, NEW r \in Receivers, handlers'[q] # Idle,
               handlers'[q].event = handlers'[r].event
        PROVE  q = r
    <3>1. handlers'[q].event \in Events
      BY Zenon, <1>0, <2>1 DEF TypeOK, Handler, OpenedHandler, AcceptedHandler
    <3>2. handlers'[r] # Idle
      BY Zenon, <2>1, <3>1, InboundAssumption
    <3>3. HandlerMove(q) /\ HandlerMove(r)
      BY Zenon DEF SerialMoves
    <3> QED
      BY Zenon, <2>1, <3>1, <3>2, <3>3 DEF HandlerMove, SerialInv, HandlersApart
  <2>2. ASSUME NEW r \in Receivers, handlers'[r] # Idle
        PROVE  ~Consumed(handlers[r].event)'
    <3>1. handlers'[r].event \in Events
      BY Zenon, <1>0, <2>2 DEF TypeOK, Handler, OpenedHandler, AcceptedHandler
    <3>2. HandlerMove(r)
      BY Zenon DEF SerialMoves
    <3>3. ~Consumed(handlers'[r].event)
      BY Zenon, <2>2, <3>2 DEF HandlerMove, SerialInv, HandlersApart
    <3>4. ASSUME NEW e \in Events, e = handlers'[r].event
          PROVE  e \notin session'[SessionOf[e]].state
      <4>1. EventMove(e) /\ ~Committing(e)
        BY Zenon, <3>4 DEF SerialMoves, Committing
      <4>2. ~Consumed(e)
        BY Zenon, <3>3, <3>4
      <4> QED
        BY Zenon, <4>1, <4>2
           DEF EventMove, Keeping, Staging, Finishing, Pruning, Consumed
    <3> QED
      BY Zenon, <3>1, <3>4 DEF Consumed
  <2> QED
    BY Zenon, <2>1, <2>2 DEF HandlersApart
<1>2. ASSUME NEW e \in Events
      PROVE  /\ records'[e].crypto \in {"staged", "abandoned", "torn"} =>
                   ~Consumed(e)'
             /\ Consumed(e)' => Deliverable(e)' \/ e \in finished'
             /\ Terminal(records'[e]) => e \in finished'
             /\ \/ applied'[e] = 0
                \/ /\ applied'[e] = 1
                   /\ Consumed(e)'
                   /\ records'[e] = NoRecord \/ Terminal(records'[e])
  <2>1. EventMove(e) /\ finished \subseteq finished'
    BY Zenon DEF SerialMoves
  <2>2. /\ records[e].crypto \in {"staged", "abandoned", "torn"} => ~Consumed(e)
        /\ Consumed(e) => Deliverable(e) \/ e \in finished
        /\ Terminal(records[e]) => e \in finished
    BY Zenon DEF SerialInv, RecordsFollow, SettledIsFinished
  <2>3. \/ applied[e] = 0
        \/ /\ applied[e] = 1
           /\ Consumed(e)
           /\ records[e] = NoRecord \/ Terminal(records[e])
    BY Zenon DEF SerialInv, AppliedIsOver
  <2>4. CASE Keeping(e)
    BY Zenon, <2>1, <2>2, <2>3, <2>4 DEF Keeping, Deliverable
  <2>5. CASE Staging(e)
    BY Zenon, <2>1, <2>2, <2>3, <2>5 DEF Staging, Deliverable
  <2>6. CASE Committing(e)
    BY Zenon, <2>1, <2>2, <2>3, <2>6 DEF Committing, Deliverable
  <2>7. CASE Finishing(e)
    BY <2>1, <2>2, <2>3, <2>7 DEF Finishing, Deliverable
  <2>8. CASE Pruning(e)
    BY Zenon, <2>1, <2>2, <2>3, <2>8 DEF Pruning, Deliverable
  <2> QED
    BY Zenon, <2>1, <2>4, <2>5, <2>6, <2>7, <2>8 DEF EventMove
<1>3. RecordsFollow' /\ AppliedIsOver'
  BY Zenon, <1>2 DEF RecordsFollow, AppliedIsOver
<1>4. SettledIsFinished'
  <2>1. ASSUME NEW r \in Receivers, Terminal(handlers'[r].copy)
        PROVE  handlers'[r].event \in finished'
    <3>1. HandlerMove(r) /\ finished \subseteq finished'
      BY Zenon DEF SerialMoves
    <3> QED
      BY Zenon, <2>1, <3>1 DEF HandlerMove
  <2> QED
    BY Zenon, <1>2, <2>1 DEF SettledIsFinished, Terminal
<1>5. \A e \in acked' : Consumed(e)'
  <2>1. \A e \in acked : e \in Events
    BY Zenon, <1>0 DEF TypeOK
  <2> QED
    BY Zenon, <2>1, ConsumedKept DEF SerialMoves, SerialInv
<1> QED
  BY Zenon, <1>1, <1>3, <1>4, <1>5 DEF SerialInv

\* A step that leaves the records, the sessions and the handlers alone.
LEMMA QuietMoves ==
    ASSUME SerialInv, records' = records, session' = session,
           handlers' = handlers, applied' = applied, finished' = finished,
           acked' = acked
    PROVE  SerialMoves
<1>1. ASSUME NEW e \in Events PROVE EventMove(e)
  BY Zenon, <1>1 DEF EventMove, Keeping, Consumed
<1>2. ASSUME NEW r \in Receivers PROVE HandlerMove(r)
  BY Zenon, <1>2 DEF HandlerMove, SerialInv, SettledIsFinished
<1> QED
  BY Zenon, <1>1, <1>2 DEF SerialMoves

\* A step that changes records and leaves sessions and handlers alone.
LEMMA RecordMoves ==
    ASSUME SerialInv, session' = session, handlers' = handlers, acked' = acked,
           finished \subseteq finished', \A e \in Events : EventMove(e)
    PROVE  SerialMoves
<1>1. ASSUME NEW r \in Receivers PROVE HandlerMove(r)
  BY Zenon, <1>1 DEF HandlerMove, SerialInv, SettledIsFinished
<1> QED
  BY Zenon, <1>1 DEF SerialMoves

LEMMA ReceiveSealedMoves ==
    ASSUME SerialInv, Undisturbed, NEW r \in Receivers, NEW e \in Events,
           ReceiveSealed(r, e)
    PROVE  SerialMoves
<1>0. TypeOK
  BY Zenon DEF SerialInv, IInv
<1>1. \A x \in Events : EventMove(x)
  BY Zenon DEF ReceiveSealed, EventMove, Keeping, Consumed
<1>2. CASE UNCHANGED handlers /\ session[SessionOf[e]].lastInbound = e
  <2>1. Consumed(e)'
    BY Zenon, <1>2, InboundAssumption
       DEF SerialInv, IInv, LastConsumed, Consumed, ReceiveSealed
  <2>2. \A x \in acked' : x \in acked \/ x = e
    BY Zenon DEF ReceiveSealed
  <2>3. \A q \in Receivers : HandlerMove(q)
    BY Zenon, <1>2 DEF HandlerMove, SerialInv, SettledIsFinished
  <2> QED
    BY Zenon, <1>1, <2>1, <2>2, <2>3 DEF SerialMoves, ReceiveSealed
<1>3. CASE /\ CanOpen(session[SessionOf[e]], e)
           /\ handlers' = [handlers EXCEPT ![r] =
                [pc |-> "opened", event |-> e,
                 generation |-> session[SessionOf[e]].generation,
                 next |-> session[SessionOf[e]].state \cup {e},
                 at |-> now, copy |-> NoRecord]]
           /\ UNCHANGED acked
  <2>1. ~Consumed(e)
    BY Zenon, <1>3 DEF CanOpen, Consumed
  <2>2. handlers'[r].event = e /\ handlers'[r].copy = NoRecord
    BY Zenon, <1>0, <1>3 DEF TypeOK
  <2>3. \A q \in Receivers \ {r} : handlers'[q] = handlers[q]
    BY Zenon, <1>0, <1>3 DEF TypeOK
  <2>4. \A q \in Receivers : handlers[q].event # e
    BY Zenon DEF ReceiveSealed, Undisturbed
  <2>5. \A q \in Receivers \ {r} : HandlerMove(q)
    BY Zenon, <2>3 DEF HandlerMove, SerialInv, SettledIsFinished
  <2>6. HandlerMove(r)
    BY Zenon, <2>1, <2>2, <2>3, <2>4, NotTerminal DEF HandlerMove, ReceiveSealed
  <2> QED
    BY Zenon, <1>1, <1>3, <2>5, <2>6 DEF SerialMoves, ReceiveSealed
<1> QED
  BY Zenon, <1>2, <1>3 DEF ReceiveSealed

\* A handler gives up.
LEMMA IdleMoves ==
    ASSUME SerialInv, NEW r \in Receivers, session' = session,
           records' = records, applied' = applied, finished' = finished,
           handlers' = [handlers EXCEPT ![r] = Idle],
           \A e \in acked' : e \in acked \/ Consumed(e)
    PROVE  SerialMoves
<1>0. TypeOK
  BY Zenon DEF SerialInv, IInv
<1>1. \A x \in Events : EventMove(x)
  BY Zenon DEF EventMove, Keeping, Consumed
<1>2. \A q \in Receivers : HandlerMove(q)
  BY Zenon, <1>0 DEF TypeOK, HandlerMove, SerialInv, SettledIsFinished
<1>3. \A e \in acked' : e \in acked \/ Consumed(e)'
  BY Zenon DEF Consumed
<1> QED
  BY Zenon, <1>1, <1>2, <1>3 DEF SerialMoves

LEMMA AcceptMoves ==
    ASSUME SerialInv, NEW r \in Receivers,
           NEW admission \in {"admitted", "pending"}, Accept(r, admission)
    PROVE  SerialMoves
<1> DEFINE h == handlers[r]
           e == h.event
<1>0. TypeOK
  BY SMTT(40) DEF SerialInv, IInv
<1>1. h \in Handler /\ e \in Events /\ h # Idle
  BY <1>0, BusyHandler DEF Accept, Idle
<1>2. /\ session' = session /\ applied' = applied /\ finished' = finished
      /\ ~Consumed(e)
  BY Zenon, <1>1 DEF Accept, SerialInv, HandlersApart
<1>3. CASE /\ handlers' = [handlers EXCEPT ![r] = Idle]
           /\ UNCHANGED <<records, acked>>
  BY Zenon, <1>2, <1>3, IdleMoves
<1>4. CASE Deliverable(e)
  BY Zenon, <1>1, <1>2, <1>4 DEF SerialInv, IInv, CommittedWasOpened
<1>5. ASSUME NEW c, handlers' = [handlers EXCEPT ![r] = Holding(h, c)],
             Terminal(c) => e \in finished, acked' = acked,
             \A x \in Events : EventMove(x)
      PROVE  SerialMoves
  <2>1. /\ Holding(h, c).event = e /\ Holding(h, c).copy = c
        /\ Holding(h, c).pc = "accepted"
    BY Zenon, <1>1 DEF Holding, Handler, OpenedHandler, AcceptedHandler
  <2>2. HandlerMove(r)
    <3>1. handlers'[r] = Holding(h, c)
      BY Zenon, <1>0, <1>5 DEF TypeOK
    <3>2. Holding(h, c) # Idle
      BY <2>1 DEF Idle
    <3> HIDE DEF h
    <3> QED
      BY Zenon, <1>1, <1>5, <2>1, <3>1, <3>2 DEF HandlerMove, h
  <2>3. \A q \in Receivers \ {r} : HandlerMove(q)
    BY Zenon, <1>0, <1>5 DEF TypeOK, HandlerMove, SerialInv, SettledIsFinished
  <2> QED
    BY Zenon, <1>2, <1>5, <2>2, <2>3 DEF SerialMoves
<1>6. CASE /\ records' = [records EXCEPT ![e] = Staged(h, admission)]
           /\ handlers' = [handlers EXCEPT ![r] =
                              Holding(h, Staged(h, admission))]
           /\ UNCHANGED acked
  <2>1. /\ ~Terminal(Staged(h, admission))
        /\ Staged(h, admission).crypto = "staged"
    BY Zenon DEF Terminal, Staged
  <2>2. records'[e] = Staged(h, admission)
    BY Zenon, <1>0, <1>1, <1>6 DEF TypeOK
  <2>3. \A x \in Events \ {e} : records'[x] = records[x]
    BY Zenon, <1>0, <1>6 DEF TypeOK
  <2>4. ASSUME NEW x \in Events, x = e PROVE Staging(x)
    BY Zenon, <1>2, <2>1, <2>2, <2>4 DEF Staging, Consumed
  <2>5. \A x \in Events \ {e} : Keeping(x)
    BY Zenon, <1>2, <2>3 DEF Keeping, Consumed
  <2>6. \A x \in Events : EventMove(x)
    BY Zenon, <2>4, <2>5 DEF EventMove
  <2> QED
    BY Zenon, <1>5, <1>6, <2>1, <2>6
<1>7. CASE /\ handlers' = [handlers EXCEPT ![r] = Holding(h, records[e])]
           /\ UNCHANGED <<records, acked>>
  <2>1. \A x \in Events : EventMove(x)
    BY Zenon, <1>2, <1>7 DEF EventMove, Keeping, Consumed
  <2>2. Terminal(records[e]) => e \in finished
    BY Zenon, <1>1 DEF SerialInv, SettledIsFinished
  <2> QED
    BY Zenon, <1>5, <1>7, <2>1, <2>2
<1> QED
  BY Zenon, <1>3, <1>4, <1>6, <1>7 DEF Accept

LEMMA CommitMoves ==
    ASSUME SerialInv, NEW r \in Receivers, CommitInbound(r)
    PROVE  SerialMoves
<1> DEFINE h == handlers[r]
<1>0. TypeOK
  BY Zenon DEF SerialInv, IInv
<1>1. h \in Handler /\ h.event \in Events /\ h # Idle
  BY <1>0, BusyHandler DEF CommitInbound, Idle
<1>2. PICK e \in Events : e = h.event
  BY Zenon, <1>1
<1>3. h.copy \in Record
  BY Zenon, <1>1 DEF CommitInbound, Handler, OpenedHandler, AcceptedHandler
<1>4. /\ applied' = applied /\ finished' = finished
      /\ handlers' = [handlers EXCEPT ![r] = Idle]
  BY Zenon DEF CommitInbound
<1>5. handlers'[r] = Idle /\ \A q \in Receivers \ {r} : handlers'[q] = handlers[q]
  BY Zenon, <1>0, <1>4 DEF TypeOK
<1>6. ~Consumed(e)
  BY Zenon, <1>1, <1>2 DEF SerialInv, HandlersApart
<1>7. Terminal(h.copy) => e \in finished
  BY Zenon, <1>2 DEF SerialInv, SettledIsFinished
<1>8. \A q \in Receivers : handlers'[q].event # e
  <2>1. \A q \in Receivers \ {r} : handlers[q].event # e
    BY Zenon, <1>1, <1>2 DEF SerialInv, HandlersApart
  <2> QED
    BY Zenon, <1>2, <1>5, <2>1, NotTerminal, InboundAssumption
<1>9. \A q \in Receivers : HandlerMove(q)
  BY Zenon, <1>5, <1>4 DEF HandlerMove, SerialInv, SettledIsFinished
<1>10. ASSUME NEW c \in {"committed", "abandoned"}
       PROVE  /\ WithCrypto(h.copy, c).crypto = c
              /\ Terminal(WithCrypto(h.copy, c)) => Terminal(h.copy)
  BY Zenon, <1>3 DEF WithCrypto, Record, Terminal
<1>11. CASE /\ SessionMoved(h)
            /\ records' = [records EXCEPT ![e] = WithCrypto(h.copy, "abandoned")]
            /\ UNCHANGED <<session, acked>>
  <2>1. records'[e] = WithCrypto(h.copy, "abandoned")
    BY Zenon, <1>0, <1>11 DEF TypeOK
  <2>2. Committing(e)
    BY Zenon, <1>4, <1>6, <1>7, <1>8, <1>10, <1>11, <2>1 DEF Committing, Consumed
  <2>3. \A x \in Events \ {e} : Keeping(x)
    BY Zenon, <1>0, <1>4, <1>11 DEF TypeOK, Keeping, Consumed
  <2> QED
    BY Zenon, <1>4, <1>9, <1>11, <2>2, <2>3 DEF SerialMoves, EventMove
<1>12. CASE /\ ~SessionMoved(h)
            /\ session' = [session EXCEPT ![SessionOf[e]] =
                              Advanced(h.generation, h.next, e)]
            /\ records' = [records EXCEPT ![e] = WithCrypto(h.copy, "committed")]
            /\ acked' = acked \cup {e}
  <2>1. records'[e] = WithCrypto(h.copy, "committed")
    BY Zenon, <1>0, <1>12 DEF TypeOK
  <2>2. Prepared(h.generation, h.next, e)
    BY SMTT(40), <1>1, <1>2 DEF SerialInv, IInv, HandlersPrepared
  <2>3. h.next = session[SessionOf[e]].state \cup {e}
    BY Zenon, <1>2, <1>12, <2>2 DEF Prepared, SessionMoved
  <2>4. session'[SessionOf[e]].state = session[SessionOf[e]].state \cup {e}
    BY Zenon, <1>0, <1>12, <2>3, InboundAssumption DEF TypeOK, Advanced
  <2>5. \A s \in Sessions \ {SessionOf[e]} : session'[s] = session[s]
    BY Zenon, <1>0, <1>12 DEF TypeOK
  <2>6. Consumed(e)'
    BY Zenon, <2>4 DEF Consumed
  <2>7. \A x \in Events \ {e} : Consumed(x)' <=> Consumed(x)
    BY Zenon, <2>4, <2>5, InboundAssumption DEF Consumed
  <2>8. Committing(e)
    BY Zenon, <1>4, <1>6, <1>7, <1>8, <1>10, <2>1, <2>6 DEF Committing
  <2>9. \A x \in Events \ {e} : Keeping(x)
    BY Zenon, <1>0, <1>4, <1>12, <2>7 DEF TypeOK, Keeping
  <2> QED
    BY Zenon, <1>4, <1>9, <1>12, <2>6, <2>8, <2>9 DEF SerialMoves, EventMove
<1> QED
  BY Zenon, <1>2, <1>11, <1>12 DEF CommitInbound

LEMMA ClaimMoves ==
    ASSUME SerialInv, NEW w \in Workers, NEW e \in Events,
           ClaimForApplication(w, e)
    PROVE  SerialMoves
<1>0. TypeOK
  BY Zenon DEF SerialInv, IInv
<1> DEFINE new == Leased(records[e], "claimed", leases + 1, now + LeaseSeconds)
<1>1. records[e] \in Record /\ ~Terminal(records[e]) /\ records[e] # NoRecord
  BY Zenon, <1>0, RealRecord DEF ClaimForApplication, Terminal, Readable
<1>2. new.crypto = records[e].crypto /\ ~Terminal(new)
  BY Zenon, <1>1 DEF Leased, Record, Terminal
<1>3. /\ records' = [records EXCEPT ![e] = new]
      /\ session' = session /\ handlers' = handlers /\ acked' = acked
      /\ finished' = finished /\ applied' = applied
  BY Zenon DEF ClaimForApplication
<1>4. records'[e] = new /\ \A x \in Events \ {e} : records'[x] = records[x]
  BY Zenon, <1>0, <1>3 DEF TypeOK
<1> HIDE DEF new
<1>5. \A x \in Events : EventMove(x)
  BY Zenon, <1>1, <1>2, <1>3, <1>4 DEF EventMove, Keeping, Consumed
<1> QED
  BY Zenon, <1>3, <1>5, RecordMoves

LEMMA FinishMoves ==
    ASSUME SerialInv, NEW w \in Workers, NEW state \in {"applied", "rejected"},
           Finish(w, state)
    PROVE  SerialMoves
<1>0. TypeOK
  BY Zenon DEF SerialInv, IInv
<1>1. PICK e \in Events : e = workers[w].event
  BY Zenon, <1>0 DEF TypeOK, Worker, Finish
<1>2. session' = session /\ handlers' = handlers /\ acked' = acked
  BY Zenon DEF Finish
<1>3. CASE /\ HoldsLease(w, e)
           /\ records' = [records EXCEPT ![e] = Leased(records[e], state, 0, 0)]
           /\ applied' = [applied EXCEPT ![e] = @ + 1]
           /\ finished' = finished \cup {e}
  <2>1. records[e] \in Record /\ ~Terminal(records[e]) /\ records[e] # NoRecord
    <3>1. records[e].application = "claimed"
      BY Zenon, <1>3 DEF HoldsLease
    <3> QED
      BY <1>0, <3>1, RealRecord DEF Terminal, NoRecord
  <2>2. /\ Leased(records[e], state, 0, 0).crypto = records[e].crypto
        /\ Terminal(Leased(records[e], state, 0, 0))
    BY Zenon, <2>1 DEF Leased, Record, Terminal
  <2>3. /\ records'[e] = Leased(records[e], state, 0, 0)
        /\ \A x \in Events \ {e} : records'[x] = records[x]
        /\ applied'[e] = applied[e] + 1
        /\ \A x \in Events \ {e} : applied'[x] = applied[x]
    BY Zenon, <1>0, <1>3 DEF TypeOK
  <2>4. Consumed(e) /\ Consumed(e)'
    BY Zenon, <1>1, <1>2 DEF SerialInv, IInv, RuntimeSeesOnlyOpened, Consumed
  <2>5. Finishing(e)
    BY ZenonT(30), <1>3, <2>1, <2>2, <2>3, <2>4 DEF Finishing
  <2>6. \A x \in Events \ {e} : Keeping(x)
    BY Zenon, <1>2, <2>3 DEF Keeping, Consumed
  <2>7. \A x \in Events : EventMove(x)
    BY Zenon, <2>5, <2>6 DEF EventMove
  <2> QED
    BY Zenon, <1>2, <1>3, <2>7, RecordMoves
<1>4. CASE UNCHANGED <<records, applied, finished>>
  BY Zenon, <1>2, <1>4, QuietMoves
<1> QED
  BY Zenon, <1>1, <1>3, <1>4 DEF Finish

LEMMA DecisionMoves ==
    ASSUME SerialInv, session' = session, handlers' = handlers,
           acked' = acked, applied' = applied, finished \subseteq finished',
           \A e \in Events :
              \/ records'[e] = records[e]
              \/ /\ records[e].admission = "pending"
                 /\ records'[e] = Admitted(records[e])
              \/ /\ records[e].admission = "pending"
                 /\ records'[e] = Denied(records[e])
                 /\ e \in finished'
    PROVE  SerialMoves
<1>0. TypeOK
  BY Zenon DEF SerialInv, IInv
<1>1. ASSUME NEW e \in Events PROVE EventMove(e)
  <2>1. CASE records'[e] = records[e]
    BY Zenon, <2>1 DEF EventMove, Keeping, Consumed
  <2>2. CASE records[e].admission = "pending"
    <3>1. records[e] \in Record /\ records[e] # NoRecord
      BY SMTT(40), <1>0, <2>2, RealRecord DEF NoRecord
    <3>2. /\ Admitted(records[e]).crypto = records[e].crypto
          /\ Terminal(Admitted(records[e])) <=> Terminal(records[e])
          /\ Denied(records[e]).crypto = records[e].crypto
          /\ Terminal(Denied(records[e]))
      BY Zenon, <3>1 DEF Admitted, Denied, Record, Terminal
    <3>3. \/ records'[e] = records[e]
          \/ records'[e] = Admitted(records[e])
          \/ records'[e] = Denied(records[e]) /\ e \in finished'
      BY Zenon
    <3> QED
      BY Zenon, <3>1, <3>2, <3>3 DEF EventMove, Keeping, Consumed
  <2> QED
    BY Zenon, <2>1, <2>2
<1> QED
  BY Zenon, <1>1, RecordMoves

LEMMA PruneMoves ==
    ASSUME SerialInv, Prune
    PROVE  SerialMoves
<1>1. /\ session' = session /\ handlers' = handlers /\ acked' = acked
      /\ finished' = finished /\ applied' = applied
  BY Zenon DEF Prune
<1>2. ASSUME NEW e \in Events PROVE EventMove(e)
  <2>1. \/ records'[e] = records[e]
        \/ Terminal(records[e]) /\ records'[e] = NoRecord
    BY Zenon DEF Prune, Prunable
  <2> QED
    BY Zenon, <1>1, <2>1 DEF EventMove, Keeping, Pruning, Consumed
<1> QED
  BY Zenon, <1>1, <1>2, RecordMoves

LEMMA AdvanceMoves ==
    ASSUME SerialInv, NEW s \in Sessions, AdvanceSession(s)
    PROVE  SerialMoves
<1>0. TypeOK
  BY Zenon DEF SerialInv, IInv
<1>1. /\ records' = records /\ handlers' = handlers /\ acked' = acked
      /\ finished' = finished /\ applied' = applied
  BY Zenon DEF AdvanceSession
<1>2. \A x \in Sessions : session'[x].state = session[x].state
  <2>1. /\ session \in [Sessions -> SessionRecord]
        /\ session' = [session EXCEPT ![s] =
                          Advanced(session[s].generation, session[s].state, None)]
    BY Zenon, <1>0 DEF AdvanceSession, TypeOK
  <2>2. Advanced(session[s].generation, session[s].state, None).state =
           session[s].state
    BY Zenon DEF Advanced
  <2> QED
    BY Zenon, <2>1, <2>2
<1>3. \A e \in Events : Consumed(e)' <=> Consumed(e)
  BY Zenon, <1>2, InboundAssumption DEF Consumed
<1>4. \A e \in Events : EventMove(e)
  BY Zenon, <1>1, <1>3 DEF EventMove, Keeping
<1>5. \A r \in Receivers : HandlerMove(r)
  BY Zenon, <1>1 DEF HandlerMove, SerialInv, SettledIsFinished
<1> QED
  BY Zenon, <1>1, <1>4, <1>5 DEF SerialMoves

LEMMA SerialInit == Init => SerialInv
<1> SUFFICES ASSUME Init PROVE SerialInv
  BY Zenon
<1>1. IInv /\ mode = "serving"
  BY Zenon, IInvInit DEF Init
<1>2. /\ \A r \in Receivers : handlers[r] = Idle
      /\ \A e \in Events : records[e] = NoRecord /\ applied[e] = 0
      /\ acked = {}
  BY Zenon DEF Init
<1>3. \A e \in Events : ~Consumed(e)
  <2>1. session \in [Sessions -> {[generation |-> g, state |-> {}, lastInbound |-> None] :
                                  g \in {0, 1}}]
    BY Zenon DEF Init
  <2>3. \A s \in Sessions : session[s].state = {}
    <3> TAKE s \in Sessions
    <3>1. session[s] \in {[generation |-> g, state |-> {}, lastInbound |-> None] :
                          g \in {0, 1}}
      BY Zenon, <2>1
    <3>2. PICK g \in {0, 1} :
             session[s] = [generation |-> g, state |-> {}, lastInbound |-> None]
      BY Zenon, <3>1
    <3> QED
      BY <3>2
  <2> QED
    BY Zenon, <2>3, InboundAssumption DEF Consumed
<1>4. HandlersApart
  BY Zenon, <1>2 DEF HandlersApart
<1>5. RecordsFollow /\ AppliedIsOver
  BY Zenon, <1>2, <1>3 DEF RecordsFollow, AppliedIsOver
<1>6. SettledIsFinished
  BY Zenon, <1>2, NotTerminal DEF SettledIsFinished
<1> QED
  BY Zenon, <1>1, <1>2, <1>4, <1>5, <1>6 DEF SerialInv

LEMMA SerialStep ==
    ASSUME Undisturbed, SerialInv, [Next]_vars
    PROVE  SerialInv'
<1>0. mode = "serving" /\ \A kind : ~Fault(kind)
  BY Zenon DEF SerialInv, Undisturbed, Fault
<1>1. ~Recover /\ ~Fail
  BY SMTT(40), <1>0 DEF Recover, ResolveStaged, Opened, Fail, CommitFails, Crash,
              CrashInAccept, CrashInCommit, CrashInRecovery, Die
<1>2. mode' = mode
  BY Zenon, <1>1 DEF Next, Receive, ReceiveSealed, Refuse, Accept, CommitInbound,
              AdvanceSession, Work, List, ClaimForApplication, Finish,
              WorkerDies, AdmitEvent, DenyEvent, Moderate,
              ExpirePendingAdmissions, Prune, Tick, vars
<1>3. IInv' /\ SessionStep
  BY Zenon, IInvStep, StepGrows DEF SerialInv
<1>4. SerialMoves
  <2>1. ASSUME NEW r \in Receivers, Refuse(r) PROVE SerialMoves
    BY Zenon, <2>1, IdleMoves DEF Refuse
  <2>2. ASSUME NEW r \in Receivers, Receive(r) PROVE SerialMoves
    BY Zenon, <2>1, <2>2, ReceiveSealedMoves, AcceptMoves, CommitMoves DEF Receive
  <2>3. ASSUME NEW w \in Workers, List(w) \/ WorkerDies(w) PROVE SerialMoves
    BY Zenon, <2>3, QuietMoves DEF List, WorkerDies
  <2>4. ASSUME NEW w \in Workers, Work(w) PROVE SerialMoves
    BY Zenon, <2>3, <2>4, ClaimMoves, FinishMoves DEF Work
  <2>5. ASSUME NEW e \in Events, AdmitEvent(e) PROVE SerialMoves
    <3>1. \A x \in Events : \/ records'[x] = records[x]
                            \/ /\ records[x].admission = "pending"
                               /\ records'[x] = Admitted(records[x])
      BY Zenon, <2>5 DEF AdmitEvent, SerialInv, IInv, TypeOK
    <3> QED
      BY Zenon, <2>5, <3>1, DecisionMoves DEF AdmitEvent
  <2>6. ASSUME NEW e \in Events, DenyEvent(e) PROVE SerialMoves
    <3>1. \A x \in Events : \/ records'[x] = records[x]
                            \/ /\ records[x].admission = "pending"
                               /\ records'[x] = Denied(records[x])
                               /\ x \in finished'
      BY Zenon, <2>6 DEF DenyEvent, SerialInv, IInv, TypeOK
    <3> QED
      BY Zenon, <2>6, <3>1, DecisionMoves DEF DenyEvent
  <2>7. CASE ExpirePendingAdmissions
    <3>1. \A x \in Events : \/ records'[x] = records[x]
                            \/ /\ records[x].admission = "pending"
                               /\ records'[x] = Denied(records[x])
                               /\ x \in finished'
      BY Zenon, <2>7 DEF ExpirePendingAdmissions
    <3> QED
      BY Zenon, <2>7, <3>1, DecisionMoves DEF ExpirePendingAdmissions
  <2>8. CASE (\E e \in Events : Moderate(e)) \/ Tick \/ UNCHANGED vars
    BY Zenon, <2>8, QuietMoves DEF Moderate, Tick, vars
  <2> QED
    BY Zenon, <1>1, <2>2, <2>4, <2>5, <2>6, <2>7, <2>8, AdvanceMoves, PruneMoves
       DEF Next
<1> QED
  BY Zenon, <1>0, <1>2, <1>3, <1>4, SerialKept

\* While no two handlers work on one event and nothing fails, what the peer was
\* told is accepted stays deliverable until it was settled, however handlers of
\* different events of a session, the outbound side, the owner, pruning and the
\* leases of the runtimes interleave; no event is finished twice; and what was
\* abandoned can be opened again.
THEOREM ExactlyOnce ==
    ASSUME Undisturbed
    PROVE  Spec => []InboundExactlyOnce
<1>1. SerialInv => InboundExactlyOnce
  <2> SUFFICES ASSUME SerialInv PROVE InboundExactlyOnce
    BY Zenon
  <2>1. acked \subseteq Events
    BY Zenon DEF SerialInv, IInv, TypeOK
  <2>2. AckedIsKept
    BY Zenon, <2>1 DEF SerialInv, RecordsFollow, AckedIsKept
  <2>3. AppliedAtMostOnce
    BY DEF SerialInv, AppliedIsOver, AppliedAtMostOnce
  <2>4. AbandonedNotConsumed
    BY Zenon DEF SerialInv, RecordsFollow, AbandonedNotConsumed
  <2> QED
    BY Zenon, <2>2, <2>3, <2>4 DEF InboundExactlyOnce
<1>2. SerialInv /\ [Next]_vars => SerialInv'
  BY Zenon, SerialStep
<1> QED
  BY <1>1, <1>2, SerialInit, PTL DEF Spec

-----------------------------------------------------------------------------
(***************************************************************************)
(* The owner's queue stays within its bounds, whatever fails, when         *)
(* messages are handled one by one. A commit writes back the copy of the   *)
(* record it read, so QueueInv counts with the records that ask the owner  *)
(* the copy that would ask again.                                          *)
(***************************************************************************)

\* One message is handled at a time.
OneHandler == \A q, r \in Receivers : q = r

\* A record asks the owner for a decision.
Asks(rec, e, t) == rec.admission = "pending" /\ ~Expired(rec, e, t)

\* The events the owner could be asked about, now or after the commit that is
\* under way has written its copy of the record back.
AskedAbout ==
    {e \in Events :
        \/ Asks(records[e], e, now)
        \/ \E r \in Receivers : /\ handlers[r].event = e
                                /\ Asks(handlers[r].copy, e, now)}

WithinBounds(S) ==
    /\ Cardinality(S) <= MaxPendingAdmissions
    /\ \A s \in Sessions :
          Cardinality({e \in S : SessionOf[e] = s}) <= MaxPendingPerSender

QueueInv ==
    /\ TypeOK
    /\ \A r \in Receivers : handlers[r].at <= now
    /\ WithinBounds(AskedAbout)

LEMMA BoundedSubset ==
    ASSUME IsFiniteSet(Events), NEW S \in SUBSET Events, NEW T \in SUBSET S,
           WithinBounds(S)
    PROVE  WithinBounds(T)
<1>1. IsFiniteSet(S) /\ IsFiniteSet(T) /\ Cardinality(T) <= Cardinality(S)
  BY Zenon, FS_Subset
<1>2. ASSUME NEW s \in Sessions
      PROVE  Cardinality({e \in T : SessionOf[e] = s}) <= MaxPendingPerSender
  <2> DEFINE A == {e \in S : SessionOf[e] = s}
             B == {e \in T : SessionOf[e] = s}
  <2>1. IsFiniteSet(A)
    BY Zenon, <1>1, FS_Subset
  <2>2. B \subseteq A
    BY Zenon
  <2>3. IsFiniteSet(B) /\ Cardinality(B) <= Cardinality(A)
    BY Zenon, <2>1, <2>2, FS_Subset
  <2>4. Cardinality(A) <= MaxPendingPerSender
    BY Zenon DEF WithinBounds
  <2>5. Cardinality(A) \in Nat /\ Cardinality(B) \in Nat
    BY Zenon, <2>1, <2>3, FS_CardinalityType
  <2> HIDE DEF A, B
  <2>6. Cardinality(B) <= MaxPendingPerSender
    BY <2>3, <2>4, <2>5, InboundAssumption
  <2> QED
    BY Zenon, <2>6 DEF B
<1>3. Cardinality(S) \in Nat /\ Cardinality(T) \in Nat
  BY Zenon, <1>1, FS_CardinalityType
<1>4. Cardinality(T) <= MaxPendingAdmissions
  BY <1>1, <1>3, InboundAssumption DEF WithinBounds
<1> QED
  BY Zenon, <1>2, <1>4 DEF WithinBounds

\* One element more than a set below a bound stays within the bound.
LEMMA OneMore ==
    ASSUME NEW S, IsFiniteSet(S), NEW x, NEW T \in SUBSET (S \cup {x}),
           NEW m \in Nat, Cardinality(S) < m
    PROVE  Cardinality(T) <= m
<1>1. IsFiniteSet(S \cup {x}) /\ Cardinality(S \cup {x}) <= Cardinality(S) + 1
  <2>1. /\ IsFiniteSet(S \cup {x})
        /\ \/ Cardinality(S \cup {x}) = Cardinality(S)
           \/ Cardinality(S \cup {x}) = Cardinality(S) + 1
    BY Zenon, FS_AddElement
  <2>2. Cardinality(S) \in Nat
    BY Zenon, FS_CardinalityType
  <2> QED
    BY <2>1, <2>2
<1>2. IsFiniteSet(T) /\ Cardinality(T) <= Cardinality(S \cup {x})
  BY Zenon, <1>1, FS_Subset
<1>3. /\ Cardinality(S) \in Nat /\ Cardinality(T) \in Nat
      /\ Cardinality(S \cup {x}) \in Nat
  BY Zenon, <1>1, <1>2, FS_CardinalityType
<1> QED
  BY <1>1, <1>2, <1>3

LEMMA BoundedOneMore ==
    ASSUME IsFiniteSet(Events), NEW e \in Events, NEW t,
           PendingCapacity(e, t), NEW T \in SUBSET Events,
           T \subseteq Waiting(t) \cup {e},
           WithinBounds(T \ {e})
    PROVE  WithinBounds(T)
<1>1. Waiting(t) \subseteq Events
  BY Zenon DEF Waiting
<1>2. IsFiniteSet(Waiting(t))
  BY Zenon, <1>1, FS_Subset
<1>3. Cardinality(T) <= MaxPendingAdmissions
  BY Zenon, <1>2, OneMore, InboundAssumption DEF PendingCapacity
<1>4. ASSUME NEW s \in Sessions
      PROVE  Cardinality({x \in T : SessionOf[x] = s}) <= MaxPendingPerSender
  <2> DEFINE A == {x \in Waiting(t) : SessionOf[x] = s}
             B == {x \in T : SessionOf[x] = s}
  <2>1. CASE s = SessionOf[e]
    <3>1. IsFiniteSet(A)
      BY Zenon, <1>2, FS_Subset
    <3>2. B \subseteq A \cup {e}
      BY Zenon
    <3>3. Cardinality(A) < MaxPendingPerSender
      BY Zenon, <2>1 DEF PendingCapacity
    <3> HIDE DEF A, B
    <3>4. Cardinality(B) <= MaxPendingPerSender
      BY Zenon, <3>1, <3>2, <3>3, OneMore, InboundAssumption
    <3> QED
      BY Zenon, <3>4 DEF B
  <2>2. CASE s # SessionOf[e]
    <3>1. B = {x \in T \ {e} : SessionOf[x] = s}
      BY Zenon, <2>2
    <3>2. Cardinality({x \in T \ {e} : SessionOf[x] = s}) <= MaxPendingPerSender
      BY Zenon DEF WithinBounds
    <3> QED
      BY Zenon, <3>1, <3>2
  <2> QED
    BY Zenon, <2>1, <2>2
<1> QED
  BY Zenon, <1>3, <1>4 DEF WithinBounds

\* Once expired, an event stays expired.
LEMMA AsksLess ==
    ASSUME NEW e \in Events, NEW rec, rec.received \in Nat, NEW t \in Nat,
           NEW u \in Nat, t <= u, Asks(rec, e, u)
    PROVE  Asks(rec, e, t)
BY InboundAssumption DEF Asks, Expired

LEMMA QueueShrinks ==
    ASSUME IsFiniteSet(Events), QueueInv, TypeOK', now <= now',
           \A r \in Receivers : handlers'[r].at <= now',
           AskedAbout' \subseteq AskedAbout
    PROVE  QueueInv'
<1>1. AskedAbout \subseteq Events
  BY Zenon DEF AskedAbout
<1>2. WithinBounds(AskedAbout')
  BY Zenon, <1>1, BoundedSubset DEF QueueInv
<1> QED
  BY Zenon, <1>2 DEF QueueInv, WithinBounds

\* Two records that ask the same question of the owner.
SameAsk(new, old) == /\ new.admission = old.admission
                     /\ new.received = old.received

\* A record asks no more than before: not at all, what it asked, or what the
\* copy of it in a handler asked.
RecordAsksNoMore(e) ==
    \/ records'[e].admission # "pending"
    \/ SameAsk(records'[e], records[e])
    \/ \E r \in Receivers : /\ handlers[r].event = e
                            /\ SameAsk(records'[e], handlers[r].copy)

\* So does a handler: it is left alone, done, new, or has taken a copy.
HandlerAsksNoMore(r) ==
    \/ handlers'[r] = handlers[r]
    \/ handlers'[r] = Idle
    \/ handlers'[r].copy = NoRecord /\ handlers'[r].at = now
    \/ /\ handlers'[r].at = handlers[r].at
       /\ handlers'[r].event = handlers[r].event
       /\ handlers'[r].copy = records[handlers[r].event]

LEMMA QueueKept ==
    ASSUME IsFiniteSet(Events), QueueInv, TypeOK', now' = now,
           \A e \in Events : RecordAsksNoMore(e),
           \A r \in Receivers : HandlerAsksNoMore(r)
    PROVE  QueueInv'
<1>0. /\ NoRecord.admission # "pending" /\ Idle.copy = NoRecord /\ Idle.at = 0
      /\ now \in Nat
  BY Zenon DEF NoRecord, Idle, QueueInv, TypeOK
<1>1. \A r \in Receivers : handlers'[r].at <= now'
  <2> TAKE r \in Receivers
  <2>1. HandlerAsksNoMore(r) /\ handlers[r].at <= now
    BY Zenon DEF QueueInv
  <2> QED
    BY <1>0, <2>1 DEF HandlerAsksNoMore
<1>2. ASSUME NEW e \in AskedAbout' PROVE e \in AskedAbout
  <2>1. e \in Events
    BY Zenon DEF AskedAbout
  <2>2. ASSUME NEW new, NEW old, SameAsk(new, old), Asks(new, e, now)
        PROVE  Asks(old, e, now)
    BY Zenon, <2>2 DEF SameAsk, Asks, Expired
  <2>3. CASE Asks(records'[e], e, now)
    <3>1. RecordAsksNoMore(e)
      BY Zenon, <2>1
    <3> QED
      BY <2>1, <2>2, <2>3, <3>1 DEF RecordAsksNoMore, AskedAbout, Asks
  <2>4. ASSUME NEW r \in Receivers, handlers'[r].event = e,
               Asks(handlers'[r].copy, e, now)
        PROVE  e \in AskedAbout
    <3>1. HandlerAsksNoMore(r)
      BY Zenon
    <3>2. handlers'[r].copy # NoRecord
      BY Zenon, <1>0, <2>4 DEF Asks
    <3> QED
      BY Zenon, <1>0, <2>1, <2>4, <3>1, <3>2 DEF HandlerAsksNoMore, AskedAbout
  <2>5. \/ Asks(records'[e], e, now')
        \/ \E r \in Receivers : /\ handlers'[r].event = e
                                /\ Asks(handlers'[r].copy, e, now')
    BY Zenon DEF AskedAbout, Asks, Expired
  <2> QED
    BY Zenon, <2>3, <2>4, <2>5
<1> QED
  BY <1>0, <1>1, <1>2, QueueShrinks

\* A step that changes no record and at most drops handlers.
LEMMA QueueQuiet ==
    ASSUME IsFiniteSet(Events), QueueInv, TypeOK', now' = now,
           records' = records,
           \A r \in Receivers : handlers'[r] = handlers[r] \/ handlers'[r] = Idle
    PROVE  QueueInv'
<1>1. \A e \in Events : RecordAsksNoMore(e)
  BY Zenon DEF RecordAsksNoMore, SameAsk
<1>2. \A r \in Receivers : HandlerAsksNoMore(r)
  BY Zenon DEF HandlerAsksNoMore
<1> QED
  BY Zenon, <1>1, <1>2, QueueKept

LEMMA QueueTick ==
    ASSUME IsFiniteSet(Events), QueueInv, TypeOK', Tick
    PROVE  QueueInv'
<1>1. /\ records' = records /\ handlers' = handlers /\ now' = now + 1
      /\ now \in Nat
  BY Zenon DEF Tick, QueueInv, TypeOK
<1>2. \A r \in Receivers : handlers[r].at \in Nat
  BY DEF QueueInv, TypeOK, Handler, OpenedHandler, AcceptedHandler, Idle
<1>3. \A e \in Events : records[e].received \in Nat
  BY DEF QueueInv, TypeOK, Record, NoRecord, Torn
<1>4. \A r \in Receivers : handlers[r].copy.received \in Nat
  <2> TAKE r \in Receivers
  <2>1. handlers[r].copy \in Record \cup {NoRecord}
    BY DEF QueueInv, TypeOK, Handler, OpenedHandler, AcceptedHandler, Idle
  <2> QED
    BY <2>1 DEF Record, NoRecord
<1>5. AskedAbout' \subseteq AskedAbout
  <2>1. ASSUME NEW e \in Events, NEW rec, rec.received \in Nat,
               Asks(rec, e, now + 1)
        PROVE  Asks(rec, e, now)
    BY <1>1, <2>1, AsksLess
  <2>2. AskedAbout' =
          {e \in Events :
            \/ Asks(records[e], e, now + 1)
            \/ \E r \in Receivers : /\ handlers[r].event = e
                                    /\ Asks(handlers[r].copy, e, now + 1)}
    BY Zenon, <1>1 DEF AskedAbout, Asks, Expired
  <2> QED
    BY Zenon, <1>3, <1>4, <2>1, <2>2 DEF AskedAbout
<1>6. \A r \in Receivers : handlers'[r].at <= now'
  BY <1>1, <1>2 DEF QueueInv
<1> QED
  BY <1>1, <1>5, <1>6, QueueShrinks

\* Accept puts one more event before the owner, within the capacity it has
\* tested.
LEMMA QueueStaged ==
    ASSUME IsFiniteSet(Events), OneHandler, QueueInv, TypeOK', now' = now,
           NEW r \in Receivers, NEW admission \in {"admitted", "pending"},
           handlers[r].pc = "opened",
           admission = "pending" =>
              PendingCapacity(handlers[r].event, handlers[r].at),
           records' = [records EXCEPT ![handlers[r].event] =
                          Staged(handlers[r], admission)],
           handlers' = [handlers EXCEPT ![r] =
                          Holding(handlers[r], Staged(handlers[r], admission))]
    PROVE  QueueInv'
<1> DEFINE h == handlers[r]
           staged == Staged(h, admission)
<1>0. TypeOK
  BY Zenon DEF QueueInv
<1>1. /\ h \in Handler /\ h.event \in Events /\ h.copy = NoRecord
      /\ h.at \in Nat
  BY Zenon, <1>0, BusyHandler DEF Handler, OpenedHandler, AcceptedHandler
<1>2. PICK e \in Events : e = h.event
  BY Zenon, <1>1
<1>3. h.at <= now /\ now \in Nat
  BY Zenon DEF QueueInv, TypeOK
<1>4. /\ staged.admission = admission /\ staged.received = h.at
  BY Zenon DEF Staged
<1>5. /\ Holding(h, staged).event = e /\ Holding(h, staged).copy = staged
      /\ Holding(h, staged).at = h.at
  BY Zenon, <1>1, <1>2 DEF Holding, Handler, OpenedHandler, AcceptedHandler
<1>6. /\ handlers'[r] = Holding(h, staged)
      /\ records'[e] = staged
      /\ \A x \in Events \ {e} : records'[x] = records[x]
  BY Zenon, <1>0, <1>2 DEF TypeOK
<1>7. \A q \in Receivers : q = r
  BY Zenon DEF OneHandler
<1> HIDE DEF staged, h
<1>8. \A q \in Receivers : handlers'[q].at <= now'
  BY Zenon, <1>3, <1>5, <1>6, <1>7
<1>9. AskedAbout' \ {e} \subseteq {x \in Events : Asks(records[x], x, now)}
  BY Zenon, <1>5, <1>6, <1>7 DEF AskedAbout, Asks, Expired
<1>10. CASE admission = "pending"
  <2>1. PendingCapacity(e, h.at)
    BY Zenon, <1>2, <1>10 DEF h
  <2>2. {x \in Events : Asks(records[x], x, now)} \subseteq Waiting(h.at)
    <3>1. ASSUME NEW x \in Events, Asks(records[x], x, now)
          PROVE  Asks(records[x], x, h.at)
      <4>1. records[x].received \in Nat
        BY <1>0 DEF TypeOK, Record, NoRecord, Torn
      <4> QED
        BY SMTT(40), <1>1, <1>3, <3>1, <4>1, AsksLess
    <3> QED
      BY Zenon, <3>1 DEF Asks, Waiting
  <2>3. AskedAbout' \in SUBSET Events
    BY Zenon DEF AskedAbout
  <2>4. WithinBounds(AskedAbout' \ {e})
    <3>1. AskedAbout' \ {e} \subseteq AskedAbout
      BY Zenon, <1>9 DEF AskedAbout
    <3>2. AskedAbout \in SUBSET Events
      BY Zenon DEF AskedAbout
    <3> QED
      BY Zenon, <3>1, <3>2, BoundedSubset DEF QueueInv
  <2>5. WithinBounds(AskedAbout')
    BY Zenon, <1>9, <2>1, <2>2, <2>3, <2>4, BoundedOneMore
  <2> QED
    BY Zenon, <1>8, <2>5 DEF QueueInv, WithinBounds
<1>11. CASE admission # "pending"
  <2>1. ~Asks(staged, e, now)
    BY Zenon, <1>4, <1>11 DEF Asks
  <2>2. AskedAbout' \subseteq AskedAbout
    BY <1>5, <1>6, <1>7, <2>1 DEF AskedAbout, Asks, Expired
  <2> QED
    BY <1>3, <1>8, <2>2, QueueShrinks
<1> QED
  BY Zenon, <1>10, <1>11

LEMMA QueueReceive ==
    ASSUME IsFiniteSet(Events), OneHandler, QueueInv, TypeOK',
           NEW r \in Receivers, Receive(r)
    PROVE  QueueInv'
<1>0. TypeOK
  BY ZenonT(30) DEF QueueInv
<1>1. now' = now
  BY Zenon DEF Receive, ReceiveSealed, Refuse, Accept, CommitInbound
<1>2. ASSUME handlers' = [handlers EXCEPT ![r] = Idle], records' = records
      PROVE  QueueInv'
  <2>1. \A q \in Receivers : handlers'[q] = handlers[q] \/ handlers'[q] = Idle
    BY Zenon, <1>0, <1>2 DEF TypeOK
  <2> QED
    BY Zenon, <1>1, <1>2, <2>1, QueueQuiet
<1>3. ASSUME NEW e \in Events, ReceiveSealed(r, e) PROVE QueueInv'
  <2>1. \A x \in Events : RecordAsksNoMore(x)
    BY Zenon, <1>3 DEF ReceiveSealed, RecordAsksNoMore, SameAsk
  <2>2. ASSUME NEW q \in Receivers PROVE HandlerAsksNoMore(q)
    BY <1>0, <1>3, <2>2 DEF TypeOK, ReceiveSealed, HandlerAsksNoMore
  <2> QED
    BY ZenonT(30), <1>1, <2>1, <2>2, QueueKept
<1>4. ASSUME NEW a \in {"admitted", "pending"}, Accept(r, a) PROVE QueueInv'
  <2>1. handlers[r] \in Handler /\ handlers[r].event \in Events
    BY Zenon, <1>0, <1>4, BusyHandler DEF Accept
  <2>2. CASE /\ handlers' = [handlers EXCEPT ![r] =
                               Holding(handlers[r], records[handlers[r].event])]
             /\ records' = records
    <3>1. \A x \in Events : RecordAsksNoMore(x)
      BY Zenon, <2>2 DEF RecordAsksNoMore, SameAsk
    <3>2. handlers'[r] = Holding(handlers[r], records[handlers[r].event])
      BY Zenon, <1>0, <2>2 DEF TypeOK
    <3>3. HandlerAsksNoMore(r)
      BY Zenon, <2>1, <3>2 DEF HandlerAsksNoMore, Holding, Handler, OpenedHandler,
                        AcceptedHandler
    <3>4. \A q \in Receivers \ {r} : HandlerAsksNoMore(q)
      BY Zenon, <1>0, <2>2 DEF TypeOK, HandlerAsksNoMore
    <3> QED
      BY Zenon, <1>1, <3>1, <3>3, <3>4, QueueKept
  <2>3. CASE /\ a = "pending" =>
                  PendingCapacity(handlers[r].event, handlers[r].at)
             /\ records' = [records EXCEPT ![handlers[r].event] =
                              Staged(handlers[r], a)]
             /\ handlers' = [handlers EXCEPT ![r] =
                              Holding(handlers[r], Staged(handlers[r], a))]
    <3>1. handlers[r].pc = "opened"
      BY Zenon, <1>4 DEF Accept
    <3> QED
      BY ZenonT(40), <1>1, <2>3, <3>1, QueueStaged
  <2> QED
    BY SMTT(40), <1>2, <1>4, <2>2, <2>3 DEF Accept
<1>5. CASE CommitInbound(r)
  <2> DEFINE h == handlers[r]
  <2>1. h \in Handler /\ h.event \in Events
    BY Zenon, <1>0, <1>5, BusyHandler DEF CommitInbound
  <2>2. h.copy \in Record
    BY Zenon, <1>5, <2>1 DEF CommitInbound, Handler, OpenedHandler, AcceptedHandler
  <2>3. ASSUME NEW c \in {"committed", "abandoned"}
        PROVE  SameAsk(WithCrypto(h.copy, c), h.copy)
    BY Zenon, <2>2 DEF WithCrypto, Record, SameAsk
  <2>4. \A x \in Events \ {h.event} : records'[x] = records[x]
    BY Zenon, <1>0, <1>5 DEF TypeOK, CommitInbound
  <2>5. \E c \in {"committed", "abandoned"} :
           records'[h.event] = WithCrypto(h.copy, c)
    BY Zenon, <1>0, <1>5, <2>1 DEF TypeOK, CommitInbound
  <2>6. \A x \in Events : RecordAsksNoMore(x)
    <3>1. SameAsk(records'[h.event], h.copy)
      BY ZenonT(30), <2>3, <2>5
    <3> QED
      BY Zenon, <2>4, <3>1 DEF RecordAsksNoMore, SameAsk
  <2>7. \A q \in Receivers : HandlerAsksNoMore(q)
    BY Zenon, <1>0, <1>5 DEF TypeOK, CommitInbound, HandlerAsksNoMore
  <2> QED
    BY Zenon, <1>1, <2>6, <2>7, QueueKept
<1>6. CASE Refuse(r)
  BY Zenon, <1>2, <1>6 DEF Refuse
<1> QED
  BY Zenon, <1>3, <1>4, <1>5, <1>6 DEF Receive

\* A step that leaves the handlers alone, or drops them all, and by which a
\* record asks what it asked or nothing.
LEMMA QueueRecords ==
    ASSUME IsFiniteSet(Events), QueueInv, TypeOK', now' = now,
           handlers' = handlers \/ handlers' = [r \in Receivers |-> Idle],
           \A e \in Events : \/ records'[e].admission # "pending"
                             \/ SameAsk(records'[e], records[e])
    PROVE  QueueInv'
<1>1. \A e \in Events : RecordAsksNoMore(e)
  BY Zenon DEF RecordAsksNoMore
<1>2. \A r \in Receivers : HandlerAsksNoMore(r)
  BY Zenon DEF HandlerAsksNoMore
<1> QED
  BY Zenon, <1>1, <1>2, QueueKept

LEMMA QueueOther ==
    ASSUME IsFiniteSet(Events), QueueInv, TypeOK',
           \/ Recover
           \/ Fail
           \/ \E s \in Sessions : AdvanceSession(s)
           \/ \E w \in Workers : Work(w)
           \/ \E e \in Events : AdmitEvent(e) \/ DenyEvent(e) \/ Moderate(e)
           \/ ExpirePendingAdmissions
           \/ Prune
           \/ UNCHANGED vars
    PROVE  QueueInv'
<1>0. TypeOK /\ records \in [Events -> Record \cup {NoRecord, Torn}]
  BY SMTT(40) DEF QueueInv, TypeOK
<1>1. now' = now
  BY Zenon DEF Recover, ResolveStaged, Opened, Fail, CommitFails, Crash,
         CrashInAccept, CrashInCommit, CrashInRecovery, AdvanceSession, Work,
         List, ClaimForApplication, Finish, WorkerDies, AdmitEvent, DenyEvent,
         Moderate, ExpirePendingAdmissions, Prune, vars
<1>2. NoRecord.admission # "pending" /\ Torn.admission # "pending"
  BY Zenon DEF NoRecord, Torn
<1>3. ASSUME NEW x \in Events, NEW new,
             records' = [records EXCEPT ![x] = new],
             new.admission # "pending" \/ SameAsk(new, records[x]),
             handlers' = handlers \/ handlers' = [r \in Receivers |-> Idle]
      PROVE  QueueInv'
  <2>1. records'[x] = new /\ \A e \in Events \ {x} : records'[e] = records[e]
    BY Zenon, <1>0, <1>3
  <2>2. \A e \in Events : \/ records'[e].admission # "pending"
                          \/ SameAsk(records'[e], records[e])
    BY Zenon, <1>3, <2>1 DEF SameAsk
  <2> QED
    BY Zenon, <1>1, <1>3, <2>2, QueueRecords
<1>4. ASSUME records' = records, handlers' = handlers PROVE QueueInv'
  BY Zenon, <1>1, <1>4, QueueQuiet
<1>5. ASSUME NEW e \in Events, ResolveStaged(e) PROVE QueueInv'
  <2>1. records[e] \in Record
    BY Zenon, <1>0, <1>5, RealRecord DEF ResolveStaged
  <2>2. ASSUME NEW c \in {"committed", "abandoned"}
        PROVE  SameAsk(WithCrypto(records[e], c), records[e])
    BY Zenon, <2>1 DEF WithCrypto, Record, SameAsk
  <2>3. PICK c \in {"committed", "abandoned"} :
           records' = [records EXCEPT ![e] = WithCrypto(records[e], c)]
    BY <1>5 DEF ResolveStaged
  <2>4. handlers' = handlers
    BY Zenon, <1>5 DEF ResolveStaged
  <2> QED
    BY ZenonT(40), <1>3, <2>2, <2>3, <2>4
<1>6. CASE Fail
  <2>1. ASSUME NEW r \in Receivers, CommitFails(r) PROVE QueueInv'
    <3>1. /\ records' = records
          /\ \A q \in Receivers : handlers'[q] = handlers[q] \/ handlers'[q] = Idle
      BY Zenon, <1>0, <2>1 DEF TypeOK, CommitFails
    <3> QED
      BY SMTT(40), <1>1, <3>1, QueueQuiet
  <2>2. ASSUME records' = records, Die PROVE QueueInv'
    BY Zenon, <1>1, <2>2, QueueQuiet DEF Die
  <2>3. ASSUME NEW r \in Receivers, CrashInAccept(r) PROVE QueueInv'
    <3>1. handlers[r].event \in Events
      BY Zenon, <1>0, <2>3, BusyHandler DEF CrashInAccept
    <3>2. /\ records' = [records EXCEPT ![handlers[r].event] = Torn]
          /\ handlers' = [q \in Receivers |-> Idle]
      BY Zenon, <2>3 DEF CrashInAccept, Die
    <3> QED
      BY Zenon, <1>2, <1>3, <3>1, <3>2
  <2> QED
    BY ZenonT(40), <1>6, <2>1, <2>2, <2>3
       DEF Fail, Crash, CrashInCommit, CrashInRecovery
<1>7. ASSUME NEW w \in Workers, Work(w) PROVE QueueInv'
  <2>1. CASE List(w) \/ WorkerDies(w)
    BY Zenon, <1>4, <2>1 DEF List, WorkerDies
  <2>2. ASSUME NEW e \in Events, ClaimForApplication(w, e) PROVE QueueInv'
    <3>1. records[e] \in Record
      BY Zenon, <1>0, <2>2, RealRecord DEF ClaimForApplication
    <3>2. SameAsk(Leased(records[e], "claimed", leases + 1, now + LeaseSeconds),
                  records[e])
      BY Zenon, <3>1 DEF Leased, Record, SameAsk
    <3> QED
      BY Zenon, <1>3, <2>2, <3>2 DEF ClaimForApplication
  <2>3. ASSUME NEW state \in {"applied", "rejected"}, Finish(w, state)
        PROVE  QueueInv'
    <3>1. PICK e \in Events : e = workers[w].event
      BY Zenon, <1>0, <2>3 DEF TypeOK, Finish, Worker
    <3>2. CASE /\ HoldsLease(w, e)
               /\ records' = [records EXCEPT ![e] =
                                Leased(records[e], state, 0, 0)]
      <4>1. records[e].application # "none"
        BY Zenon, <3>2 DEF HoldsLease
      <4>2. records[e] \in Record
        BY Zenon, <1>0, <4>1, RealRecord
      <4>3. SameAsk(Leased(records[e], state, 0, 0), records[e])
        BY Zenon, <4>2 DEF Leased, Record, SameAsk
      <4>4. handlers' = handlers
        BY Zenon, <2>3 DEF Finish
      <4> QED
        BY Zenon, <1>3, <3>2, <4>3, <4>4
    <3> QED
      BY Zenon, <1>4, <2>3, <3>1, <3>2 DEF Finish
  <2> QED
    BY Zenon, <1>7, <2>1, <2>2, <2>3 DEF Work
<1>8. ASSUME NEW e \in Events, records[e].admission = "pending"
      PROVE  /\ Admitted(records[e]).admission # "pending"
             /\ Denied(records[e]).admission # "pending"
  <2>1. records[e] \in Record
    BY Zenon, <1>0, <1>8, RealRecord
  <2> QED
    BY Zenon, <2>1 DEF Admitted, Denied, Record
<1>9. ASSUME NEW e \in Events, AdmitEvent(e) \/ DenyEvent(e) PROVE QueueInv'
  <2>1. PICK new \in {Admitted(records[e]), Denied(records[e])} :
           records[e].admission = "pending" /\ records' = [records EXCEPT ![e] = new]
    BY Zenon, <1>9 DEF AdmitEvent, DenyEvent
  <2>2. handlers' = handlers
    BY Zenon, <1>9 DEF AdmitEvent, DenyEvent
  <2>3. new.admission # "pending"
    BY Zenon, <1>8, <2>1
  <2> QED
    BY Zenon, <1>3, <2>1, <2>2, <2>3
<1>10. CASE ExpirePendingAdmissions
  <2>1. \A e \in Events : \/ records'[e].admission # "pending"
                          \/ SameAsk(records'[e], records[e])
    BY Zenon, <1>8, <1>10 DEF ExpirePendingAdmissions, SameAsk
  <2>2. handlers' = handlers
    BY Zenon, <1>10 DEF ExpirePendingAdmissions
  <2> QED
    BY Zenon, <1>1, <2>1, <2>2, QueueRecords
<1>11. CASE Prune
  <2>1. \A e \in Events : \/ records'[e].admission # "pending"
                          \/ SameAsk(records'[e], records[e])
    BY ZenonT(30), <1>2, <1>11 DEF Prune, SameAsk
  <2> QED
    BY Zenon, <1>1, <1>11, <2>1, QueueRecords DEF Prune
<1>12. CASE \/ Opened
            \/ \E s \in Sessions : AdvanceSession(s)
            \/ \E e \in Events : Moderate(e)
            \/ UNCHANGED vars
  BY Zenon, <1>4, <1>12 DEF Opened, AdvanceSession, Moderate, vars
<1> QED
  BY <1>5, <1>6, <1>7, <1>9, <1>10, <1>11, <1>12 DEF Recover

LEMMA QueueInit == IsFiniteSet(Events) /\ Init => QueueInv
<1> SUFFICES ASSUME IsFiniteSet(Events), Init PROVE QueueInv
  BY Zenon
<1>1. TypeOK
  BY Zenon, TypeInit
<1>2. /\ \A r \in Receivers : handlers[r] = Idle
      /\ \A e \in Events : records[e] = NoRecord
      /\ now = 1
  BY SMTT(40) DEF Init
<1>3. \A r \in Receivers : handlers[r].at <= now
  BY <1>2 DEF Idle
<1>4. NoRecord.admission # "pending" /\ Idle.copy = NoRecord
  BY Zenon DEF NoRecord, Idle
<1>5. AskedAbout = {}
  BY Zenon, <1>2, <1>4 DEF AskedAbout, Asks
<1>6. WithinBounds({})
  <2>1. Cardinality({}) = 0
    BY Zenon, FS_EmptySet
  <2>2. \A s \in Sessions : {e \in {} : SessionOf[e] = s} = {}
    BY Zenon
  <2> QED
    BY <2>1, <2>2, InboundAssumption DEF WithinBounds
<1> QED
  BY Zenon, <1>1, <1>3, <1>5, <1>6 DEF QueueInv

\* While messages are handled one at a time, never more than
\* MaxPendingAdmissions events, and never more than MaxPendingPerSender of one
\* sender, wait for the owner, whatever the owner decides while a commit is under
\* way, and wherever the process dies.
THEOREM QueueIsBounded ==
    ASSUME IsFiniteSet(Events), OneHandler
    PROVE  Spec => []PendingBounded
<1>1. QueueInv /\ [Next]_vars => QueueInv'
  <2> SUFFICES ASSUME QueueInv, [Next]_vars PROVE QueueInv'
    BY Zenon
  <2>1. TypeOK'
    BY Zenon, TypeStep DEF QueueInv
  <2> QED
    BY Zenon, <2>1, QueueReceive, QueueOther, QueueTick DEF Next
<1>2. QueueInv => PendingBounded
  <2> SUFFICES ASSUME QueueInv PROVE PendingBounded
    BY Zenon
  <2>1. Waiting(now) \subseteq AskedAbout /\ AskedAbout \subseteq Events
    BY Zenon DEF Waiting, AskedAbout, Asks
  <2>2. WithinBounds(Waiting(now))
    BY Zenon, <2>1, BoundedSubset DEF QueueInv
  <2> QED
    BY Zenon, <2>2 DEF WithinBounds, PendingBounded
<1> QED
  BY <1>1, <1>2, QueueInit, PTL DEF Spec
=============================================================================
