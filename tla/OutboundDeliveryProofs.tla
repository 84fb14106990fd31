----------------------- MODULE OutboundDeliveryProofs -----------------------
(***************************************************************************)
(* For every set of requests, devices, composers and sweepers, every bound *)
(* and every pattern of crashes and failed writes: the types are right and *)
(* no message key is used for two deliveries.                              *)
(*                                                                         *)
(* KeyUsedOnce is not inductive: it says nothing of the keys that are      *)
(* stored, or held by a sweep, and not yet on the wire. The strengthening  *)
(* orders keys by their place in the ratchet. Whatever any delivery or     *)
(* sweep owns lies strictly before the position of its device's session    *)
(* (KeysSpent), positions only advance (SessionsAdvance), and a seal that  *)
(* commits takes the key at the position itself, because the generation it *)
(* compares tells it that its copy of the session is current               *)
(* (BasesFaithful).                                                        *)
(***************************************************************************)
EXTENDS OutboundDelivery, TLAPS

-----------------------------------------------------------------------------
(* Types *)

LEMMA BackoffNat ==
    ASSUME NEW base \in Nat, NEW cap \in Nat, NEW attempt \in Nat
    PROVE  Backoff(base, cap, attempt) \in Nat
<1>1. \A x : (IF x \in 0..cap THEN x ELSE cap) \in Nat
  OBVIOUS
<1> QED
  BY Zenon, <1>1 DEF Backoff

LEMMA NextCodeType ==
    ASSUME NEW disposition \in Dispositions, NEW attempt \in Nat
    PROVE  NextCode(disposition, attempt) \in [allowed: BOOLEAN, after: Nat]
<1>1. /\ TransientBase \in Nat /\ TransientCap \in Nat
      /\ RefreshBase \in Nat /\ RefreshCap \in Nat
  BY Zenon, RetryAssumption
<1>2. /\ Backoff(TransientBase, TransientCap, attempt) \in Nat
      /\ Backoff(RefreshBase, RefreshCap, attempt) \in Nat
  BY Zenon, <1>1, BackoffNat
<1>3. CASE disposition = "transient" /\ attempt <= TransientAttempts
  BY Zenon, <1>2, <1>3 DEF NextCode
<1>4. CASE disposition = "refresh" /\ attempt <= RefreshAttempts
  BY Zenon, <1>2, <1>4 DEF NextCode
<1>5. CASE /\ ~(disposition = "transient" /\ attempt <= TransientAttempts)
           /\ ~(disposition = "refresh" /\ attempt <= RefreshAttempts)
  BY Zenon, <1>5 DEF NextCode, NotRetried
<1> QED
  BY Zenon, <1>3, <1>4, <1>5

LEMMA TypeInit == Init => TypeOK
<1> SUFFICES ASSUME Init PROVE TypeOK
  BY Zenon
<1>1. NoSession \in Session /\ Bootstrapped(None) \in Session
  BY Zenon DEF NoSession, Bootstrapped, Session
<1>2. IdleSweeper \in Sweeper /\ WellFormed(IdleSweeper)
  BY Zenon, <1>1 DEF IdleSweeper, Sweeper, WellFormed
<1>3. 1 \in Times
  BY OutboundAssumption DEF Times
<1> QED
  BY Zenon, <1>1, <1>2, <1>3 DEF Init, TypeOK

\* What the updates of a delivery change and keep.
LEMMA DeliveryUpdates ==
    ASSUME NEW del \in Delivery, NEW t \in Nat, NEW a \in Nat,
           NEW state \in DeliveryState
    PROVE  /\ Claimed(del, a, t) \in Delivery
           /\ Claimed(del, a, t).sealed = del.sealed
           /\ Settled(del, state, t) \in Delivery
           /\ Settled(del, state, t).sealed = del.sealed
           /\ Released(del, t) \in Delivery
           /\ Released(del, t).sealed = del.sealed
<1>1. t + AttemptLease \in Nat
  BY OutboundAssumption
<1> QED
  BY Zenon, <1>1 DEF Delivery, DeliveryState, Claimed, Settled, Released

LEMMA SealedUpdate ==
    ASSUME NEW del \in Delivery, NEW key \in MessageKey
    PROVE  /\ WithSealed(del, key) \in Delivery
           /\ WithSealed(del, key).sealed = key
BY Zenon DEF Delivery, WithSealed

LEMMA RescheduledType ==
    ASSUME NEW del \in Delivery, NEW id \in DeliveryId,
           NEW disposition \in Dispositions, NEW t \in Nat
    PROVE  /\ Rescheduled(del, id, disposition, t) \in Delivery
           /\ Rescheduled(del, id, disposition, t).sealed = del.sealed
<1> DEFINE tried == Tried(del)
           retry == NextCode(disposition, tried.attempts)
<1>1. tried \in Delivery /\ tried.sealed = del.sealed /\ tried.attempts \in Nat
  <2>1. del.attempts \in Nat /\ del.attempts + 1 \in Nat
    BY DEF Delivery
  <2> QED
    BY Zenon, <2>1 DEF Delivery, Tried
<1>2. retry.after \in Nat
  BY Zenon, <1>1, NextCodeType
<1>3. Expiry(id) \in Nat
  BY Zenon, OutboundAssumption DEF Expiry, DeliveryId
<1> HIDE DEF tried, retry
<1>4. /\ [tried EXCEPT !.state = "abandoned", !.next = 0, !.settled = t] \in Delivery
      /\ [tried EXCEPT !.state = "abandoned", !.next = 0, !.settled = t].sealed = del.sealed
  BY Zenon, <1>1 DEF Delivery, DeliveryState
<1>5. /\ [tried EXCEPT !.next = t + retry.after] \in Delivery
      /\ [tried EXCEPT !.next = t + retry.after].sealed = del.sealed
  <2>1. t + retry.after \in Nat
    BY <1>2
  <2> QED
    BY Zenon, <1>1, <2>1 DEF Delivery
<1>6. /\ [tried EXCEPT !.state = "held", !.next = 0] \in Delivery
      /\ [tried EXCEPT !.state = "held", !.next = 0].sealed = del.sealed
  BY Zenon, <1>1 DEF Delivery, DeliveryState
<1> QED
  BY Zenon, <1>4, <1>5, <1>6 DEF Rescheduled, tried, retry

\* A delivery in one of the real states is a delivery record.
LEMMA RealDelivery ==
    ASSUME TypeOK, NEW id \in DeliveryId, Readable(deliveries[id])
    PROVE  deliveries[id] \in Delivery
BY DEF TypeOK, Readable, NoDelivery, TornDelivery, Absent, DeliveryState

LEMMA SweepingType ==
    ASSUME NEW at \in Times \cup {0}, NEW due \in SUBSET Entry
    PROVE  /\ Sweeping(at, due) \in Sweeper
           /\ WellFormed(Sweeping(at, due))
           /\ Sweeping(at, due).id = None /\ Sweeping(at, due).sealed = None
           /\ Sweeping(at, due).pc = "next"
<1>1. NoSession \in Session
  BY Zenon DEF NoSession, Session
<1> QED
  BY Zenon, <1>1 DEF Sweeping, IdleSweeper, Sweeper, WellFormed

\* What the steps of a sweep make of its local state.
LEMMA SweeperUpdates ==
    ASSUME NEW sw \in Sweeper, NEW disposition \in Dispositions
    PROVE  /\ IdleSweeper \in Sweeper /\ WellFormed(IdleSweeper)
           /\ IdleSweeper.id = None /\ IdleSweeper.sealed = None
           /\ IdleSweeper.pc = "idle"
           /\ Resumed(sw) \in Sweeper /\ WellFormed(Resumed(sw))
           /\ Resumed(sw).sealed = None /\ Resumed(sw).pc # "commit"
           /\ Failing(sw, disposition) \in Sweeper
           /\ Failing(sw, disposition).sealed = None
           /\ Failing(sw, disposition).pc = "failed"
           /\ sw.id # None => WellFormed(Failing(sw, disposition))
<1>1. NoSession \in Session
  BY Zenon DEF NoSession, Session
<1>2. sw.due \in SUBSET Entry /\ sw.at \in Times \cup {0}
  BY Zenon DEF Sweeper
<1>3. /\ Sweeping(sw.at, sw.due) \in Sweeper
      /\ WellFormed(Sweeping(sw.at, sw.due))
      /\ Sweeping(sw.at, sw.due).id = None
      /\ Sweeping(sw.at, sw.due).sealed = None
      /\ Sweeping(sw.at, sw.due).pc = "next"
  BY Zenon, <1>2, SweepingType
<1>4. /\ IdleSweeper \in Sweeper /\ WellFormed(IdleSweeper)
      /\ IdleSweeper.id = None /\ IdleSweeper.sealed = None
      /\ IdleSweeper.pc = "idle"
  BY Zenon, <1>1 DEF IdleSweeper, Sweeper, WellFormed
<1>5. /\ Failing(sw, disposition) \in Sweeper
      /\ Failing(sw, disposition).sealed = None
      /\ Failing(sw, disposition).pc = "failed"
      /\ sw.id # None => WellFormed(Failing(sw, disposition))
  BY Zenon, <1>1 DEF Sweeper, WellFormed, Failing
<1> QED
  BY Zenon, <1>3, <1>4, <1>5 DEF Resumed

\* The record a busy composer works from.
LEMMA BusyComposer ==
    ASSUME TypeOK, NEW c \in Composers
    PROVE  /\ composers[c].pc = "ensure" => composers[c] \in Ensuring
           /\ composers[c].pc = "queue" => composers[c] \in Queueing
BY DEF TypeOK, Ensuring, Queueing, IdleComposer

LEMMA TypeCompose ==
    ASSUME TypeOK, NEW c \in Composers, Compose(c)
    PROVE  TypeOK'
<1>0. composers \in [Composers -> Ensuring \cup Queueing \cup {IdleComposer}]
  BY Zenon DEF TypeOK
<1>1. ASSUME NEW k \in Keys, NEW i \in Intents, Submit(c, k, i) PROVE TypeOK'
  <2> DEFINE left == IF k \in Untargeted THEN {}
                     ELSE {d \in TargetsOf[k] : session[d].generation = 0}
             new == [pc |-> "ensure", key |-> k, intent |-> i, at |-> now,
                     created |-> 0, left |-> left]
  <2>1. left \in SUBSET Devices
    BY Zenon, OutboundAssumption
  <2>2. new \in Ensuring
    BY Zenon, <2>1 DEF TypeOK, Ensuring
  <2>3. composers' = [composers EXCEPT ![c] = new]
    BY Zenon, <1>1 DEF Submit
  <2>4. composers' \in [Composers -> Ensuring \cup Queueing \cup {IdleComposer}]
    BY Zenon, <1>0, <2>2, <2>3
  <2>5. submits' \in Nat
    BY <1>1 DEF Submit, TypeOK
  <2> QED
    BY Zenon, <1>1, <2>4, <2>5 DEF TypeOK, Submit, history
<1>2. ASSUME NEW d \in Devices, EnsureSession(c, d) PROVE TypeOK'
  <2>1. Established(c, d) \in Session
    BY Zenon DEF TypeOK, Established, Bootstrapped, Session
  <2>2. session' \in [Devices -> Session]
    BY Zenon, <1>2, <2>1 DEF TypeOK, EnsureSession
  <2>3. composers[c] \in Ensuring
    BY Zenon, <1>2, BusyComposer DEF EnsureSession
  <2>4. Without(composers[c], d) \in Ensuring
    BY Zenon, <2>3 DEF Ensuring, Without
  <2>5. composers' \in [Composers -> Ensuring \cup Queueing \cup {IdleComposer}]
    BY Zenon, <1>0, <1>2, <2>4 DEF EnsureSession
  <2> QED
    BY Zenon, <1>2, <2>2, <2>5 DEF TypeOK, EnsureSession, counters, history
<1>3. CASE ClaimOutboundComposition(c)
  <2> DEFINE co == composers[c]
             k == co.key
             bound == compositions[k]
             usable == bound = NoComposition \/ bound.intent = co.intent
             at == IF k \in Untargeted THEN Chosen(c) ELSE now
  <2>1. co \in Ensuring
    BY Zenon, <1>3, BusyComposer DEF ClaimOutboundComposition
  <2>2. k \in Keys /\ co.intent \in Intents /\ co.at \in Times
    BY Zenon, <2>1 DEF Ensuring
  <2>3. bound \in [intent: Intents, created: Times] \cup {NoComposition, TornComposition}
    BY Zenon, <2>2 DEF TypeOK
  <2>4. usable => Chosen(c) \in Times
    BY <2>2, <2>3, OutboundAssumption DEF Chosen, NoComposition, TornComposition
  <2>5. usable => [co EXCEPT !.pc = "queue", !.created = Chosen(c), !.at = at,
                             !.left = TargetsOf[k]] \in Queueing
    <3>1. TargetsOf[k] \in SUBSET Devices
      BY Zenon, <2>2, OutboundAssumption
    <3>2. usable => at \in Times
      BY Zenon, <2>4 DEF TypeOK
    <3> HIDE DEF at, usable
    <3> QED
      BY Zenon, <2>1, <2>4, <3>1, <3>2 DEF Ensuring, Queueing
  <2>6. composers' \in [Composers -> Ensuring \cup Queueing \cup {IdleComposer}]
    BY Zenon, <1>0, <1>3, <2>5 DEF ClaimOutboundComposition
  <2>7. Composed(c) \in [intent: Intents, created: Times]
    BY Zenon, <2>2 DEF Composed
  <2>8. compositions' \in [Keys -> [intent: Intents, created: Times]
                                    \cup {NoComposition, TornComposition}]
    BY Zenon, <1>3, <2>7 DEF TypeOK, ClaimOutboundComposition
  <2> QED
    BY Zenon, <1>3, <2>6, <2>8 DEF TypeOK, ClaimOutboundComposition, counters, history
<1>4. ASSUME NEW d \in Devices, Enqueue(c, d) PROVE TypeOK'
  <2>1. composers[c] \in Queueing
    BY Zenon, <1>4, BusyComposer DEF Enqueue
  <2>2. composers[c].at \in Nat
    BY <2>1 DEF Queueing, Times
  <2>3. Queued(composers[c].at) \in Delivery
    BY Zenon, <2>2 DEF Queued, Delivery, DeliveryState
  <2>4. deliveries' \in [DeliveryId -> Delivery \cup {NoDelivery, TornDelivery}]
    BY Zenon, <1>4, <2>3 DEF TypeOK, Enqueue, Enqueued
  <2>5. Without(composers[c], d) \in Queueing
    BY Zenon, <2>1 DEF Queueing, Without
  <2>6. composers' \in [Composers -> Ensuring \cup Queueing \cup {IdleComposer}]
    BY Zenon, <1>0, <1>4, <2>5 DEF Enqueue
  <2> QED
    BY Zenon, <1>4, <2>4, <2>6 DEF TypeOK, Enqueue, counters, history
<1> QED
  BY Zenon, <1>1, <1>2, <1>3, <1>4 DEF Compose

\* A sweep past its claim works on a delivery.
LEMMA BusySweeper ==
    ASSUME TypeOK, NEW s \in Sweepers
    PROVE  /\ sweepers[s] \in Sweeper /\ WellFormed(sweepers[s])
           /\ sweepers[s].pc \in {"seal", "commit", "send", "sent", "failed"} =>
                 /\ sweepers[s].id \in DeliveryId
                 /\ sweepers[s].id.device \in Devices
           /\ sweepers[s].pc \in {"send", "sent"} => sweepers[s].sealed \in MessageKey
           /\ sweepers[s].pc = "failed" => sweepers[s].code \in Dispositions
BY Zenon DEF TypeOK, Sweeper, WellFormed, DeliveryId

\* What a sweep seals, and the session state that leaves, is well typed.
LEMMA SealTypes ==
    ASSUME NEW base \in Session, NEW d \in Devices
    PROVE  /\ KeyOf(d, base) \in MessageKey
           /\ AfterSeal(base) \in Session
<1>1. base.generation + 1 \in Nat /\ base.index + 1 \in Nat
  BY DEF Session
<1> QED
  BY Zenon, <1>1 DEF Session, KeyOf, AfterSeal, MessageKey

LEMMA TypeSweep ==
    ASSUME TypeOK, NEW s \in Sweepers, Sweep(s)
    PROVE  TypeOK'
<1> DEFINE sw == sweepers[s]
           SetOK(v) == v \in Sweeper /\ WellFormed(v)
<1>0. /\ sweepers \in [Sweepers -> Sweeper]
      /\ \A t \in Sweepers : WellFormed(sweepers[t])
      /\ deliveries \in [DeliveryId -> Delivery \cup {NoDelivery, TornDelivery}]
      /\ now \in Nat /\ claims \in Nat /\ now \in Times
  BY DEF TypeOK, Times
<1>a. sw \in Sweeper /\ WellFormed(sw)
  BY Zenon, BusySweeper
<1>b. /\ SetOK(IdleSweeper) /\ SetOK(Resumed(sw))
      /\ \A disposition \in Dispositions :
            sw.id # None => SetOK(Failing(sw, disposition))
  BY Zenon, <1>a, SweeperUpdates DEF Dispositions
<1>c. ASSUME NEW v, SetOK(v), sweepers' = [sweepers EXCEPT ![s] = v]
      PROVE  /\ sweepers' \in [Sweepers -> Sweeper]
             /\ \A t \in Sweepers : WellFormed(sweepers'[t])
  BY Zenon, <1>0, <1>c
<1>d. {"transient", "permanent"} \subseteq Dispositions
  BY Zenon DEF Dispositions
<1> HIDE DEF SetOK
<1>1. CASE StartSweep(s)
  <2> DEFINE due == {id \in DeliveryId : Due(deliveries[id], id, now)}
             entries == {[id |-> id, next |-> deliveries[id].next] : id \in due}
             new == Sweeping(now, entries)
  <2>1. \A id \in due : deliveries[id].next \in Nat
    <3>1. \A id \in due : Readable(deliveries[id])
      BY Zenon DEF Due, Readable, DeliveryState
    <3>2. \A id \in due : deliveries[id] \in Delivery
      BY Zenon, <3>1, RealDelivery
    <3> QED
      BY Zenon, <3>2 DEF Delivery
  <2>2. entries \in SUBSET Entry
    BY <2>1 DEF Entry
  <2>3. SetOK(new)
    BY Zenon, <1>0, <2>2, SweepingType DEF SetOK
  <2>4. sweepers' = [sweepers EXCEPT ![s] = new]
    BY Zenon, <1>1 DEF StartSweep
  <2> HIDE DEF new
  <2> QED
    BY Zenon, <1>1, <1>c, <2>3, <2>4 DEF TypeOK, StartSweep, counters, history
<1>2. ASSUME NEW entry \in sw.due, ClaimForSend(s, entry) PROVE TypeOK'
  <2> DEFINE del == deliveries[entry.id]
             rest == [sw EXCEPT !.due = @ \ {entry}]
             new == [rest EXCEPT !.pc = IF del.sealed = None THEN "seal" ELSE "send",
                                 !.id = entry.id, !.attempt = claims + 1,
                                 !.sealed = del.sealed]
  <2>1. entry.id \in DeliveryId /\ claims + 1 \in Nat /\ sw.at \in Nat
    BY <1>0, <1>a DEF Sweeper, Entry, Times
  <2>2. rest \in Sweeper
    BY Zenon, <1>a DEF Sweeper
  <2>3. SetOK(Resumed(rest))
    BY Zenon, <2>2, SweeperUpdates DEF SetOK, Dispositions
  <2>4. CASE Claimable(del, sw.at)
    <3>1. del \in Delivery
      BY Zenon, <2>1, <2>4, RealDelivery DEF Claimable, Readable, DeliveryState
    <3>2. del.sealed \in MessageKey \cup {None}
      BY Zenon, <3>1 DEF Delivery
    <3>3. SetOK(new)
      <4> DEFINE pc == IF del.sealed = None THEN "seal" ELSE "send"
      <4>1. pc \in {"seal", "send"} /\ (pc = "send" => del.sealed # None)
        BY Zenon
      <4>2. entry.id # None
        BY Zenon, <2>1, NoneAssumption
      <4> HIDE DEF del, rest, pc
      <4>3. /\ [rest EXCEPT !.pc = pc, !.id = entry.id, !.attempt = claims + 1,
                            !.sealed = del.sealed] \in Sweeper
            /\ WellFormed([rest EXCEPT !.pc = pc, !.id = entry.id,
                            !.attempt = claims + 1, !.sealed = del.sealed])
        BY Zenon, <2>1, <2>2, <3>2, <4>1, <4>2 DEF Sweeper, WellFormed
      <4> QED
        BY Zenon, <4>3 DEF SetOK, pc
    <3>4. Claimed(del, claims + 1, sw.at) \in Delivery
      BY Zenon, <2>1, <3>1, DeliveryUpdates DEF DeliveryState
    <3>5. deliveries' \in [DeliveryId -> Delivery \cup {NoDelivery, TornDelivery}]
      BY Zenon, <1>0, <1>2, <2>4, <3>4 DEF ClaimForSend
    <3>6. sweepers' = [sweepers EXCEPT ![s] = new]
      BY Zenon, <1>2, <2>4 DEF ClaimForSend
    <3> HIDE DEF new
    <3> QED
      BY Zenon, <1>2, <1>c, <2>1, <3>3, <3>5, <3>6 DEF TypeOK, ClaimForSend, history
  <2>5. CASE ~Claimable(del, sw.at)
    <3>1. sweepers' = [sweepers EXCEPT ![s] = Resumed(rest)]
      BY Zenon, <1>2, <2>5 DEF ClaimForSend
    <3> HIDE DEF rest
    <3> QED
      BY Zenon, <1>2, <1>c, <2>1, <2>3, <2>5, <3>1 DEF TypeOK, ClaimForSend, history
  <2> QED
    BY Zenon, <2>4, <2>5
<1>3. CASE NoAttemptID(s)
  BY Zenon, <1>3, <1>b, <1>c DEF TypeOK, NoAttemptID, counters, history
<1>4. CASE Seal(s)
  <2>1. sw.id \in DeliveryId /\ sw.id.device \in Devices /\ sw.id # None
    BY Zenon, <1>4, BusySweeper DEF Seal, WellFormed
  <2>2. session[sw.id.device] \in Session
    BY Zenon, <2>1 DEF TypeOK
  <2>3. SetOK([sw EXCEPT !.pc = "commit", !.base = session[sw.id.device]])
    BY Zenon, <1>a, <2>1, <2>2 DEF SetOK, Sweeper, WellFormed
  <2>4. \E v : SetOK(v) /\ sweepers' = [sweepers EXCEPT ![s] = v]
    BY Zenon, <1>4, <1>b, <1>d, <2>1, <2>3 DEF Seal
  <2> QED
    BY Zenon, <1>4, <1>c, <2>4 DEF TypeOK, Seal, counters, history
<1>5. CASE CommitSealed(s)
  <2> DEFINE d == sw.id.device
             key == KeyOf(d, sw.base)
  <2>1. sw.id \in DeliveryId /\ d \in Devices /\ sw.id # None
    BY Zenon, <1>5, BusySweeper DEF CommitSealed, WellFormed
  <2>2. sw.base \in Session
    BY Zenon, <1>a DEF Sweeper
  <2>3. key \in MessageKey /\ AfterSeal(sw.base) \in Session
    BY Zenon, <2>1, <2>2, SealTypes
  <2>4. deliveries[sw.id] \in Delivery
    BY Zenon, <1>5, <2>1, RealDelivery
       DEF CommitSealed, MayCommitSealed, Readable, DeliveryState
  <2>5. WithSealed(deliveries[sw.id], key) \in Delivery
    BY Zenon, <2>3, <2>4, SealedUpdate
  <2>6. SetOK([sw EXCEPT !.pc = "send", !.sealed = key, !.base = NoSession])
    <3>1. NoSession \in Session /\ key # None
      BY Zenon, <2>3, NoneAssumption DEF NoSession, Session
    <3> HIDE DEF key
    <3> QED
      BY Zenon, <1>a, <2>1, <2>3, <3>1 DEF SetOK, Sweeper, WellFormed
  <2>7. /\ sweepers' = [sweepers EXCEPT ![s] =
              [sw EXCEPT !.pc = "send", !.sealed = key, !.base = NoSession]]
        /\ deliveries' = [deliveries EXCEPT ![sw.id] = WithSealed(deliveries[sw.id], key)]
        /\ session' = [session EXCEPT ![d] = AfterSeal(sw.base)]
    BY Zenon, <1>5 DEF CommitSealed
  <2>8. deliveries' \in [DeliveryId -> Delivery \cup {NoDelivery, TornDelivery}]
    BY Zenon, <1>0, <2>5, <2>7
  <2>9. session' \in [Devices -> Session]
    BY Zenon, <2>3, <2>7 DEF TypeOK
  <2> QED
    BY Zenon, <1>5, <1>c, <2>6, <2>7, <2>8, <2>9
       DEF TypeOK, CommitSealed, counters, history
<1>6. CASE CommitRefused(s)
  <2>1. sw.id # None
    BY Zenon, <1>6, BusySweeper DEF CommitRefused, WellFormed
  <2>2. SetOK(Discarded(sw))
    BY Zenon, <1>b, <1>d, <2>1 DEF Discarded
  <2> QED
    BY Zenon, <1>6, <1>c, <2>2 DEF TypeOK, CommitRefused, counters, history
<1>7. CASE Send(s)
  <2> DEFINE message == [id |-> sw.id, key |-> sw.sealed,
                         bootstrap |-> session[sw.id.device].root]
  <2>1. /\ sw.id \in DeliveryId /\ sw.id.device \in Devices /\ sw.id # None
        /\ sw.sealed \in MessageKey
    BY Zenon, <1>7, BusySweeper, NoneAssumption DEF Send, WellFormed
  <2>2. message \in Message
    BY Zenon, <2>1 DEF TypeOK, Message, Session
  <2>3. SetOK([sw EXCEPT !.pc = "sent"])
    BY Zenon, <1>7, <1>a, <2>1 DEF SetOK, Sweeper, WellFormed, Send
  <2>4. SetOK(Failing(sw, "permanent"))
    BY Zenon, <1>b, <1>d, <2>1
  <2>5. wire' \in SUBSET Message
    BY Zenon, <1>7, <2>2 DEF TypeOK, Send
  <2>6. CASE InWindow(sw.id)
    BY Zenon, <1>7, <1>c, <2>3, <2>5, <2>6 DEF TypeOK, Send, counters
  <2>7. CASE ~InWindow(sw.id)
    BY Zenon, <1>7, <1>c, <2>4, <2>5, <2>7 DEF TypeOK, Send, counters
  <2> QED
    BY Zenon, <2>6, <2>7
<1>8. CASE Acknowledged(s)
  <2>1. sw.id \in DeliveryId /\ sw.id # None /\ sw.sealed \in MessageKey
    BY Zenon, <1>8, BusySweeper, NoneAssumption DEF Acknowledged, WellFormed
  <2>2. accepted' \in SUBSET [id: DeliveryId, key: MessageKey]
    BY <1>8, <2>1 DEF TypeOK, Acknowledged
  <2>3. CASE MaySettle(deliveries[sw.id], sw.attempt)
    <3>1. deliveries[sw.id] \in Delivery
      BY Zenon, <2>1, <2>3, RealDelivery DEF MaySettle, Live, Readable, DeliveryState
    <3>2. Settled(deliveries[sw.id], "delivered", now) \in Delivery
      BY Zenon, <1>0, <3>1, DeliveryUpdates DEF DeliveryState
    <3>3. deliveries' \in [DeliveryId -> Delivery \cup {NoDelivery, TornDelivery}]
      BY Zenon, <1>0, <1>8, <2>3, <3>2 DEF Acknowledged
    <3> QED
      BY Zenon, <1>8, <1>b, <1>c, <2>2, <2>3, <3>3 DEF TypeOK, Acknowledged, counters
  <2>4. CASE ~MaySettle(deliveries[sw.id], sw.attempt)
    BY Zenon, <1>8, <1>b, <1>c, <1>d, <2>1, <2>2, <2>4 DEF TypeOK, Acknowledged, counters
  <2> QED
    BY Zenon, <2>3, <2>4
<1>9. ASSUME NEW outcome \in Outcomes, NotAcknowledged(s, outcome) PROVE TypeOK'
  <2>1. sw.id \in DeliveryId /\ sw.id # None /\ sw.sealed \in MessageKey
    BY Zenon, <1>9, BusySweeper, NoneAssumption DEF NotAcknowledged, WellFormed
  <2>2. accepted' \in SUBSET [id: DeliveryId, key: MessageKey]
    BY <1>9, <2>1 DEF TypeOK, NotAcknowledged
  <2>3. (IF outcome = "lost" THEN "transient" ELSE outcome) \in Dispositions
    BY Zenon, <1>9, OutboundAssumption DEF NotAcknowledged, Dispositions
  <2> QED
    BY Zenon, <1>9, <1>b, <1>c, <2>1, <2>2, <2>3 DEF TypeOK, NotAcknowledged, counters
<1>10. CASE Failed(s)
  <2>1. sw.id \in DeliveryId /\ sw.code \in Dispositions
    BY Zenon, <1>10, BusySweeper DEF Failed
  <2>2. CASE deliveries[sw.id].state = "pending" /\ HoldsAttempt(deliveries[sw.id], sw.attempt)
    <3>1. deliveries[sw.id] \in Delivery
      BY Zenon, <2>1, <2>2, RealDelivery DEF Readable, DeliveryState
    <3>2. Rescheduled(deliveries[sw.id], sw.id, sw.code, now) \in Delivery
      BY Zenon, <1>0, <2>1, <3>1, RescheduledType
    <3>3. deliveries' \in [DeliveryId -> Delivery \cup {NoDelivery, TornDelivery}]
      BY Zenon, <1>0, <1>10, <2>2, <3>2 DEF Failed
    <3> QED
      BY Zenon, <1>10, <1>b, <1>c, <2>2, <3>3 DEF TypeOK, Failed, counters, history
  <2>3. CASE ~(deliveries[sw.id].state = "pending" /\ HoldsAttempt(deliveries[sw.id], sw.attempt))
    BY Zenon, <1>10, <1>b, <1>c, <2>3 DEF TypeOK, Failed, counters, history
  <2> QED
    BY Zenon, <2>2, <2>3
<1> QED
  BY Zenon, <1>1, <1>2, <1>3, <1>4, <1>5, <1>6, <1>7, <1>8, <1>9, <1>10 DEF Sweep

LEMMA TypeMaintain ==
    ASSUME TypeOK, NEW s \in Sweepers, Maintain(s)
    PROVE  TypeOK'
<1>0. /\ deliveries \in [DeliveryId -> Delivery \cup {NoDelivery, TornDelivery}]
      /\ sweepers \in [Sweepers -> Sweeper] /\ now \in Nat
      /\ \A t \in Sweepers : WellFormed(sweepers[t])
  BY DEF TypeOK, Times
<1>a. /\ IdleSweeper \in Sweeper /\ WellFormed(IdleSweeper)
      /\ [IdleSweeper EXCEPT !.pc = "prune"] \in Sweeper
      /\ WellFormed([IdleSweeper EXCEPT !.pc = "prune"])
  <2>1. NoSession \in Session
    BY Zenon DEF NoSession, Session
  <2> QED
    BY Zenon, <2>1 DEF IdleSweeper, Sweeper, WellFormed
<1>1. CASE ExpireDeliveries(s)
  <2>1. \A id \in DeliveryId : Expired(id) =>
            Settled(deliveries[id], "abandoned", now) \in Delivery
    <3>1. \A id \in DeliveryId : Expired(id) => deliveries[id] \in Delivery
      BY Zenon, RealDelivery DEF Expired, Live, Readable, DeliveryState
    <3> QED
      BY Zenon, <1>0, <3>1, DeliveryUpdates DEF DeliveryState
  <2>2. deliveries' \in [DeliveryId -> Delivery \cup {NoDelivery, TornDelivery}]
    BY Zenon, <1>0, <1>1, <2>1 DEF ExpireDeliveries
  <2>3. /\ sweepers' \in [Sweepers -> Sweeper]
        /\ \A t \in Sweepers : WellFormed(sweepers'[t])
    BY Zenon, <1>0, <1>1, <1>a DEF ExpireDeliveries
  <2> QED
    BY Zenon, <1>1, <2>2, <2>3 DEF TypeOK, ExpireDeliveries, counters, history
<1>2. CASE Prune(s)
  <2>1. deliveries' \in [DeliveryId -> Delivery \cup {NoDelivery, TornDelivery}]
    BY Zenon, <1>0, <1>2 DEF Prune
  <2>2. /\ sweepers' \in [Sweepers -> Sweeper]
        /\ \A t \in Sweepers : WellFormed(sweepers'[t])
    BY Zenon, <1>0, <1>2, <1>a DEF Prune
  <2> QED
    BY Zenon, <1>2, <2>1, <2>2 DEF TypeOK, Prune, counters, history
<1> QED
  BY Zenon, <1>1, <1>2 DEF Maintain

LEMMA TypeOwner ==
    ASSUME TypeOK, NEW id \in DeliveryId, Resume(id) \/ Abandon(id)
    PROVE  TypeOK'
<1>0. deliveries \in [DeliveryId -> Delivery \cup {NoDelivery, TornDelivery}] /\ now \in Nat
  BY DEF TypeOK, Times
<1>1. deliveries[id] \in Delivery
  BY Zenon, RealDelivery DEF Resume, Abandon, Live, Readable, DeliveryState
<1>2. /\ Released(deliveries[id], now) \in Delivery
      /\ Settled(deliveries[id], "abandoned", now) \in Delivery
  BY Zenon, <1>0, <1>1, DeliveryUpdates DEF DeliveryState
<1>3. deliveries' \in [DeliveryId -> Delivery \cup {NoDelivery, TornDelivery}]
  BY Zenon, <1>0, <1>2 DEF Resume, Abandon
<1> QED
  BY Zenon, <1>3 DEF TypeOK, Resume, Abandon, counters, history

LEMMA OpenedType ==
    ASSUME NEW base \in Session, NEW ratchet \in BOOLEAN
    PROVE  Opened(base, ratchet) \in Session
<1>1. base.generation + 1 \in Nat /\ base.chain + 1 \in Nat
  BY DEF Session
<1>2. CASE ratchet
  BY Zenon, <1>1, <1>2 DEF Opened, Session
<1>3. CASE ~ratchet
  BY Zenon, <1>1, <1>3 DEF Opened, Session
<1> QED
  BY Zenon, <1>2, <1>3

LEMMA TypeIngress ==
    ASSUME TypeOK, Ingress
    PROVE  TypeOK'
<1>1. ASSUME NEW d \in Devices, NEW ratchet \in BOOLEAN, InboundOpen(d, ratchet)
      PROVE  TypeOK'
  <2>1. Opened(session[d], ratchet) \in Session
    BY Zenon, OpenedType DEF TypeOK
  <2>2. inbound' \in [Devices -> Session]
    BY Zenon, <1>1, <2>1 DEF TypeOK, InboundOpen
  <2> QED
    BY Zenon, <1>1, <2>2 DEF TypeOK, InboundOpen, counters, history
<1>2. ASSUME NEW d \in Devices, InboundCommit(d) PROVE TypeOK'
  <2>1. NoSession \in Session
    BY Zenon DEF NoSession, Session
  <2> QED
    BY Zenon, <1>2, <2>1 DEF TypeOK, InboundCommit, InboundAdvances, counters, history
<1> QED
  BY Zenon, <1>1, <1>2 DEF Ingress

\* A stop leaves the local state of every actor empty.
LEMMA TypeStop ==
    ASSUME TypeOK, Stop
    PROVE  /\ inbound' \in [Devices -> Session]
           /\ composers' \in [Composers -> Ensuring \cup Queueing \cup {IdleComposer}]
           /\ sweepers' \in [Sweepers -> Sweeper]
           /\ \A s \in Sweepers : WellFormed(sweepers'[s])
           /\ faults' \in Nat
<1>1. NoSession \in Session
  BY Zenon DEF NoSession, Session
<1>2. IdleSweeper \in Sweeper /\ WellFormed(IdleSweeper)
  BY Zenon, <1>1 DEF IdleSweeper, Sweeper, WellFormed
<1> QED
  BY <1>1, <1>2 DEF TypeOK, Stop

LEMMA TypeHalfSealed ==
    ASSUME TypeOK, NEW s \in Sweepers, sweepers[s].pc = "commit", HalfSealed(s)
    PROVE  session' \in [Devices -> Session]
<1>1. sweepers[s].id.device \in Devices /\ sweepers[s].base \in Session
  BY Zenon, BusySweeper DEF Sweeper
<1>2. AfterSeal(sweepers[s].base) \in Session
  BY Zenon, <1>1, SealTypes
<1> QED
  BY ZenonT(40), <1>2 DEF TypeOK, HalfSealed

LEMMA TypeFault ==
    ASSUME TypeOK, Fault
    PROVE  TypeOK'
<1>1. CASE Crash
  BY Zenon, <1>1, TypeStop DEF Crash, TypeOK, Stop, history
<1>2. ASSUME NEW c \in Composers, CrashInCompose(c) PROVE TypeOK'
  <2>1. Stop
    BY ZenonT(30), <1>2 DEF CrashInCompose
  <2>2. compositions' \in [Keys -> [intent: Intents, created: Times]
                                    \cup {NoComposition, TornComposition}]
    BY Zenon, <1>2 DEF TypeOK, CrashInCompose
  <2> QED
    BY Zenon, <1>2, <2>1, <2>2, TypeStop DEF CrashInCompose, TypeOK, Stop, history
<1>3. ASSUME NEW c \in Composers, NEW d \in Devices, CrashInEnqueue(c, d)
      PROVE  TypeOK'
  <2>1. Stop
    BY Zenon, <1>3 DEF CrashInEnqueue
  <2>2. deliveries' \in [DeliveryId -> Delivery \cup {NoDelivery, TornDelivery}]
    BY Zenon, <1>3 DEF TypeOK, CrashInEnqueue
  <2> QED
    BY Zenon, <1>3, <2>1, <2>2, TypeStop DEF CrashInEnqueue, TypeOK, Stop, history
<1>4. ASSUME NEW s \in Sweepers, CrashInCommitSealed(s) PROVE TypeOK'
  <2>1. Stop /\ session' \in [Devices -> Session] /\ UNCHANGED deliveries
    BY Zenon, <1>4, TypeHalfSealed DEF CrashInCommitSealed, HalfSealed
  <2> QED
    BY Zenon, <1>4, <2>1, TypeStop DEF CrashInCommitSealed, TypeOK, Stop, history
<1>5. ASSUME NEW s \in Sweepers, WriteFails(s) PROVE TypeOK'
  <2> DEFINE sw == sweepers[s]
  <2>1. sw \in Sweeper /\ sw.id \in DeliveryId /\ sw.id # None
    BY Zenon, <1>5, BusySweeper, NoneAssumption DEF WriteFails
  <2>2. Failing(sw, "transient") \in Sweeper /\ WellFormed(Failing(sw, "transient"))
    BY ZenonT(40), <2>1, SweeperUpdates DEF Dispositions
  <2>3. /\ sweepers' \in [Sweepers -> Sweeper]
        /\ \A t \in Sweepers : WellFormed(sweepers'[t])
    BY Zenon, <1>5, <2>2 DEF TypeOK, WriteFails
  <2>4. session' \in [Devices -> Session] /\ UNCHANGED deliveries
    BY Zenon, <1>5, TypeHalfSealed DEF WriteFails, HalfSealed, TypeOK
  <2>5. accepted' \in SUBSET [id: DeliveryId, key: MessageKey]
    <3>1. sw.pc = "sent" => sw.sealed \in MessageKey
      BY ZenonT(30), BusySweeper
    <3> QED
      BY <1>5, <2>1, <3>1 DEF WriteFails, TypeOK
  <2>6. faults' \in Nat
    BY <1>5 DEF WriteFails, TypeOK
  <2> QED
    BY Zenon, <1>5, <2>3, <2>4, <2>5, <2>6 DEF WriteFails, TypeOK
<1> QED
  BY Zenon, <1>1, <1>2, <1>3, <1>4, <1>5 DEF Fault

LEMMA TypeNext == TypeOK /\ [Next]_vars => TypeOK'
<1> SUFFICES ASSUME TypeOK, [Next]_vars PROVE TypeOK'
  BY Zenon
<1>1. CASE Tick
  <2>1. now' \in Times
    BY <1>1, OutboundAssumption DEF TypeOK, Tick, Times
  <2> QED
    BY Zenon, <1>1, <2>1 DEF TypeOK, Tick, counters, history
<1>2. CASE UNCHANGED vars
  BY Zenon, <1>2 DEF TypeOK, vars
<1> QED
  BY Zenon, <1>1, <1>2, TypeCompose, TypeSweep, TypeMaintain, TypeOwner, TypeIngress,
     TypeFault DEF Next, Owner

\* Every reachable state is well typed.
THEOREM TypeCorrect == Spec => []TypeOK
<1> QED
  BY TypeInit, TypeNext, PTL DEF Spec

-----------------------------------------------------------------------------
(* No key is used twice *)

\* A key that lies before the position of its device's session.
Spent(k) ==
    LET x == session[k.device]
    IN  /\ x.generation > 0
        /\ k.root = x.root
        /\ k.chain < x.chain \/ (k.chain = x.chain /\ k.index < x.index)

\* A key is stored with a delivery, in the hands of a sweep, or on the wire.
Owns(id, k) ==
    \/ deliveries[id].sealed = k
    \/ \E s \in Sweepers : sweepers[s].id = id /\ sweepers[s].sealed = k
    \/ \E m \in wire : m.id = id /\ m.key = k

KeysSpent ==
    \A id \in DeliveryId, k \in MessageKey :
        Owns(id, k) => k.device = id.device /\ Spent(k)

KeysDistinct ==
    \A id1, id2 \in DeliveryId, k \in MessageKey :
        Owns(id1, k) /\ Owns(id2, k) => id1 = id2

\* A sweep's copy of the session is current exactly while the generation is.
BasesFaithful ==
    \A s \in Sweepers : sweepers[s].pc = "commit" =>
        LET x == session[sweepers[s].id.device]
            base == sweepers[s].base
        IN  /\ base.generation > 0 /\ base.generation <= x.generation
            /\ base.generation = x.generation => base = x

\* So is an ingress handler's, and the state it prepared continues that copy.
InboundFaithful ==
    \A d \in Devices : inbound[d] # NoSession =>
        LET x == session[d]
            n == inbound[d]
        IN  /\ x.generation > 0 /\ n.generation <= x.generation + 1
            /\ n.generation = x.generation + 1 =>
                  /\ n.root = x.root
                  /\ \/ n.chain = x.chain /\ n.index = x.index
                     \/ n.chain > x.chain

IInv == /\ TypeOK
        /\ KeysSpent
        /\ KeysDistinct
        /\ BasesFaithful
        /\ InboundFaithful

\* What a step may do to a session: nothing, create it, or advance its position.
Advances(x, y) ==
    \/ y = x
    \/ x.generation = 0 /\ y.generation = 1
    \/ /\ x.generation > 0 /\ y.generation = x.generation + 1
       /\ y.root = x.root
       /\ \/ y.chain = x.chain /\ y.index >= x.index
          \/ y.chain > x.chain

SessionsAdvance == \A d \in Devices : Advances(session[d], session'[d])

LEMMA CommitAdvances ==
    ASSUME IInv, NEW s \in Sweepers, sweepers[s].pc = "commit", MayCommitSealed(s)
    PROVE  /\ sweepers[s].base = session[sweepers[s].id.device]
           /\ sweepers[s].base.generation > 0
           /\ Advances(session[sweepers[s].id.device], AfterSeal(sweepers[s].base))
<1> DEFINE x == session[sweepers[s].id.device]
<1>1. sweepers[s].id.device \in Devices /\ sweepers[s].base \in Session
  BY Zenon, BusySweeper DEF IInv, Sweeper
<1>2. sweepers[s].base = x /\ sweepers[s].base.generation > 0
  BY Zenon DEF IInv, BasesFaithful, MayCommitSealed
<1>3. Advances(sweepers[s].base, AfterSeal(sweepers[s].base))
  BY <1>1, <1>2 DEF Advances, AfterSeal, Session
<1> QED
  BY Zenon, <1>2, <1>3

\* Every step keeps a session, creates it or advances it.
LEMMA SessionStep ==
    ASSUME IInv, [Next]_vars
    PROVE  SessionsAdvance
<1>0. session \in [Devices -> Session]
  BY Zenon DEF IInv, TypeOK
<1>1. ASSUME NEW c \in Composers, Compose(c) PROVE SessionsAdvance
  <2>1. ASSUME NEW d \in Devices, EnsureSession(c, d) PROVE SessionsAdvance
    <3>1. Advances(session[d], Established(c, d))
      BY Zenon, <1>0 DEF Advances, Established, Bootstrapped, Session
    <3> QED
      BY Zenon, <1>0, <2>1, <3>1 DEF EnsureSession, SessionsAdvance, Advances
  <2> QED
    BY Zenon, <1>1, <2>1 DEF Compose, Submit, ClaimOutboundComposition, Enqueue,
                      SessionsAdvance, Advances
<1>2. ASSUME NEW s \in Sweepers, Sweep(s) PROVE SessionsAdvance
  <2>1. CASE CommitSealed(s)
    BY Zenon, <1>0, <2>1, CommitAdvances DEF CommitSealed, SessionsAdvance, Advances
  <2> QED
    BY Zenon, <1>2, <2>1 DEF Sweep, StartSweep, ClaimForSend, NoAttemptID, Seal,
                      CommitRefused, Send, Acknowledged, NotAcknowledged,
                      Failed, SessionsAdvance, Advances
<1>3. ASSUME NEW s \in Sweepers, Maintain(s) PROVE SessionsAdvance
  BY Zenon, <1>3 DEF Maintain, ExpireDeliveries, Prune, SessionsAdvance, Advances
<1>4. CASE Owner
  BY Zenon, <1>4 DEF Owner, Resume, Abandon, SessionsAdvance, Advances
<1>5. CASE Ingress
  <2>1. ASSUME NEW d \in Devices, InboundCommit(d) PROVE SessionsAdvance
    <3>1. inbound[d] \in Session /\ session[d] \in Session
      BY Zenon DEF IInv, TypeOK
    <3>2. Advances(session[d], InboundAdvances(d))
      BY SMTT(40), <2>1, <3>1 DEF IInv, InboundFaithful, InboundCommit, InboundAdvances,
                        Advances, Session
    <3> QED
      BY Zenon, <1>0, <2>1, <3>2 DEF InboundCommit, SessionsAdvance, Advances
  <2> QED
    BY Zenon, <1>5, <2>1 DEF Ingress, InboundOpen, SessionsAdvance, Advances
<1>6. CASE Fault
  <2>1. ASSUME NEW s \in Sweepers, sweepers[s].pc = "commit", MayCommitSealed(s),
               HalfSealed(s)
        PROVE  SessionsAdvance
    BY Zenon, <1>0, <2>1, CommitAdvances DEF HalfSealed, SessionsAdvance, Advances
  <2> QED
    BY Zenon, <1>6, <2>1 DEF Fault, Crash, CrashInCompose, CrashInEnqueue,
                      CrashInCommitSealed, WriteFails, SessionsAdvance, Advances
<1>7. CASE Tick
  BY Zenon, <1>7 DEF Tick, SessionsAdvance, Advances
<1>8. CASE UNCHANGED vars
  BY Zenon, <1>8 DEF vars, SessionsAdvance, Advances
<1> QED
  BY Zenon, <1>1, <1>2, <1>3, <1>4, <1>5, <1>6, <1>7, <1>8 DEF Next

\* A spent key stays spent.
LEMMA SpentStays ==
    ASSUME TypeOK, TypeOK', SessionsAdvance, NEW k \in MessageKey, Spent(k)
    PROVE  Spent(k)'
<1>1. k.device \in Devices /\ k.chain \in Nat /\ k.index \in Nat
  BY Zenon DEF MessageKey
<1>2. session[k.device] \in Session /\ session'[k.device] \in Session
  BY Zenon, <1>1 DEF TypeOK
<1>3. Advances(session[k.device], session'[k.device])
  BY Zenon, <1>1 DEF SessionsAdvance
<1> QED
  BY <1>1, <1>2, <1>3 DEF Spent, Advances, Session

\* A sweep about to commit was so already, or has just read the session.
LEMMA BaseStep ==
    ASSUME TypeOK, [Next]_vars, NEW t \in Sweepers, sweepers'[t].pc = "commit"
    PROVE  \/ sweepers'[t] = sweepers[t]
           \/ /\ sweepers'[t].base = session[sweepers'[t].id.device]
              /\ sweepers'[t].base.generation > 0
              /\ UNCHANGED session
<1> DEFINE Goal == \/ sweepers'[t] = sweepers[t]
                   \/ /\ sweepers'[t].base = session[sweepers'[t].id.device]
                      /\ sweepers'[t].base.generation > 0
                      /\ UNCHANGED session
<1>0. sweepers \in [Sweepers -> Sweeper]
  BY Zenon DEF TypeOK
<1>a. ASSUME NEW s \in Sweepers, NEW v, sweepers' = [sweepers EXCEPT ![s] = v],
             v.pc # "commit"
      PROVE  Goal
  BY Zenon, <1>0, <1>a
<1>1. ASSUME NEW s \in Sweepers, Sweep(s) PROVE Goal
  <2> DEFINE sw == sweepers[s]
  <2>0. sw \in Sweeper
    BY Zenon, <1>0
  <2>b. /\ IdleSweeper.pc # "commit" /\ Resumed(sw).pc # "commit"
        /\ \A disposition \in Dispositions : Failing(sw, disposition).pc # "commit"
    BY Zenon, <2>0, SweeperUpdates DEF Dispositions
  <2>c. "transient" \in Dispositions /\ "permanent" \in Dispositions
    BY Zenon DEF Dispositions
  <2>1. CASE StartSweep(s)
    <3> DEFINE due == {[id |-> id, next |-> deliveries[id].next] :
                         id \in {id \in DeliveryId : Due(deliveries[id], id, now)}}
    <3>1. Sweeping(now, due).pc = "next"
      BY Zenon DEF Sweeping, IdleSweeper
    <3>2. sweepers' = [sweepers EXCEPT ![s] = Sweeping(now, due)]
      BY Zenon, <2>1 DEF StartSweep
    <3> HIDE DEF due
    <3> QED
      BY Zenon, <1>a, <3>1, <3>2
  <2>2. ASSUME NEW entry \in sw.due, ClaimForSend(s, entry) PROVE Goal
    <3> DEFINE del == deliveries[entry.id]
               rest == [sw EXCEPT !.due = @ \ {entry}]
               pc == IF del.sealed = None THEN "seal" ELSE "send"
               new == [rest EXCEPT !.pc = pc, !.id = entry.id,
                                   !.attempt = claims + 1, !.sealed = del.sealed]
    <3>1. rest \in Sweeper
      BY Zenon, <2>0 DEF Sweeper
    <3>2. Resumed(rest).pc # "commit"
      BY Zenon, <3>1, SweeperUpdates DEF Dispositions
    <3>3. new.pc = pc /\ pc # "commit"
      BY Zenon, <3>1 DEF Sweeper
    <3>4. \/ sweepers' = [sweepers EXCEPT ![s] = new]
          \/ sweepers' = [sweepers EXCEPT ![s] = Resumed(rest)]
      BY Zenon, <2>2 DEF ClaimForSend
    <3> HIDE DEF new, rest, pc
    <3> QED
      BY Zenon, <1>a, <3>2, <3>3, <3>4
  <2>3. CASE NoAttemptID(s)
    BY Zenon, <1>a, <2>3, <2>b DEF NoAttemptID
  <2>4. CASE Seal(s)
    <3>1. CASE Bound(sw.id)
      <4>1. sweepers'[s] = [sw EXCEPT !.pc = "commit", !.base = session[sw.id.device]]
        BY Zenon, <1>0, <2>4, <3>1 DEF Seal
      <4>2. /\ sweepers'[s].base = session[sw.id.device]
            /\ sweepers'[s].id = sw.id
        BY Zenon, <2>0, <4>1 DEF Sweeper
      <4>3. t # s => sweepers'[t] = sweepers[t]
        BY Zenon, <1>0, <2>4 DEF Seal
      <4> QED
        BY Zenon, <2>4, <3>1, <4>2, <4>3 DEF Seal, Bound
    <3>2. CASE ~Bound(sw.id)
      BY Zenon, <1>a, <2>4, <2>b, <2>c, <3>2 DEF Seal
    <3> QED
      BY Zenon, <3>1, <3>2
  <2>5. CASE CommitSealed(s)
    <3> DEFINE key == KeyOf(sw.id.device, sw.base)
               new == [sw EXCEPT !.pc = "send", !.sealed = key, !.base = NoSession]
    <3>1. new.pc = "send"
      BY Zenon, <2>0 DEF Sweeper
    <3>2. sweepers' = [sweepers EXCEPT ![s] = new]
      BY Zenon, <2>5 DEF CommitSealed
    <3> HIDE DEF new
    <3> QED
      BY Zenon, <1>a, <3>1, <3>2
  <2>6. CASE CommitRefused(s)
    BY Zenon, <1>a, <2>6, <2>b, <2>c DEF CommitRefused, Discarded
  <2>7. CASE Send(s)
    <3>1. [sw EXCEPT !.pc = "sent"].pc = "sent"
      BY Zenon, <2>0 DEF Sweeper
    <3> QED
      BY ZenonT(40), <1>a, <2>7, <2>b, <2>c, <3>1 DEF Send
  <2>8. CASE Acknowledged(s)
    BY Zenon, <1>a, <2>8, <2>b, <2>c DEF Acknowledged
  <2>9. ASSUME NEW outcome \in Outcomes, NotAcknowledged(s, outcome) PROVE Goal
    <3>1. (IF outcome = "lost" THEN "transient" ELSE outcome) \in Dispositions
      BY Zenon, <2>9, OutboundAssumption DEF NotAcknowledged, Dispositions
    <3> QED
      BY Zenon, <1>a, <2>9, <2>b, <3>1 DEF NotAcknowledged
  <2>10. CASE Failed(s)
    BY Zenon, <1>a, <2>10, <2>b DEF Failed
  <2> QED
    BY ZenonT(40), <1>1, <2>1, <2>2, <2>3, <2>4, <2>5, <2>6, <2>7, <2>8, <2>9, <2>10 DEF Sweep
<1>2. ASSUME NEW s \in Sweepers, Maintain(s) PROVE Goal
  BY <1>2, <1>a DEF Maintain, ExpireDeliveries, Prune, IdleSweeper
<1>3. CASE Fault
  <2>1. ASSUME NEW s \in Sweepers, WriteFails(s) PROVE Goal
    <3>1. Failing(sweepers[s], "transient").pc # "commit"
      BY Zenon, <1>0, SweeperUpdates DEF Dispositions
    <3> QED
      BY Zenon, <1>a, <2>1, <3>1 DEF WriteFails
  <2>2. CASE Stop
    BY Zenon, <2>2 DEF Stop, IdleSweeper
  <2> QED
    BY Zenon, <1>3, <2>1, <2>2 DEF Fault, Crash, CrashInCompose, CrashInEnqueue,
                            CrashInCommitSealed
<1>4. CASE UNCHANGED sweepers
  BY Zenon, <1>4
<1> QED
  BY Zenon, <1>1, <1>2, <1>3, <1>4
     DEF Next, Compose, Submit, EnsureSession, ClaimOutboundComposition, Enqueue,
         Owner, Resume, Abandon, Ingress, InboundOpen, InboundCommit, Tick, vars

\* A transition prepared by ingress was so already, or continues the session.
LEMMA PreparedStep ==
    ASSUME TypeOK, [Next]_vars, NEW d \in Devices, inbound'[d] # NoSession
    PROVE  \/ inbound'[d] = inbound[d]
           \/ /\ \E ratchet \in BOOLEAN : inbound'[d] = Opened(session[d], ratchet)
              /\ session[d].generation > 0
              /\ UNCHANGED session
<1>0. inbound \in [Devices -> Session]
  BY Zenon DEF TypeOK
<1>1. CASE UNCHANGED inbound
  BY Zenon, <1>1
<1>2. CASE Ingress
  BY Zenon, <1>0, <1>2 DEF Ingress, InboundOpen, InboundCommit
<1>3. CASE Stop
  BY Zenon, <1>3 DEF Stop
<1> QED
  BY ZenonT(40), <1>1, <1>2, <1>3
     DEF Next, Compose, Submit, EnsureSession, ClaimOutboundComposition, Enqueue,
         Sweep, StartSweep, ClaimForSend, NoAttemptID, Seal, CommitSealed,
         CommitRefused, Send, Acknowledged, NotAcknowledged, Failed,
         Maintain, ExpireDeliveries, Prune, Owner, Resume, Abandon,
         Fault, Crash, CrashInCompose, CrashInEnqueue, CrashInCommitSealed,
         WriteFails, Tick, vars

LEMMA FaithfulNext ==
    ASSUME IInv, TypeOK', SessionsAdvance, [Next]_vars
    PROVE  BasesFaithful' /\ InboundFaithful'
<1>1. BasesFaithful'
  <2> SUFFICES ASSUME NEW t \in Sweepers, sweepers'[t].pc = "commit"
               PROVE  LET x == session'[sweepers'[t].id.device]
                          base == sweepers'[t].base
                      IN  /\ base.generation > 0 /\ base.generation <= x.generation
                          /\ base.generation = x.generation => base = x
    BY Zenon DEF BasesFaithful
  <2> DEFINE d == sweepers'[t].id.device
  <2>1. d \in Devices /\ sweepers'[t].base \in Session
    BY Zenon DEF TypeOK, Sweeper, WellFormed, DeliveryId
  <2>2. session[d] \in Session /\ session'[d] \in Session
    BY Zenon, <2>1 DEF IInv, TypeOK
  <2>3. Advances(session[d], session'[d])
    BY Zenon, <2>1 DEF SessionsAdvance
  <2>4. CASE sweepers'[t] = sweepers[t]
    <3>1. /\ sweepers'[t].base.generation > 0
          /\ sweepers'[t].base.generation <= session[d].generation
          /\ sweepers'[t].base.generation = session[d].generation =>
                sweepers'[t].base = session[d]
      BY Zenon, <2>4 DEF IInv, BasesFaithful
    <3> QED
      BY SMTT(40), <2>1, <2>2, <2>3, <3>1 DEF Advances, Session
  <2>5. CASE /\ sweepers'[t].base = session[d]
             /\ sweepers'[t].base.generation > 0
             /\ UNCHANGED session
    BY <2>1, <2>2, <2>5 DEF Session
  <2> QED
    BY Zenon, <2>4, <2>5, BaseStep DEF IInv
<1>2. InboundFaithful'
  <2> SUFFICES ASSUME NEW d \in Devices, inbound'[d] # NoSession
               PROVE  LET x == session'[d]
                          n == inbound'[d]
                      IN  /\ x.generation > 0 /\ n.generation <= x.generation + 1
                          /\ n.generation = x.generation + 1 =>
                                /\ n.root = x.root
                                /\ \/ n.chain = x.chain /\ n.index = x.index
                                   \/ n.chain > x.chain
    BY Zenon DEF InboundFaithful
  <2>2. session[d] \in Session /\ session'[d] \in Session /\ inbound'[d] \in Session
    BY Zenon DEF IInv, TypeOK
  <2>3. Advances(session[d], session'[d])
    BY Zenon DEF SessionsAdvance
  <2>4. CASE inbound'[d] = inbound[d]
    BY SMTT(40), <2>2, <2>3, <2>4 DEF IInv, InboundFaithful, Advances, Session
  <2>5. CASE /\ \E ratchet \in BOOLEAN : inbound'[d] = Opened(session[d], ratchet)
             /\ session[d].generation > 0
             /\ UNCHANGED session
    BY SMTT(40), <2>2, <2>5 DEF Opened, Session
  <2> QED
    BY Zenon, <2>4, <2>5, PreparedStep DEF IInv
<1> QED
  BY Zenon, <1>1, <1>2

\* A step that seals nothing: records and sweeps carry the keys they carried, or
\* none, or (a claim) the delivery's; what is new on the wire a sweep held.
NothingSealed ==
    /\ \A id \in DeliveryId : \/ deliveries'[id].sealed = deliveries[id].sealed
                              \/ deliveries'[id].sealed = None
    /\ \A s \in Sweepers :
         \/ sweepers'[s].sealed = None
         \/ sweepers'[s].sealed = sweepers[s].sealed /\ sweepers'[s].id = sweepers[s].id
         \/ /\ sweepers'[s].id \in DeliveryId
            /\ sweepers'[s].sealed = deliveries[sweepers'[s].id].sealed
    /\ \A m \in wire' : \/ m \in wire
                        \/ \E s \in Sweepers : /\ m.id = sweepers[s].id
                                               /\ m.key = sweepers[s].sealed

LEMMA NothingNewOwned ==
    ASSUME NothingSealed, NEW id \in DeliveryId, NEW k \in MessageKey, Owns(id, k)'
    PROVE  Owns(id, k)
<1>0. k # None
  BY Zenon, NoneAssumption
<1>1. CASE deliveries'[id].sealed = k
  BY Zenon, <1>0, <1>1 DEF NothingSealed, Owns
<1>2. ASSUME NEW s \in Sweepers, sweepers'[s].id = id, sweepers'[s].sealed = k
      PROVE  Owns(id, k)
  BY Zenon, <1>0, <1>2 DEF NothingSealed, Owns
<1>3. ASSUME NEW m \in wire', m.id = id, m.key = k PROVE Owns(id, k)
  BY Zenon, <1>3 DEF NothingSealed, Owns
<1> QED
  BY Zenon, <1>1, <1>2, <1>3 DEF Owns

LEMMA SealedOnlyByCommit ==
    ASSUME TypeOK, [Next]_vars
    PROVE  NothingSealed \/ \E s \in Sweepers : CommitSealed(s)
<1>0. /\ sweepers \in [Sweepers -> Sweeper] /\ now \in Nat /\ claims \in Nat
      /\ deliveries \in [DeliveryId -> Delivery \cup {NoDelivery, TornDelivery}]
  BY DEF TypeOK, Times
<1> DEFINE SweepersOK == \A s \in Sweepers :
             \/ sweepers'[s].sealed = None
             \/ sweepers'[s].sealed = sweepers[s].sealed /\ sweepers'[s].id = sweepers[s].id
             \/ /\ sweepers'[s].id \in DeliveryId
                /\ sweepers'[s].sealed = deliveries[sweepers'[s].id].sealed
           DeliveriesOK == \A id \in DeliveryId :
             \/ deliveries'[id].sealed = deliveries[id].sealed
             \/ deliveries'[id].sealed = None
<1>a. ASSUME NEW s \in Sweepers, NEW v, sweepers' = [sweepers EXCEPT ![s] = v],
             \/ v.sealed = None
             \/ v.sealed = sweepers[s].sealed /\ v.id = sweepers[s].id
             \/ v.id \in DeliveryId /\ v.sealed = deliveries[v.id].sealed
      PROVE  SweepersOK
  BY Zenon, <1>0, <1>a
<1>b. ASSUME NEW id \in DeliveryId, NEW v, deliveries' = [deliveries EXCEPT ![id] = v],
             v.sealed = deliveries[id].sealed \/ v.sealed = None
      PROVE  DeliveriesOK
  BY Zenon, <1>0, <1>b
<1>c. UNCHANGED sweepers => SweepersOK
  BY Zenon
<1>d. UNCHANGED deliveries => DeliveriesOK
  BY Zenon
<1>e. SweepersOK /\ DeliveriesOK /\ UNCHANGED wire => NothingSealed
  BY Zenon DEF NothingSealed
<1> HIDE DEF SweepersOK, DeliveriesOK
<1>1. ASSUME NEW c \in Composers, Compose(c) PROVE NothingSealed
  <2>1. ASSUME NEW d \in Devices, Enqueue(c, d) PROVE DeliveriesOK
    <3> DEFINE id == CopyId(c, d)
    <3>1. id \in DeliveryId
      BY Zenon, <2>1, BusyComposer DEF Enqueue, Queueing, CopyId, DeliveryId
    <3>2. \/ Enqueued(deliveries[id], composers[c].at) = deliveries[id]
          \/ Enqueued(deliveries[id], composers[c].at).sealed = None
      BY Zenon DEF Enqueued, Queued
    <3>3. \/ UNCHANGED deliveries
          \/ deliveries' = [deliveries EXCEPT
                               ![id] = Enqueued(deliveries[id], composers[c].at)]
      BY Zenon, <1>0, <2>1, <3>1 DEF Enqueue
    <3> HIDE DEF id
    <3> QED
      BY Zenon, <1>b, <1>d, <3>1, <3>2, <3>3
  <2> QED
    BY Zenon, <1>1, <1>c, <1>d, <1>e, <2>1
       DEF Compose, Submit, EnsureSession, ClaimOutboundComposition, Enqueue, history
<1>2. ASSUME NEW s \in Sweepers, Sweep(s), ~CommitSealed(s) PROVE NothingSealed
  <2> DEFINE sw == sweepers[s]
  <2>0. sw \in Sweeper
    BY Zenon, <1>0
  <2>b. /\ IdleSweeper.sealed = None /\ Resumed(sw).sealed = None
        /\ \A disposition \in Dispositions : Failing(sw, disposition).sealed = None
    BY Zenon, <2>0, SweeperUpdates DEF Dispositions
  <2>c. "transient" \in Dispositions /\ "permanent" \in Dispositions
    BY SMTT(40) DEF Dispositions
  <2>1. CASE StartSweep(s)
    <3> DEFINE due == {[id |-> id, next |-> deliveries[id].next] :
                         id \in {id \in DeliveryId : Due(deliveries[id], id, now)}}
    <3>1. Sweeping(now, due).sealed = None
      BY Zenon DEF Sweeping, IdleSweeper
    <3>2. sweepers' = [sweepers EXCEPT ![s] = Sweeping(now, due)]
      BY Zenon, <2>1 DEF StartSweep
    <3> HIDE DEF due
    <3> QED
      BY Zenon, <1>a, <1>d, <1>e, <2>1, <3>1, <3>2 DEF StartSweep, history
  <2>2. ASSUME NEW entry \in sw.due, ClaimForSend(s, entry) PROVE NothingSealed
    <3> DEFINE del == deliveries[entry.id]
               rest == [sw EXCEPT !.due = @ \ {entry}]
               pc == IF del.sealed = None THEN "seal" ELSE "send"
               new == [rest EXCEPT !.pc = pc, !.id = entry.id,
                                   !.attempt = claims + 1, !.sealed = del.sealed]
    <3>0. entry \in Entry /\ entry.id \in DeliveryId /\ sw.at \in Nat
      BY <2>0, <2>2 DEF Sweeper, Entry, Times
    <3>1. rest \in Sweeper
      BY Zenon, <2>0 DEF Sweeper
    <3>2. Resumed(rest).sealed = None
      BY Zenon, <3>1, SweeperUpdates DEF Dispositions
    <3>3. new.id = entry.id /\ new.sealed = del.sealed
      BY Zenon, <3>1 DEF Sweeper
    <3>4. \/ /\ sweepers' = [sweepers EXCEPT ![s] = new]
             /\ Claimable(del, sw.at)
             /\ deliveries' = [deliveries EXCEPT ![entry.id] =
                                  Claimed(del, claims + 1, sw.at)]
          \/ /\ sweepers' = [sweepers EXCEPT ![s] = Resumed(rest)]
             /\ UNCHANGED deliveries
      BY Zenon, <1>0, <2>2, <3>0 DEF ClaimForSend
    <3>5. Claimable(del, sw.at) => Claimed(del, claims + 1, sw.at).sealed = del.sealed
      <4> SUFFICES ASSUME Claimable(del, sw.at)
                   PROVE  Claimed(del, claims + 1, sw.at).sealed = del.sealed
        BY Zenon
      <4>1. del \in Delivery /\ claims + 1 \in Nat
        BY <1>0, <3>0, RealDelivery DEF Claimable, Readable, DeliveryState
      <4> QED
        BY ZenonT(40), <3>0, <4>1, DeliveryUpdates DEF DeliveryState
    <3>6. UNCHANGED wire
      BY Zenon, <2>2 DEF ClaimForSend, history
    <3> HIDE DEF new, rest, pc
    <3>7. SweepersOK
      BY Zenon, <1>a, <3>0, <3>2, <3>3, <3>4
    <3>8. DeliveriesOK
      BY Zenon, <1>b, <1>d, <3>0, <3>4, <3>5
    <3> QED
      BY Zenon, <1>e, <3>6, <3>7, <3>8
  <2>3. CASE NoAttemptID(s)
    BY Zenon, <1>a, <1>d, <1>e, <2>3, <2>b DEF NoAttemptID, history
  <2>4. CASE Seal(s)
    <3> DEFINE new == [sw EXCEPT !.pc = "commit", !.base = session[sw.id.device]]
    <3>1. new.sealed = sw.sealed /\ new.id = sw.id
      BY Zenon, <2>0 DEF Sweeper
    <3>2. \/ sweepers' = [sweepers EXCEPT ![s] = new]
          \/ sweepers' = [sweepers EXCEPT ![s] = Failing(sw, "transient")]
      BY ZenonT(40), <2>4 DEF Seal
    <3> HIDE DEF new
    <3>3. SweepersOK
      BY Zenon, <1>a, <2>b, <2>c, <3>1, <3>2
    <3> QED
      BY Zenon, <1>d, <1>e, <2>4, <3>3 DEF Seal, history
  <2>6. CASE CommitRefused(s)
    BY ZenonT(40), <1>a, <1>d, <1>e, <2>6, <2>b, <2>c DEF CommitRefused, Discarded, history
  <2>7. CASE Send(s)
    <3> DEFINE new == [sw EXCEPT !.pc = "sent"]
               message == [id |-> sw.id, key |-> sw.sealed,
                           bootstrap |-> session[sw.id.device].root]
    <3>1. new.sealed = sw.sealed /\ new.id = sw.id
      BY Zenon, <2>0 DEF Sweeper
    <3>2. \/ sweepers' = [sweepers EXCEPT ![s] = new]
          \/ sweepers' = [sweepers EXCEPT ![s] = Failing(sw, "permanent")]
      BY Zenon, <2>7 DEF Send
    <3>3. wire' \subseteq wire \cup {message}
      BY Zenon, <2>7 DEF Send
    <3>4. message.id = sweepers[s].id /\ message.key = sweepers[s].sealed
      BY Zenon
    <3> HIDE DEF new, message
    <3>5. SweepersOK
      BY Zenon, <1>a, <2>b, <2>c, <3>1, <3>2
    <3>6. DeliveriesOK
      BY Zenon, <1>d, <2>7 DEF Send
    <3>7. \A m \in wire' : \/ m \in wire
                            \/ \E t \in Sweepers : /\ m.id = sweepers[t].id
                                                   /\ m.key = sweepers[t].sealed
      BY Zenon, <3>3, <3>4
    <3> QED
      BY Zenon, <3>5, <3>6, <3>7 DEF NothingSealed, SweepersOK, DeliveriesOK
  <2>8. CASE Acknowledged(s)
    <3> DEFINE id == sw.id
    <3>1. id \in DeliveryId
      BY Zenon, <2>8, BusySweeper DEF Acknowledged
    <3>2. SweepersOK
      BY SMTT(40), <1>a, <2>8, <2>b, <2>c DEF Acknowledged
    <3>3. \/ UNCHANGED deliveries
          \/ /\ Live(deliveries[id])
             /\ deliveries' = [deliveries EXCEPT
                                  ![id] = Settled(deliveries[id], "delivered", now)]
      BY Zenon, <1>0, <2>8, <3>1 DEF Acknowledged, MaySettle
    <3>4. Live(deliveries[id]) =>
             Settled(deliveries[id], "delivered", now).sealed = deliveries[id].sealed
      BY ZenonT(40), <1>0, <3>1, RealDelivery, DeliveryUpdates DEF Live, Readable, DeliveryState
    <3> HIDE DEF id
    <3>5. DeliveriesOK
      BY Zenon, <1>b, <1>d, <3>1, <3>3, <3>4
    <3> QED
      BY Zenon, <1>e, <2>8, <3>2, <3>5 DEF Acknowledged
  <2>9. ASSUME NEW outcome \in Outcomes, NotAcknowledged(s, outcome) PROVE NothingSealed
    <3>1. (IF outcome = "lost" THEN "transient" ELSE outcome) \in Dispositions
      BY Zenon, <2>9, OutboundAssumption DEF NotAcknowledged, Dispositions
    <3>2. SweepersOK
      BY ZenonT(40), <1>a, <2>9, <2>b, <3>1 DEF NotAcknowledged
    <3> QED
      BY Zenon, <1>d, <1>e, <2>9, <3>2 DEF NotAcknowledged
  <2>10. CASE Failed(s)
    <3> DEFINE id == sw.id
               new == Rescheduled(deliveries[id], id, sw.code, now)
    <3>1. id \in DeliveryId /\ sw.code \in Dispositions
      BY Zenon, <2>10, BusySweeper DEF Failed
    <3>2. SweepersOK
      BY ZenonT(40), <1>a, <2>10, <2>b DEF Failed
    <3>3. \/ UNCHANGED deliveries
          \/ /\ Live(deliveries[id])
             /\ deliveries' = [deliveries EXCEPT ![id] = new]
      BY Zenon, <1>0, <2>10, <3>1 DEF Failed, Live
    <3>4. Live(deliveries[id]) => new.sealed = deliveries[id].sealed
      BY Zenon, <1>0, <3>1, RealDelivery, RescheduledType DEF Live, Readable, DeliveryState
    <3> HIDE DEF id, new
    <3>5. DeliveriesOK
      BY Zenon, <1>b, <1>d, <3>1, <3>3, <3>4
    <3> QED
      BY Zenon, <1>e, <2>10, <3>2, <3>5 DEF Failed, history
  <2> QED
    BY Zenon, <1>2, <2>1, <2>2, <2>3, <2>4, <2>6, <2>7, <2>8, <2>9, <2>10 DEF Sweep
<1>3. ASSUME NEW s \in Sweepers, Maintain(s) PROVE NothingSealed
  <2>1. SweepersOK
    BY Zenon, <1>3, <1>a DEF Maintain, ExpireDeliveries, Prune, IdleSweeper
  <2>2. CASE ExpireDeliveries(s)
    <3>1. \A id \in DeliveryId : Live(deliveries[id]) =>
             Settled(deliveries[id], "abandoned", now).sealed = deliveries[id].sealed
      BY Zenon, <1>0, RealDelivery, DeliveryUpdates DEF Live, Readable, DeliveryState
    <3>2. DeliveriesOK
      BY Zenon, <2>2, <3>1 DEF ExpireDeliveries, Expired, DeliveriesOK
    <3> QED
      BY Zenon, <1>e, <2>1, <2>2, <3>2 DEF ExpireDeliveries, history
  <2>3. CASE Prune(s)
    <3>1. NoDelivery.sealed = None
      BY Zenon DEF NoDelivery, Absent
    <3>2. DeliveriesOK
      BY Zenon, <2>3, <3>1 DEF Prune, DeliveriesOK
    <3> QED
      BY Zenon, <1>e, <2>1, <2>3, <3>2 DEF Prune, history
  <2> QED
    BY Zenon, <1>3, <2>2, <2>3 DEF Maintain
<1>4. CASE Owner
  <2> PICK id \in DeliveryId : Resume(id) \/ Abandon(id)
    BY Zenon, <1>4 DEF Owner
  <2>1. deliveries[id] \in Delivery
    BY Zenon, RealDelivery DEF Resume, Abandon, Live, Readable, DeliveryState
  <2>2. /\ Released(deliveries[id], now).sealed = deliveries[id].sealed
        /\ Settled(deliveries[id], "abandoned", now).sealed = deliveries[id].sealed
    BY Zenon, <1>0, <2>1, DeliveryUpdates DEF DeliveryState
  <2>3. \/ deliveries' = [deliveries EXCEPT ![id] = Released(deliveries[id], now)]
        \/ deliveries' = [deliveries EXCEPT ![id] = Settled(deliveries[id], "abandoned", now)]
    BY Zenon, <1>0 DEF Resume, Abandon
  <2>4. DeliveriesOK
    BY Zenon, <1>b, <2>2, <2>3
  <2> QED
    BY Zenon, <1>c, <1>e, <2>4 DEF Resume, Abandon, history
<1>5. CASE Fault
  <2>1. ASSUME Stop PROVE SweepersOK /\ UNCHANGED wire
    BY Zenon, <2>1 DEF Stop, IdleSweeper, SweepersOK, history
  <2>2. ASSUME NEW c \in Composers, NEW d \in Devices, CrashInEnqueue(c, d)
        PROVE  DeliveriesOK
    <3>1. CopyId(c, d) \in DeliveryId
      BY Zenon, <2>2, BusyComposer DEF CrashInEnqueue, Queueing, CopyId, DeliveryId
    <3>2. TornDelivery.sealed = None
      BY Zenon DEF TornDelivery, Absent
    <3> QED
      BY ZenonT(40), <1>b, <2>2, <3>1, <3>2 DEF CrashInEnqueue
  <2>3. ASSUME NEW s \in Sweepers, WriteFails(s) PROVE NothingSealed
    <3>1. Failing(sweepers[s], "transient").sealed = None
      BY Zenon, <1>0, SweeperUpdates DEF Dispositions
    <3>2. SweepersOK
      BY Zenon, <1>a, <2>3, <3>1 DEF WriteFails
    <3> QED
      BY Zenon, <1>d, <1>e, <2>3, <3>2 DEF WriteFails, HalfSealed
  <2>4. ASSUME NEW s \in Sweepers, CrashInCommitSealed(s) PROVE NothingSealed
    BY Zenon, <1>d, <1>e, <2>1, <2>4 DEF CrashInCommitSealed, HalfSealed
  <2> QED
    BY ZenonT(30), <1>5, <1>d, <1>e, <2>1, <2>2, <2>3, <2>4
       DEF Fault, Crash, CrashInCompose, CrashInEnqueue
<1>6. CASE Ingress \/ Tick \/ UNCHANGED vars
  BY Zenon, <1>6, <1>c, <1>d, <1>e DEF Ingress, InboundOpen, InboundCommit, Tick, vars, history
<1> QED
  BY Zenon, <1>1, <1>2, <1>3, <1>4, <1>5, <1>6 DEF Next

\* CommitSealed gives the delivery a key that nobody owned: the one at the
\* session's position, which the same step moves past.
LEMMA CommitSealsFresh ==
    ASSUME IInv, NEW s \in Sweepers, CommitSealed(s)
    PROVE  \E key \in MessageKey :
              /\ key.device = sweepers[s].id.device
              /\ ~Spent(key) /\ Spent(key)'
              /\ \A id \in DeliveryId, k \in MessageKey :
                    Owns(id, k)' => Owns(id, k) \/ (id = sweepers[s].id /\ k = key)
<1> DEFINE sw == sweepers[s]
           d == sw.id.device
<1>0. /\ sweepers \in [Sweepers -> Sweeper] /\ session \in [Devices -> Session]
      /\ deliveries \in [DeliveryId -> Delivery \cup {NoDelivery, TornDelivery}]
      /\ TypeOK
  BY Zenon DEF IInv, TypeOK
<1>1. /\ sw \in Sweeper /\ sw.base \in Session /\ sw.id \in DeliveryId /\ d \in Devices
      /\ sw.pc = "commit" /\ MayCommitSealed(s)
  BY Zenon, <1>0, BusySweeper DEF CommitSealed, Sweeper
<1>2. sw.base = session[d] /\ sw.base.generation > 0
  BY ZenonT(40), <1>1, CommitAdvances
<1>3. PICK key \in MessageKey : key = KeyOf(d, sw.base)
  BY Zenon, <1>1, SealTypes
<1>a. /\ key.device = d /\ key.root = sw.base.root /\ key.chain = sw.base.chain
      /\ key.index = sw.base.index
  BY Zenon, <1>3 DEF KeyOf
<1>4. ~Spent(key)
  <2>1. /\ sw.base.generation \in Nat /\ sw.base.chain \in Nat /\ sw.base.index \in Nat
    BY Zenon, <1>1 DEF Session
  <2> QED
    BY <1>2, <1>a, <2>1 DEF Spent
<1>5. Spent(key)'
  <2>1. session'[d] = AfterSeal(sw.base)
    BY Zenon, <1>0, <1>1 DEF CommitSealed
  <2>2. /\ session'[d].generation = sw.base.generation + 1
        /\ session'[d].root = sw.base.root /\ session'[d].chain = sw.base.chain
        /\ session'[d].index = sw.base.index + 1
    BY Zenon, <1>1, <2>1 DEF AfterSeal, Session
  <2>3. /\ sw.base.generation \in Nat /\ sw.base.index \in Nat
    BY Zenon, <1>1 DEF Session
  <2> QED
    BY <1>2, <1>a, <2>2, <2>3 DEF Spent
<1> DEFINE new == [sw EXCEPT !.pc = "send", !.sealed = key, !.base = NoSession]
<1>6. /\ new.id = sw.id /\ new.sealed = key
      /\ sweepers' = [sweepers EXCEPT ![s] = new]
  BY Zenon, <1>1, <1>3 DEF CommitSealed, Sweeper
<1>7. \A t \in Sweepers : \/ sweepers'[t] = sweepers[t]
                          \/ sweepers'[t].id = sw.id /\ sweepers'[t].sealed = key
  <2> HIDE DEF new
  <2>1. sweepers'[s] = new
    BY Zenon, <1>0, <1>6
  <2>2. \A t \in Sweepers : t # s => sweepers'[t] = sweepers[t]
    BY Zenon, <1>0, <1>6
  <2> QED
    BY Zenon, <1>6, <2>1, <2>2
<1>8. \A id \in DeliveryId : \/ deliveries'[id] = deliveries[id]
                             \/ id = sw.id /\ deliveries'[id].sealed = key
  <2>1. deliveries[sw.id] \in Delivery
    BY Zenon, <1>0, <1>1, RealDelivery DEF MayCommitSealed, Readable, DeliveryState
  <2>2. WithSealed(deliveries[sw.id], key).sealed = key
    BY Zenon, <1>3, <2>1, SealedUpdate
  <2>3. deliveries' = [deliveries EXCEPT ![sw.id] = WithSealed(deliveries[sw.id], key)]
    BY Zenon, <1>0, <1>1, <1>3 DEF CommitSealed
  <2>4. deliveries'[sw.id] = WithSealed(deliveries[sw.id], key)
    BY Zenon, <1>0, <1>1, <2>3
  <2>5. \A id \in DeliveryId : id # sw.id => deliveries'[id] = deliveries[id]
    BY Zenon, <1>0, <2>3
  <2> QED
    BY ZenonT(30), <2>2, <2>4, <2>5
<1>9. wire' = wire
  BY Zenon DEF CommitSealed, history
<1> HIDE DEF new
<1>10. ASSUME NEW id \in DeliveryId, NEW k \in MessageKey, Owns(id, k)'
       PROVE  Owns(id, k) \/ (id = sw.id /\ k = key)
  BY <1>7, <1>8, <1>9, <1>10 DEF Owns
<1> QED
  BY Zenon, <1>4, <1>5, <1>10, <1>a

LEMMA IInvInit == Init => IInv
<1> SUFFICES ASSUME Init PROVE IInv
  BY Zenon
<1>1. TypeOK
  BY Zenon, TypeInit
<1>2. /\ \A id \in DeliveryId : deliveries[id].sealed = None
      /\ \A s \in Sweepers : sweepers[s].sealed = None /\ sweepers[s].pc = "idle"
      /\ wire = {}
  BY Zenon DEF Init, NoDelivery, Absent, IdleSweeper
<1>3. \A id \in DeliveryId, k \in MessageKey : ~Owns(id, k)
  BY Zenon, <1>2, NoneAssumption DEF Owns
<1>4. BasesFaithful
  BY Zenon, <1>2 DEF BasesFaithful
<1>5. InboundFaithful
  BY Zenon DEF Init, InboundFaithful
<1> QED
  BY Zenon, <1>1, <1>3, <1>4, <1>5 DEF IInv, KeysSpent, KeysDistinct

LEMMA IInvNext == IInv /\ [Next]_vars => IInv'
<1> SUFFICES ASSUME IInv, [Next]_vars PROVE IInv'
  BY Zenon
<1>1. TypeOK /\ TypeOK'
  BY Zenon, TypeNext DEF IInv
<1>2. SessionsAdvance
  BY Zenon, SessionStep
<1>3. BasesFaithful' /\ InboundFaithful'
  BY Zenon, <1>1, <1>2, FaithfulNext
<1>4. \A k \in MessageKey : Spent(k) => Spent(k)'
  BY Zenon, <1>1, <1>2, SpentStays
<1>5. CASE NothingSealed
  <2>1. \A id \in DeliveryId, k \in MessageKey : Owns(id, k)' => Owns(id, k)
    BY Zenon, <1>5, NothingNewOwned
  <2>2. KeysSpent'
    BY Zenon, <1>4, <2>1 DEF IInv, KeysSpent
  <2>3. KeysDistinct'
    BY Zenon, <2>1 DEF IInv, KeysDistinct
  <2> QED
    BY Zenon, <1>1, <1>3, <2>2, <2>3 DEF IInv
<1>6. ASSUME NEW s \in Sweepers, CommitSealed(s) PROVE IInv'
  <2>1. PICK key \in MessageKey :
              /\ key.device = sweepers[s].id.device
              /\ ~Spent(key) /\ Spent(key)'
              /\ \A id \in DeliveryId, k \in MessageKey :
                    Owns(id, k)' => Owns(id, k) \/ (id = sweepers[s].id /\ k = key)
    BY Zenon, <1>6, CommitSealsFresh
  <2>2. \A id \in DeliveryId : ~Owns(id, key)
    BY Zenon, <2>1 DEF IInv, KeysSpent
  <2>3. KeysSpent'
    BY SMTT(40), <1>4, <2>1 DEF IInv, KeysSpent
  <2>4. KeysDistinct'
    BY Zenon, <2>1, <2>2 DEF IInv, KeysDistinct
  <2> QED
    BY Zenon, <1>1, <1>3, <2>3, <2>4 DEF IInv
<1> QED
  BY Zenon, <1>1, <1>5, <1>6, SealedOnlyByCommit

LEMMA IInvKeys == IInv => KeyUsedOnce
<1> SUFFICES ASSUME IInv, NEW m1 \in wire, NEW m2 \in wire, m1.key = m2.key
             PROVE  m1.id = m2.id
  BY Zenon DEF KeyUsedOnce
<1>1. /\ m1.id \in DeliveryId /\ m2.id \in DeliveryId /\ m1.key \in MessageKey
  BY Zenon DEF IInv, TypeOK, Message
<1>2. Owns(m1.id, m1.key) /\ Owns(m2.id, m1.key)
  BY Zenon DEF Owns
<1> QED
  BY Zenon, <1>1, <1>2 DEF IInv, KeysDistinct

\* Whatever the devices, requests, sweeps, faults and inbound transitions, no
\* message key ever protects the messages of two deliveries: CommitSealed checks
\* the generation it sealed against and advances the session before it stores the
\* ciphertext.
THEOREM KeysNeverReused == Spec => []KeyUsedOnce
<1> QED
  BY IInvInit, IInvNext, IInvKeys, PTL DEF Spec

-----------------------------------------------------------------------------
(***************************************************************************)
(* What a delivery and a request become. A delivery never goes back, and   *)
(* one that is delivered was accepted by the peer. While a record outlasts *)
(* every sweep that may still work on it (RetentionOutlasts), an event is  *)
(* sealed once, so that a peer that accepts it twice sees the same         *)
(* ciphertext, and a request stays one message. The retention matters: a   *)
(* sweep reads a record, seals and sends it, and settles it later, and a   *)
(* record pruned in between would be composed and sealed anew.             *)
(* CiphertextInv therefore follows every sweep with the record it works    *)
(* on, and what was sent with its expiry.                                  *)
(***************************************************************************)

-----------------------------------------------------------------------------
(* What a step may do to a delivery and to a sweep *)

Busy == {"seal", "commit", "send", "sent", "failed"}

\* A live delivery loses its attempt: it is rescheduled, held, released or abandoned.
Freed(old, new, t) ==
    /\ Live(old) /\ new \in Delivery
    /\ new.sealed = old.sealed /\ new.attempts >= old.attempts /\ new.attempt = 0
    /\ new.state # "delivered" /\ (new.state = "abandoned" => new.settled = t)

\* A sweep drops what it was working on, or starts over.
Ends(old, new, t) ==
    /\ new.id = None /\ new.attempt = 0 /\ new.pc \in {"idle", "prune", "next"}
    /\ new.pc = "next" => new.at = t \/ (new.at = old.at /\ old.pc \notin {"idle", "prune"})

\* A sweep goes on with its delivery, and has no other ciphertext to send.
Goes(old, new) ==
    /\ new.id = old.id /\ new.attempt = old.attempt /\ new.at = old.at
    /\ old.pc \in Busy /\ new.pc \in Busy
    /\ new.pc \in {"send", "sent"} => old.pc = "send" /\ new.sealed = old.sealed

\* Sweep s takes the delivery.
Takes(s, id) ==
    /\ sweepers[s].pc = "next" /\ Claimable(deliveries[id], sweepers[s].at)
    /\ deliveries'[id] = Claimed(deliveries[id], claims + 1, sweepers[s].at)
    /\ claims' = claims + 1
    /\ sweepers'[s].id = id /\ sweepers'[s].attempt = claims + 1
    /\ sweepers'[s].at = sweepers[s].at /\ sweepers'[s].pc \in {"seal", "send"}
    /\ sweepers'[s].sealed = deliveries[id].sealed
    /\ \A t \in Sweepers \ {s} : sweepers'[t] = sweepers[t]

\* Sweep s records that the peer accepted what it sent.
Delivers(s) ==
    LET sw == sweepers[s]
    IN  /\ sw.pc = "sent" /\ MaySettle(deliveries[sw.id], sw.attempt)
        /\ deliveries'[sw.id] = Settled(deliveries[sw.id], "delivered", now)
        /\ [id |-> sw.id, key |-> sw.sealed] \in accepted'

\* A request queues its copy, or is stopped while it creates the record.
Creates(id) ==
    /\ deliveries[id] = NoDelivery
    /\ deliveries'[id] = TornDelivery \/ \E t \in Nat : deliveries'[id] = Queued(t)
    /\ \E c \in Composers : /\ composers[c].pc = "queue"
                            /\ composers[c].key = id.key /\ composers[c].created = id.created

DeliveryMove(id) ==
    \/ deliveries'[id] = deliveries[id]
    \/ Creates(id)
    \/ \E s \in Sweepers : Takes(s, id)
    \/ \E s \in Sweepers : CommitSealed(s) /\ sweepers[s].id = id
    \/ Freed(deliveries[id], deliveries'[id], now)
    \/ \E s \in Sweepers : Delivers(s) /\ sweepers[s].id = id
    \/ "maintenance" \in Actors /\ Prunable(id) /\ deliveries'[id] = NoDelivery

SweeperMove(s) ==
    \/ sweepers'[s] = sweepers[s]
    \/ Ends(sweepers[s], sweepers'[s], now)
    \/ Goes(sweepers[s], sweepers'[s])
    \/ \E id \in DeliveryId : Takes(s, id)
    \/ CommitSealed(s)

Moves ==
    /\ \A id \in DeliveryId : DeliveryMove(id)
    /\ \A s \in Sweepers : SweeperMove(s)

LEMMA FreedBySettling ==
    ASSUME NEW del \in Delivery, NEW t \in Nat, Live(del)
    PROVE  Freed(del, Settled(del, "abandoned", t), t) /\ Freed(del, Released(del, t), t)
<1>1. del.attempts \in Nat /\ del.attempts >= del.attempts
  BY DEF Delivery
<1>2. Settled(del, "abandoned", t) \in Delivery /\ Released(del, t) \in Delivery
  BY Zenon, DeliveryUpdates DEF DeliveryState
<1> QED
  BY Zenon, <1>1, <1>2 DEF Freed, Settled, Released, Delivery

LEMMA FreedByFailing ==
    ASSUME NEW del \in Delivery, NEW id \in DeliveryId, NEW code \in Dispositions,
           NEW t \in Nat, Live(del)
    PROVE  Freed(del, Rescheduled(del, id, code, t), t)
<1> DEFINE tried == Tried(del)
           retry == NextCode(code, tried.attempts)
           IsFreed(new) == /\ new.attempts >= del.attempts /\ new.attempt = 0
                           /\ new.state # "delivered" /\ (new.state = "abandoned" => new.settled = t)
<1>1. /\ tried \in Delivery /\ tried.attempts >= del.attempts /\ tried.attempt = 0
      /\ tried.state = del.state
  <2>1. del.attempts \in Nat /\ del.attempts + 1 \in Nat /\ del.attempts + 1 >= del.attempts
    BY DEF Delivery
  <2> QED
    BY Zenon, <2>1 DEF Delivery, Tried
<1>2. del.state # "abandoned" /\ del.state # "delivered"
  BY Zenon DEF Live
<1> HIDE DEF tried, retry
<1>3. IsFreed([tried EXCEPT !.state = "abandoned", !.next = 0, !.settled = t])
  BY Zenon, <1>1 DEF Delivery
<1>4. IsFreed([tried EXCEPT !.next = t + retry.after])
  BY Zenon, <1>1, <1>2 DEF Delivery
<1>5. IsFreed([tried EXCEPT !.state = "held", !.next = 0])
  BY Zenon, <1>1 DEF Delivery
<1> HIDE DEF IsFreed
<1>6. IsFreed(Rescheduled(del, id, code, t))
  BY Zenon, <1>3, <1>4, <1>5 DEF Rescheduled, tried, retry
<1> QED
  BY Zenon, <1>6, RescheduledType DEF IsFreed, Freed

LEMMA SweepEnds ==
    ASSUME NEW sw \in Sweeper, NEW t, NEW due
    PROVE  /\ Ends(sw, IdleSweeper, t)
           /\ Ends(sw, [IdleSweeper EXCEPT !.pc = "prune"], t)
           /\ Ends(sw, Sweeping(t, due), t)
           /\ sw.pc \notin {"idle", "prune"} => Ends(sw, Resumed(sw), t)
<1>1. \A at, d : LET new == Sweeping(at, d)
                 IN  new.id = None /\ new.attempt = 0 /\ new.pc = "next" /\ new.at = at
  BY Zenon DEF Sweeping, IdleSweeper
<1>2. Ends(sw, IdleSweeper, t) /\ Ends(sw, [IdleSweeper EXCEPT !.pc = "prune"], t)
  BY Zenon DEF Ends, IdleSweeper
<1>3. Ends(sw, Sweeping(t, due), t)
  BY Zenon, <1>1 DEF Ends
<1>4. sw.pc \notin {"idle", "prune"} => Ends(sw, Sweeping(sw.at, sw.due), t)
  BY Zenon, <1>1 DEF Ends
<1> QED
  BY Zenon, <1>2, <1>3, <1>4 DEF Resumed

LEMMA SweepGoes ==
    ASSUME NEW sw \in Sweeper, sw.pc \in Busy, NEW code, NEW base
    PROVE  /\ Goes(sw, Failing(sw, code))
           /\ Goes(sw, [sw EXCEPT !.pc = "commit", !.base = base])
           /\ sw.pc = "send" => Goes(sw, [sw EXCEPT !.pc = "sent"])
BY Zenon DEF Goes, Failing, Busy, Sweeper

\* Steps that change one sweep, one delivery, or neither.
LEMMA OneSweep ==
    ASSUME TypeOK, NEW s \in Sweepers, NEW v, sweepers' = [sweepers EXCEPT ![s] = v],
           Ends(sweepers[s], v, now) \/ Goes(sweepers[s], v)
    PROVE  \A t \in Sweepers : SweeperMove(t)
<1>1. sweepers'[s] = v /\ \A t \in Sweepers : t # s => sweepers'[t] = sweepers[t]
  BY Zenon DEF TypeOK
<1> QED
  BY Zenon, <1>1 DEF SweeperMove

LEMMA OneDelivery ==
    ASSUME TypeOK, NEW id \in DeliveryId, NEW v, deliveries' = [deliveries EXCEPT ![id] = v],
           deliveries'[id] = v => DeliveryMove(id)
    PROVE  \A x \in DeliveryId : DeliveryMove(x)
<1>1. deliveries'[id] = v /\ \A x \in DeliveryId : x # id => deliveries'[x] = deliveries[x]
  BY Zenon DEF TypeOK
<1> QED
  BY Zenon, <1>1 DEF DeliveryMove

LEMMA NoSweep == ASSUME UNCHANGED sweepers PROVE \A t \in Sweepers : SweeperMove(t)
BY Zenon DEF SweeperMove

LEMMA NoDeliveryMoves == ASSUME UNCHANGED deliveries PROVE \A x \in DeliveryId : DeliveryMove(x)
BY Zenon DEF DeliveryMove

LEMMA LiveRecord ==
    ASSUME TypeOK, NEW id \in DeliveryId, Live(deliveries[id])
    PROVE  deliveries[id] \in Delivery
BY Zenon, RealDelivery DEF Live, Readable, DeliveryState

LEMMA ComposeMoves ==
    ASSUME TypeOK, NEW c \in Composers, Compose(c)
    PROVE  Moves
<1>1. UNCHANGED sweepers
  BY Zenon DEF Compose, Submit, EnsureSession, ClaimOutboundComposition, Enqueue
<1>2. ASSUME NEW d \in Devices, Enqueue(c, d) PROVE \A x \in DeliveryId : DeliveryMove(x)
  <2> DEFINE id == CopyId(c, d)
             t == composers[c].at
  <2>1. /\ id \in DeliveryId /\ composers[c].pc = "queue" /\ t \in Nat
        /\ composers[c].key = id.key /\ composers[c].created = id.created
    BY <1>2, BusyComposer DEF Enqueue, Queueing, CopyId, DeliveryId, Times
  <2>2. \/ UNCHANGED deliveries
        \/ /\ deliveries[id] = NoDelivery
           /\ deliveries' = [deliveries EXCEPT ![id] = Queued(t)]
    BY Zenon, <1>2, <2>1 DEF Enqueue, Enqueued, TypeOK
  <2> HIDE DEF id, t
  <2>3. deliveries[id] = NoDelivery /\ deliveries'[id] = Queued(t) => DeliveryMove(id)
    BY Zenon, <2>1 DEF DeliveryMove, Creates
  <2> QED
    BY Zenon, <2>1, <2>2, <2>3, OneDelivery, NoDeliveryMoves
<1>3. CASE UNCHANGED deliveries
  BY Zenon, <1>1, <1>3, NoSweep, NoDeliveryMoves DEF Moves
<1> QED
  BY Zenon, <1>1, <1>2, <1>3, NoSweep
     DEF Moves, Compose, Submit, EnsureSession, ClaimOutboundComposition

LEMMA ClaimMoves ==
    ASSUME TypeOK, NEW s \in Sweepers, NEW entry \in sweepers[s].due, ClaimForSend(s, entry)
    PROVE  Moves
<1> DEFINE sw == sweepers[s]
           id == entry.id
           del == deliveries[id]
           rest == [sw EXCEPT !.due = @ \ {entry}]
           pc == IF del.sealed = None THEN "seal" ELSE "send"
           new == [rest EXCEPT !.pc = pc, !.id = entry.id,
                               !.attempt = claims + 1, !.sealed = del.sealed]
<1>0. sw \in Sweeper /\ entry \in Entry /\ id \in DeliveryId /\ sw.pc = "next"
  BY Zenon DEF TypeOK, Sweeper, Entry, ClaimForSend
<1>1. rest \in Sweeper /\ rest.at = sw.at /\ rest.pc = sw.pc
  BY Zenon, <1>0 DEF Sweeper
<1>2. CASE Claimable(del, sw.at)
  <2>1. /\ sweepers' = [sweepers EXCEPT ![s] = new] /\ claims' = claims + 1
        /\ deliveries' = [deliveries EXCEPT ![id] = Claimed(del, claims + 1, sw.at)]
    BY Zenon, <1>0, <1>2 DEF ClaimForSend, TypeOK
  <2>2. /\ new.id = id /\ new.attempt = claims + 1 /\ new.at = sw.at
        /\ new.pc \in {"seal", "send"} /\ new.sealed = del.sealed
    BY Zenon, <1>1 DEF Sweeper
  <2> HIDE DEF new, del, id
  <2>3. sweepers'[s] = new /\ \A t \in Sweepers \ {s} : sweepers'[t] = sweepers[t]
    BY Zenon, <2>1 DEF TypeOK
  <2>4. deliveries'[id] = Claimed(del, claims + 1, sw.at)
    BY Zenon, <1>0, <2>1 DEF TypeOK
  <2>5. Takes(s, id)
    BY Zenon, <1>0, <1>2, <2>1, <2>2, <2>3, <2>4 DEF Takes, del
  <2>6. \A t \in Sweepers : SweeperMove(t)
    BY Zenon, <1>0, <2>3, <2>5 DEF SweeperMove
  <2>7. \A x \in DeliveryId : DeliveryMove(x)
    BY Zenon, <1>0, <2>1, <2>5, OneDelivery DEF DeliveryMove
  <2> QED
    BY Zenon, <2>6, <2>7 DEF Moves
<1>3. CASE ~Claimable(del, sw.at)
  <2>1. sweepers' = [sweepers EXCEPT ![s] = Resumed(rest)] /\ UNCHANGED deliveries
    BY Zenon, <1>3 DEF ClaimForSend
  <2>2. Ends(rest, Resumed(rest), now)
    BY Zenon, <1>0, <1>1, SweepEnds
  <2>3. Ends(sw, Resumed(rest), now)
    BY Zenon, <1>1, <2>2 DEF Ends
  <2> QED
    BY Zenon, <2>1, <2>3, OneSweep, NoDeliveryMoves DEF Moves
<1> QED
  BY Zenon, <1>2, <1>3

LEMMA SweepMoves ==
    ASSUME TypeOK, NEW s \in Sweepers, Sweep(s)
    PROVE  Moves
<1> DEFINE sw == sweepers[s]
           id == sw.id
<1>0. sw \in Sweeper /\ now \in Nat
  BY DEF TypeOK, Times
<1>1. CASE StartSweep(s)
  <2>1. PICK due : sweepers' = [sweepers EXCEPT ![s] = Sweeping(now, due)]
    BY Zenon, <1>1 DEF StartSweep
  <2> QED
    BY Zenon, <1>0, <1>1, <2>1, SweepEnds, OneSweep, NoDeliveryMoves DEF StartSweep, Moves
<1>2. CASE NoAttemptID(s)
  BY Zenon, <1>0, <1>2, SweepEnds, OneSweep, NoDeliveryMoves DEF NoAttemptID, Moves
<1>3. CASE Seal(s)
  <2>1. sw.pc \in Busy
    BY Zenon, <1>3 DEF Seal, Busy
  <2>2. PICK v : sweepers' = [sweepers EXCEPT ![s] = v] /\ Goes(sw, v)
    BY Zenon, <1>0, <1>3, <2>1, SweepGoes DEF Seal
  <2> QED
    BY Zenon, <1>3, <2>2, OneSweep, NoDeliveryMoves DEF Seal, Moves
<1>4. CASE CommitSealed(s)
  <2>1. id \in DeliveryId
    BY Zenon, <1>4, BusySweeper DEF CommitSealed
  <2>2. PICK v, w : /\ sweepers' = [sweepers EXCEPT ![s] = v]
                    /\ deliveries' = [deliveries EXCEPT ![id] = w]
    BY Zenon, <1>4, <2>1 DEF CommitSealed, TypeOK
  <2>3. \A t \in Sweepers : SweeperMove(t)
    BY Zenon, <1>4, <2>2 DEF TypeOK, SweeperMove
  <2> HIDE DEF id
  <2>4. \A x \in DeliveryId : x # id => deliveries'[x] = deliveries[x]
    BY Zenon, <2>2 DEF TypeOK
  <2>5. \A x \in DeliveryId : DeliveryMove(x)
    BY Zenon, <1>4, <2>4 DEF DeliveryMove, id
  <2> QED
    BY Zenon, <2>3, <2>5 DEF Moves
<1>5. CASE CommitRefused(s)
  <2>1. sw.pc \in Busy
    BY Zenon, <1>5 DEF CommitRefused, Busy
  <2> QED
    BY Zenon, <1>0, <1>5, <2>1, SweepGoes, OneSweep, NoDeliveryMoves
       DEF CommitRefused, Discarded, Moves
<1>6. CASE Send(s)
  <2>1. sw.pc = "send" /\ sw.pc \in Busy
    BY Zenon, <1>6 DEF Send, Busy
  <2>2. PICK v : sweepers' = [sweepers EXCEPT ![s] = v] /\ Goes(sw, v)
    BY Zenon, <1>0, <1>6, <2>1, SweepGoes DEF Send
  <2> QED
    BY Zenon, <1>6, <2>2, OneSweep, NoDeliveryMoves DEF Send, Moves
<1>7. CASE Acknowledged(s)
  <2>1. sw.pc = "sent" /\ sw.pc \in Busy /\ sw.pc \notin {"idle", "prune"} /\ id \in DeliveryId
    BY Zenon, <1>7, BusySweeper DEF Acknowledged, Busy
  <2>2. CASE MaySettle(deliveries[id], sw.attempt)
    <3>1. /\ deliveries' = [deliveries EXCEPT ![id] = Settled(deliveries[id], "delivered", now)]
          /\ sweepers' = [sweepers EXCEPT ![s] = Resumed(sw)]
          /\ [id |-> id, key |-> sw.sealed] \in accepted'
      BY Zenon, <1>7, <2>1, <2>2 DEF Acknowledged, TypeOK
    <3>2. deliveries'[id] = Settled(deliveries[id], "delivered", now) => DeliveryMove(id)
      BY Zenon, <2>1, <2>2, <3>1 DEF DeliveryMove, Delivers
    <3> QED
      BY ZenonT(40), <1>0, <2>1, <3>1, <3>2, SweepEnds, OneSweep, OneDelivery DEF Moves
  <2>3. CASE ~MaySettle(deliveries[id], sw.attempt)
    BY Zenon, <1>0, <1>7, <2>1, <2>3, SweepGoes, OneSweep, NoDeliveryMoves DEF Acknowledged, Moves
  <2> QED
    BY Zenon, <2>2, <2>3
<1>8. ASSUME NEW outcome \in Outcomes, NotAcknowledged(s, outcome) PROVE Moves
  <2>1. sw.pc \in Busy
    BY Zenon, <1>8 DEF NotAcknowledged, Busy
  <2>2. PICK code : sweepers' = [sweepers EXCEPT ![s] = Failing(sw, code)]
    BY Zenon, <1>8 DEF NotAcknowledged
  <2> QED
    BY Zenon, <1>0, <1>8, <2>1, <2>2, SweepGoes, OneSweep, NoDeliveryMoves
       DEF NotAcknowledged, Moves
<1>9. CASE Failed(s)
  <2>1. /\ sw.pc = "failed" /\ sw.pc \notin {"idle", "prune"} /\ id \in DeliveryId
        /\ sw.code \in Dispositions
    BY Zenon, <1>9, BusySweeper DEF Failed
  <2>2. CASE deliveries[id].state = "pending" /\ HoldsAttempt(deliveries[id], sw.attempt)
    <3> DEFINE new == Rescheduled(deliveries[id], id, sw.code, now)
    <3>1. /\ deliveries' = [deliveries EXCEPT ![id] = new]
          /\ sweepers' = [sweepers EXCEPT ![s] = Resumed(sw)]
      BY Zenon, <1>9, <2>1, <2>2 DEF Failed, TypeOK
    <3>2. Freed(deliveries[id], new, now)
      BY Zenon, <1>0, <2>1, <2>2, LiveRecord, FreedByFailing DEF Live
    <3> HIDE DEF new
    <3>3. deliveries'[id] = new => DeliveryMove(id)
      BY Zenon, <3>2 DEF DeliveryMove
    <3> QED
      BY Zenon, <1>0, <2>1, <3>1, <3>3, SweepEnds, OneSweep, OneDelivery DEF Moves
  <2>3. CASE ~(deliveries[id].state = "pending" /\ HoldsAttempt(deliveries[id], sw.attempt))
    BY Zenon, <1>0, <1>9, <2>3, SweepEnds, OneSweep, NoDeliveryMoves DEF Failed, Moves
  <2> QED
    BY Zenon, <2>2, <2>3
<1> QED
  BY Zenon, <1>1, <1>2, <1>3, <1>4, <1>5, <1>6, <1>7, <1>8, <1>9, ClaimMoves DEF Sweep

LEMMA MaintainMoves ==
    ASSUME TypeOK, NEW s \in Sweepers, Maintain(s)
    PROVE  Moves
<1>0. sweepers[s] \in Sweeper /\ now \in Nat
  BY DEF TypeOK, Times
<1>1. \A t \in Sweepers : SweeperMove(t)
  BY Zenon, <1>0, SweepEnds, OneSweep DEF Maintain, ExpireDeliveries, Prune
<1>2. CASE ExpireDeliveries(s)
  <2>1. ASSUME NEW id \in DeliveryId PROVE DeliveryMove(id)
    <3>1. CASE Expired(id)
      BY Zenon, <1>0, <1>2, <3>1, LiveRecord, FreedBySettling
         DEF ExpireDeliveries, Expired, DeliveryMove
    <3>2. CASE ~Expired(id)
      BY Zenon, <1>2, <3>2 DEF ExpireDeliveries, DeliveryMove
    <3> QED
      BY Zenon, <3>1, <3>2
  <2> QED
    BY Zenon, <1>1, <2>1 DEF Moves
<1>3. CASE Prune(s)
  BY Zenon, <1>1, <1>3 DEF Prune, Moves, DeliveryMove, Maintain
<1> QED
  BY Zenon, <1>2, <1>3 DEF Maintain

LEMMA OwnerMoves ==
    ASSUME TypeOK, Owner
    PROVE  Moves
<1> PICK id \in DeliveryId : Resume(id) \/ Abandon(id)
  BY Zenon DEF Owner
<1>1. Live(deliveries[id]) /\ deliveries[id] \in Delivery /\ now \in Nat
  BY LiveRecord DEF Resume, Abandon, Live, TypeOK, Times
<1>2. PICK v : deliveries' = [deliveries EXCEPT ![id] = v] /\ Freed(deliveries[id], v, now)
  BY Zenon, <1>1, FreedBySettling DEF Resume, Abandon
<1>3. deliveries'[id] = v => DeliveryMove(id)
  BY Zenon, <1>2 DEF DeliveryMove
<1> QED
  BY Zenon, <1>2, <1>3, OneDelivery, NoSweep DEF Resume, Abandon, Moves

LEMMA FaultMoves ==
    ASSUME TypeOK, Fault
    PROVE  Moves
<1>1. ASSUME Stop PROVE \A t \in Sweepers : SweeperMove(t)
  BY SMTT(40), <1>1, SweepEnds DEF Stop, SweeperMove, TypeOK
<1>2. ASSUME NEW c \in Composers, NEW d \in Devices, CrashInEnqueue(c, d)
      PROVE  \A x \in DeliveryId : DeliveryMove(x)
  <2> DEFINE id == CopyId(c, d)
  <2>1. /\ id \in DeliveryId /\ composers[c].pc = "queue"
        /\ composers[c].key = id.key /\ composers[c].created = id.created
    BY Zenon, <1>2, BusyComposer DEF CrashInEnqueue, Queueing, CopyId, DeliveryId, Times
  <2>2. deliveries[id] = NoDelivery /\ deliveries' = [deliveries EXCEPT ![id] = TornDelivery]
    BY Zenon, <1>2 DEF CrashInEnqueue
  <2> HIDE DEF id
  <2>3. deliveries'[id] = TornDelivery => DeliveryMove(id)
    BY Zenon, <2>1, <2>2 DEF DeliveryMove, Creates
  <2> QED
    BY ZenonT(40), <2>1, <2>2, <2>3, OneDelivery
<1>3. ASSUME NEW s \in Sweepers, WriteFails(s) PROVE Moves
  <2>1. sweepers[s] \in Sweeper /\ sweepers[s].pc \in Busy
    BY Zenon, <1>3 DEF TypeOK, WriteFails, Busy
  <2>2. UNCHANGED deliveries /\ sweepers' = [sweepers EXCEPT ![s] = Failing(sweepers[s], "transient")]
    BY Zenon, <1>3 DEF WriteFails, HalfSealed
  <2> QED
    BY Zenon, <2>1, <2>2, SweepGoes, OneSweep, NoDeliveryMoves DEF Moves
<1> QED
  BY Zenon, <1>1, <1>2, <1>3, NoDeliveryMoves
     DEF Moves, Fault, Crash, CrashInCompose, CrashInCommitSealed, CrashInEnqueue, HalfSealed

LEMMA NextMoves ==
    ASSUME TypeOK, [Next]_vars
    PROVE  Moves
<1>1. CASE Ingress \/ Tick \/ UNCHANGED vars
  BY Zenon, <1>1, NoSweep, NoDeliveryMoves
     DEF Ingress, InboundOpen, InboundCommit, Tick, vars, Moves
<1> QED
  BY Zenon, <1>1, ComposeMoves, SweepMoves, MaintainMoves, OwnerMoves, FaultMoves DEF Next

\* What the other variables do.
LEMMA OtherMoves ==
    ASSUME TypeOK, [Next]_vars
    PROVE  /\ claims' = claims \/ claims' = claims + 1
           /\ accepted \subseteq accepted'
           /\ now' = now \/ Tick
           /\ wire' = wire \/ \E s \in Sweepers : Send(s)
<1>1. claims' = claims \/ claims' = claims + 1
  BY ZenonT(40) DEF Next, Compose, Submit, EnsureSession, ClaimOutboundComposition, Enqueue,
     Sweep, StartSweep, ClaimForSend, NoAttemptID, Seal, CommitSealed,
     CommitRefused, Send, Acknowledged, NotAcknowledged, Failed,
     Maintain, ExpireDeliveries, Prune, Owner, Resume, Abandon, Ingress, InboundOpen, InboundCommit,
     Fault, Crash, CrashInCompose, CrashInEnqueue, CrashInCommitSealed,
     WriteFails, Stop, Tick, vars, counters
<1>2. accepted \subseteq accepted'
  BY ZenonT(40) DEF Next, Compose, Submit, EnsureSession, ClaimOutboundComposition, Enqueue,
     Sweep, StartSweep, ClaimForSend, NoAttemptID, Seal, CommitSealed,
     CommitRefused, Send, Acknowledged, NotAcknowledged, Failed,
     Maintain, ExpireDeliveries, Prune, Owner, Resume, Abandon, Ingress, InboundOpen, InboundCommit,
     Fault, Crash, CrashInCompose, CrashInEnqueue, CrashInCommitSealed,
     WriteFails, Stop, Tick, vars, history
<1>3. now' = now \/ Tick
  BY ZenonT(40) DEF Next, Compose, Submit, EnsureSession, ClaimOutboundComposition, Enqueue,
     Sweep, StartSweep, ClaimForSend, NoAttemptID, Seal, CommitSealed,
     CommitRefused, Send, Acknowledged, NotAcknowledged, Failed,
     Maintain, ExpireDeliveries, Prune, Owner, Resume, Abandon, Ingress, InboundOpen, InboundCommit,
     Fault, Crash, CrashInCompose, CrashInEnqueue, CrashInCommitSealed,
     WriteFails, Stop, vars
<1>4. wire' = wire \/ \E s \in Sweepers : Send(s)
  BY ZenonT(40) DEF Next, Compose, Submit, EnsureSession, ClaimOutboundComposition, Enqueue,
     Sweep, StartSweep, ClaimForSend, NoAttemptID, Seal, CommitSealed,
     CommitRefused, Acknowledged, NotAcknowledged, Failed,
     Maintain, ExpireDeliveries, Prune, Owner, Resume, Abandon, Ingress, InboundOpen, InboundCommit,
     Fault, Crash, CrashInCompose, CrashInEnqueue, CrashInCommitSealed,
     WriteFails, Stop, Tick, vars, history
<1> QED
  BY Zenon, <1>1, <1>2, <1>3, <1>4

LEMMA TakesFields ==
    ASSUME TypeOK, NEW s \in Sweepers, NEW id \in DeliveryId, Takes(s, id)
    PROVE  LET old == deliveries[id]
               new == deliveries'[id]
           IN  /\ old \in Delivery /\ new \in Delivery
               /\ old.state = "pending" /\ new.state = "pending"
               /\ new.sealed = old.sealed /\ new.attempts = old.attempts
               /\ new.attempt = claims + 1 /\ new.leaseUntil = sweepers[s].at + AttemptLease
               /\ old.leaseUntil <= sweepers[s].at
<1> DEFINE old == deliveries[id]
<1>1. old \in Delivery /\ old.state = "pending" /\ old.leaseUntil <= sweepers[s].at
  BY Zenon, LiveRecord DEF Takes, Claimable, Live
<1>2. sweepers[s].at \in Nat /\ claims + 1 \in Nat
  BY DEF TypeOK, Sweeper, Times
<1>3. Claimed(old, claims + 1, sweepers[s].at) \in Delivery
  BY ZenonT(40), <1>1, <1>2, DeliveryUpdates DEF DeliveryState
<1>4. deliveries'[id] = Claimed(old, claims + 1, sweepers[s].at)
  BY Zenon DEF Takes
<1> HIDE DEF old
<1> QED
  BY Zenon, <1>1, <1>3, <1>4 DEF Claimed, Delivery, old

LEMMA CommitFields ==
    ASSUME TypeOK, NEW s \in Sweepers, CommitSealed(s)
    PROVE  LET sw == sweepers[s]
               old == deliveries[sw.id]
               new == deliveries'[sw.id]
           IN  /\ sw.id \in DeliveryId
               /\ old \in Delivery /\ new \in Delivery
               /\ old.state = "pending" /\ new.state = "pending"
               /\ old.sealed = None /\ new.sealed \in MessageKey /\ new.attempts = old.attempts
               /\ new.attempt = old.attempt /\ new.leaseUntil = old.leaseUntil
               /\ old.attempt = sw.attempt
               /\ sweepers'[s].pc = "send" /\ sweepers'[s].sealed = new.sealed
               /\ sweepers'[s].id = sw.id /\ sweepers'[s].at = sw.at
               /\ sweepers'[s].attempt = sw.attempt /\ sw.pc = "commit"
<1> DEFINE sw == sweepers[s]
           id == sw.id
           old == deliveries[id]
           key == KeyOf(id.device, sw.base)
<1>1. sw \in Sweeper /\ id \in DeliveryId /\ id.device \in Devices /\ sw.base \in Session /\ sw.pc = "commit"
  BY Zenon, BusySweeper DEF CommitSealed, Sweeper
<1>2. old \in Delivery /\ old.state = "pending" /\ old.sealed = None /\ old.attempt = sw.attempt
  BY Zenon, <1>1, LiveRecord DEF CommitSealed, MayCommitSealed, Live
<1>3. key \in MessageKey
  BY Zenon, <1>1, SealTypes
<1>4. /\ deliveries'[id] = WithSealed(old, key)
      /\ sweepers'[s] = [sw EXCEPT !.pc = "send", !.sealed = key, !.base = NoSession]
  BY Zenon, <1>1 DEF CommitSealed, TypeOK
<1> HIDE DEF key, old, id
<1>5. /\ WithSealed(old, key) \in Delivery /\ WithSealed(old, key).sealed = key
      /\ WithSealed(old, key).state = old.state /\ WithSealed(old, key).attempts = old.attempts
      /\ WithSealed(old, key).attempt = old.attempt /\ WithSealed(old, key).leaseUntil = old.leaseUntil
  BY Zenon, <1>2, <1>3 DEF WithSealed, Delivery
<1>6. /\ sweepers'[s].pc = "send" /\ sweepers'[s].sealed = key
      /\ sweepers'[s].id = sw.id /\ sweepers'[s].at = sw.at /\ sweepers'[s].attempt = sw.attempt
  BY Zenon, <1>1, <1>4 DEF Sweeper
<1> HIDE DEF sw
<1> QED
  BY Zenon, <1>1, <1>2, <1>3, <1>4, <1>5, <1>6 DEF old, id, sw

LEMMA DeliversFields ==
    ASSUME TypeOK, NEW s \in Sweepers, Delivers(s)
    PROVE  LET sw == sweepers[s]
               old == deliveries[sw.id]
               new == deliveries'[sw.id]
           IN  /\ sw.id \in DeliveryId /\ sw.sealed \in MessageKey /\ sw.pc = "sent"
               /\ old \in Delivery /\ new \in Delivery /\ Live(old)
               /\ new.state = "delivered" /\ new.settled = now
               /\ new.sealed = old.sealed /\ new.attempts = old.attempts /\ new.attempt = 0
               /\ old.attempt = sw.attempt /\ old.attempt # 0
<1> DEFINE sw == sweepers[s]
           old == deliveries[sw.id]
<1>1. /\ sw.id \in DeliveryId /\ sw.sealed \in MessageKey /\ Live(old) /\ sw.pc = "sent"
      /\ old.attempt = sw.attempt /\ old.attempt # 0 /\ now \in Nat
  BY BusySweeper DEF Delivers, MaySettle, HoldsAttempt, TypeOK, Times
<1>2. old \in Delivery
  BY Zenon, <1>1, LiveRecord
<1>3. deliveries'[sw.id] = Settled(old, "delivered", now) /\ Settled(old, "delivered", now) \in Delivery
  BY Zenon, <1>1, <1>2, DeliveryUpdates DEF Delivers, DeliveryState
<1> HIDE DEF old
<1> QED
  BY Zenon, <1>1, <1>2, <1>3 DEF Settled, Delivery, old

\* A delivery whose attempt is not cleared was taken by a sweep, or keeps it.
LEMMA AttemptMove ==
    ASSUME TypeOK, Moves, NEW id \in DeliveryId, deliveries'[id].attempt # 0
    PROVE  \/ \E s \in Sweepers : Takes(s, id)
           \/ /\ deliveries'[id].attempt = deliveries[id].attempt
              /\ deliveries'[id].leaseUntil = deliveries[id].leaseUntil
              /\ deliveries'[id].state = deliveries[id].state
              /\ \/ deliveries'[id].sealed = deliveries[id].sealed
                 \/ deliveries[id].sealed = None
<1>1. DeliveryMove(id)
  BY Zenon DEF Moves
<1>2. NoDelivery.attempt = 0 /\ TornDelivery.attempt = 0 /\ \A t : Queued(t).attempt = 0
  BY Zenon DEF NoDelivery, TornDelivery, Absent, Queued
<1>3. \A s \in Sweepers : CommitSealed(s) /\ sweepers[s].id = id =>
         /\ deliveries'[id].attempt = deliveries[id].attempt
         /\ deliveries'[id].leaseUntil = deliveries[id].leaseUntil
         /\ deliveries'[id].state = deliveries[id].state
         /\ deliveries[id].sealed = None
  BY CommitFields
<1>4. \A s \in Sweepers : Delivers(s) /\ sweepers[s].id = id => deliveries'[id].attempt = 0
  BY Zenon, DeliversFields
<1> QED
  BY Zenon, <1>1, <1>2, <1>3, <1>4 DEF DeliveryMove, Creates, Freed

\* A sweep that works on a delivery worked on it before, or has just taken it.
LEMMA WorkMove ==
    ASSUME TypeOK, Moves, NEW s \in Sweepers
    PROVE  \/ sweepers'[s].id = None /\ sweepers'[s].attempt = 0
           \/ \E id \in DeliveryId : Takes(s, id)
           \/ /\ sweepers'[s].id = sweepers[s].id /\ sweepers'[s].at = sweepers[s].at
              /\ sweepers'[s].attempt = sweepers[s].attempt
<1>1. SweeperMove(s)
  BY Zenon DEF Moves
<1> QED
  BY Zenon, <1>1, CommitFields DEF SweeperMove, Ends, Goes

-----------------------------------------------------------------------------
(* A delivery only moves on, and is delivered as it was sealed *)

\* Attempts are numbered as they are drawn, and no two sweeps have the same.
AttemptsDrawn ==
    /\ \A s \in Sweepers : sweepers[s].attempt <= claims
    /\ \A id \in DeliveryId : deliveries[id].attempt <= claims
    /\ \A s, t \in Sweepers : s # t /\ sweepers[s].attempt = sweepers[t].attempt => sweepers[s].attempt = 0

\* The attempt of the delivery that sweep s works on is its own.
Current(s) ==
    /\ sweepers[s].id # None /\ sweepers[s].attempt # 0
    /\ deliveries[sweepers[s].id].attempt = sweepers[s].attempt

\* A sweep that still has its delivery was granted the lease the record shows.
LeaseIsOwn ==
    \A s \in Sweepers : Current(s) =>
        deliveries[sweepers[s].id].leaseUntil = sweepers[s].at + AttemptLease

\* It sends the ciphertext the record carries.
SendsTheRecord ==
    \A s \in Sweepers : Current(s) /\ sweepers[s].pc \in {"send", "sent"} =>
        deliveries[sweepers[s].id].sealed = sweepers[s].sealed

AttemptInv == TypeOK /\ AttemptsDrawn /\ LeaseIsOwn /\ SendsTheRecord /\ DeliveredWasAccepted

LEMMA AttemptTypes ==
    ASSUME TypeOK
    PROVE  /\ claims \in Nat
           /\ \A s \in Sweepers : /\ sweepers[s].attempt \in Nat /\ sweepers[s].at \in Nat
                                  /\ sweepers[s].id \in DeliveryId \cup {None}
           /\ \A id \in DeliveryId : deliveries[id].attempt \in Nat
BY DEF TypeOK, Sweeper, Delivery, NoDelivery, TornDelivery, Absent, Times

LEMMA DrawnStep ==
    ASSUME AttemptInv, TypeOK', Moves, claims' = claims \/ claims' = claims + 1
    PROVE  AttemptsDrawn'
<1>0. TypeOK /\ claims \in Nat /\ claims' \in Nat
  BY AttemptTypes DEF AttemptInv
<1>a. \A s \in Sweepers : sweepers[s].attempt \in Nat /\ sweepers[s].attempt <= claims
  BY Zenon, <1>0, AttemptTypes DEF AttemptInv, AttemptsDrawn
<1>b. \A id \in DeliveryId : deliveries[id].attempt \in Nat /\ deliveries[id].attempt <= claims
  BY Zenon, <1>0, AttemptTypes DEF AttemptInv, AttemptsDrawn
<1>1. ASSUME NEW s \in Sweepers
      PROVE  \/ sweepers'[s].attempt = 0
             \/ sweepers'[s].attempt = sweepers[s].attempt
             \/ /\ sweepers'[s].attempt = claims + 1 /\ claims' = claims + 1
                /\ \A t \in Sweepers \ {s} : sweepers'[t] = sweepers[t]
  BY Zenon, <1>0, WorkMove DEF Takes
<1>2. ASSUME NEW s \in Sweepers PROVE sweepers'[s].attempt <= claims'
  BY <1>0, <1>1, <1>a
<1>3. ASSUME NEW id \in DeliveryId PROVE deliveries'[id].attempt <= claims'
  <2>1. CASE deliveries'[id].attempt = 0
    BY <1>0, <2>1
  <2>2. CASE deliveries'[id].attempt # 0
    <3>1. \/ deliveries'[id].attempt = deliveries[id].attempt
          \/ deliveries'[id].attempt = claims + 1 /\ claims' = claims + 1
      BY Zenon, <1>0, <2>2, AttemptMove, TakesFields DEF Takes
    <3> QED
      BY <1>0, <1>b, <3>1
  <2> QED
    BY Zenon, <2>1, <2>2
<1>4. ASSUME NEW s \in Sweepers, NEW t \in Sweepers, s # t,
             sweepers'[s].attempt = sweepers'[t].attempt, sweepers'[s].attempt # 0
      PROVE  FALSE
  <2>1. CASE sweepers'[s].attempt = claims + 1 /\ sweepers'[t] = sweepers[t]
    <3>1. sweepers[t].attempt = claims + 1
      BY Zenon, <1>4, <2>1
    <3>2. sweepers[t].attempt \in Nat /\ sweepers[t].attempt <= claims
      BY Zenon, <1>a
    <3> QED
      BY <1>0, <3>1, <3>2
  <2>2. CASE sweepers'[t].attempt = claims + 1 /\ sweepers'[s] = sweepers[s]
    <3>1. sweepers[s].attempt = claims + 1
      BY Zenon, <1>4, <2>2
    <3>2. sweepers[s].attempt \in Nat /\ sweepers[s].attempt <= claims
      BY Zenon, <1>a
    <3> QED
      BY <1>0, <3>1, <3>2
  <2>3. CASE sweepers'[s].attempt = sweepers[s].attempt /\ sweepers'[t].attempt = sweepers[t].attempt
    BY ZenonT(40), <1>4, <2>3 DEF AttemptInv, AttemptsDrawn
  <2> QED
    BY Zenon, <1>1, <1>4, <2>1, <2>2, <2>3
<1> QED
  BY Zenon, <1>2, <1>3, <1>4 DEF AttemptsDrawn

\* A sweep that has its delivery after a step had it before, or has just taken it.
LEMMA CurrentMove ==
    ASSUME AttemptInv, TypeOK', Moves, NEW s \in Sweepers, Current(s)'
    PROVE  \/ /\ sweepers'[s].id \in DeliveryId
              /\ Takes(s, sweepers'[s].id)
           \/ /\ Current(s) /\ sweepers[s].id \in DeliveryId
              /\ sweepers'[s].id = sweepers[s].id /\ sweepers'[s].at = sweepers[s].at
              /\ sweepers'[s].attempt = sweepers[s].attempt
              /\ deliveries'[sweepers[s].id].leaseUntil = deliveries[sweepers[s].id].leaseUntil
              /\ deliveries'[sweepers[s].id].state = deliveries[sweepers[s].id].state
              /\ \/ deliveries'[sweepers[s].id].sealed = deliveries[sweepers[s].id].sealed
                 \/ deliveries[sweepers[s].id].sealed = None
<1> DEFINE id == sweepers'[s].id
<1>0. /\ TypeOK /\ claims \in Nat /\ sweepers[s].attempt \in Nat /\ sweepers[s].attempt <= claims
      /\ id \in DeliveryId
  <2>1. id \in DeliveryId
    BY Zenon DEF TypeOK, Sweeper, Current
  <2> QED
    BY Zenon, <2>1, AttemptTypes DEF AttemptInv, AttemptsDrawn
<1>1. id # None /\ deliveries'[id].attempt = sweepers'[s].attempt /\ deliveries'[id].attempt # 0
  BY Zenon DEF Current
<1>2. CASE \E x \in DeliveryId : Takes(s, x)
  BY Zenon, <1>2 DEF Takes
<1>3. CASE /\ id = sweepers[s].id /\ sweepers'[s].at = sweepers[s].at
           /\ sweepers'[s].attempt = sweepers[s].attempt
  <2>1. ~\E t \in Sweepers : Takes(t, id)
    BY <1>0, <1>1, <1>3, TakesFields
  <2> HIDE DEF id
  <2>2. /\ deliveries'[id].attempt = deliveries[id].attempt
        /\ deliveries'[id].leaseUntil = deliveries[id].leaseUntil
        /\ deliveries'[id].state = deliveries[id].state
        /\ \/ deliveries'[id].sealed = deliveries[id].sealed
           \/ deliveries[id].sealed = None
    BY Zenon, <1>0, <1>1, <2>1, AttemptMove
  <2> QED
    BY ZenonT(30), <1>0, <1>1, <1>3, <2>2 DEF Current, id
<1> QED
  BY Zenon, <1>0, <1>1, <1>2, <1>3, WorkMove

LEMMA LeaseStep ==
    ASSUME AttemptInv, TypeOK', Moves
    PROVE  LeaseIsOwn'
<1> SUFFICES ASSUME NEW s \in Sweepers, Current(s)'
             PROVE  deliveries'[sweepers'[s].id].leaseUntil = sweepers'[s].at + AttemptLease
  BY Zenon DEF LeaseIsOwn
<1>1. CASE sweepers'[s].id \in DeliveryId /\ Takes(s, sweepers'[s].id)
  BY Zenon, <1>1, TakesFields DEF AttemptInv, Takes
<1>2. CASE /\ Current(s)
           /\ sweepers'[s].id = sweepers[s].id /\ sweepers'[s].at = sweepers[s].at
           /\ deliveries'[sweepers[s].id].leaseUntil = deliveries[sweepers[s].id].leaseUntil
  BY Zenon, <1>2 DEF AttemptInv, LeaseIsOwn
<1> QED
  BY Zenon, <1>1, <1>2, CurrentMove

LEMMA SendsStep ==
    ASSUME AttemptInv, TypeOK', Moves
    PROVE  SendsTheRecord'
<1> SUFFICES ASSUME NEW s \in Sweepers, Current(s)', sweepers'[s].pc \in {"send", "sent"}
             PROVE  deliveries'[sweepers'[s].id].sealed = sweepers'[s].sealed
  BY Zenon DEF SendsTheRecord
<1>0. TypeOK
  BY Zenon DEF AttemptInv
<1>1. CASE sweepers'[s].id \in DeliveryId /\ Takes(s, sweepers'[s].id)
  BY ZenonT(30), <1>0, <1>1, TakesFields DEF Takes
<1>2. CASE CommitSealed(s)
  BY Zenon, <1>0, <1>2, CommitFields
<1>3. CASE ~Takes(s, sweepers'[s].id) /\ ~CommitSealed(s)
  <2>1. /\ sweepers[s].pc \in {"send", "sent"} /\ sweepers'[s].sealed = sweepers[s].sealed
    <3>1. SweeperMove(s) /\ sweepers'[s].id # None
      BY Zenon DEF Moves, Current
    <3>2. ~\E x \in DeliveryId : Takes(s, x)
      BY ZenonT(30), <1>3 DEF Takes
    <3> QED
      BY Zenon, <1>3, <3>1, <3>2 DEF SweeperMove, Ends, Goes
  <2>2. /\ Current(s) /\ sweepers'[s].id = sweepers[s].id
        /\ \/ deliveries'[sweepers[s].id].sealed = deliveries[sweepers[s].id].sealed
           \/ deliveries[sweepers[s].id].sealed = None
    BY Zenon, <1>3, CurrentMove
  <2>3. sweepers[s].sealed # None
    BY Zenon, <1>0, <2>1 DEF TypeOK, WellFormed
  <2> QED
    BY Zenon, <2>1, <2>2, <2>3 DEF AttemptInv, SendsTheRecord
<1>4. sweepers'[s].id \in DeliveryId
  BY Zenon DEF TypeOK, Sweeper, Current
<1> QED
  BY Zenon, <1>1, <1>2, <1>3, <1>4

LEMMA AcceptedStep ==
    ASSUME AttemptInv, Moves, accepted \subseteq accepted'
    PROVE  DeliveredWasAccepted'
<1> SUFFICES ASSUME NEW id \in DeliveryId, deliveries'[id].state = "delivered"
             PROVE  [id |-> id, key |-> deliveries'[id].sealed] \in accepted'
  BY Zenon DEF DeliveredWasAccepted
<1>0. TypeOK /\ DeliveryMove(id)
  BY Zenon DEF AttemptInv, Moves
<1>1. CASE deliveries'[id] = deliveries[id]
  BY Zenon, <1>1 DEF AttemptInv, DeliveredWasAccepted
<1>2. ASSUME NEW s \in Sweepers, Delivers(s), sweepers[s].id = id
      PROVE  [id |-> id, key |-> deliveries'[id].sealed] \in accepted'
  <2>1. /\ deliveries[id].attempt = sweepers[s].attempt /\ deliveries[id].attempt # 0
        /\ deliveries'[id].sealed = deliveries[id].sealed /\ sweepers[s].pc = "sent" /\ id # None
    BY Zenon, <1>0, <1>2, DeliversFields, NoneAssumption
  <2>2. deliveries[id].sealed = sweepers[s].sealed
    BY Zenon, <1>2, <2>1 DEF AttemptInv, SendsTheRecord, Current
  <2> QED
    BY Zenon, <1>2, <2>1, <2>2 DEF Delivers
<1>3. NoDelivery.state # "delivered" /\ TornDelivery.state # "delivered"
      /\ \A t : Queued(t).state # "delivered"
  BY ZenonT(30) DEF NoDelivery, TornDelivery, Absent, Queued
<1>4. \A s \in Sweepers : ~Takes(s, id) /\ ~(CommitSealed(s) /\ sweepers[s].id = id)
  BY Zenon, <1>0, TakesFields, CommitFields
<1> QED
  BY Zenon, <1>0, <1>1, <1>2, <1>3, <1>4 DEF DeliveryMove, Creates, Freed

LEMMA AttemptInitially == ASSUME Init PROVE AttemptInv
<1>1. TypeOK
  BY Zenon, TypeInit
<1>2. /\ \A id \in DeliveryId : deliveries[id].attempt = 0 /\ deliveries[id].state = "none"
      /\ \A s \in Sweepers : sweepers[s].attempt = 0
      /\ claims = 0
  BY Zenon DEF Init, NoDelivery, Absent, IdleSweeper
<1> QED
  BY <1>1, <1>2
     DEF AttemptInv, AttemptsDrawn, LeaseIsOwn, SendsTheRecord, Current, DeliveredWasAccepted

LEMMA AttemptStep == ASSUME AttemptInv, [Next]_vars PROVE AttemptInv'
<1>1. TypeOK /\ TypeOK'
  BY Zenon, TypeNext DEF AttemptInv
<1>2. Moves /\ accepted \subseteq accepted' /\ (claims' = claims \/ claims' = claims + 1)
  BY Zenon, <1>1, NextMoves, OtherMoves
<1> QED
  BY Zenon, <1>1, <1>2, DrawnStep, LeaseStep, SendsStep, AcceptedStep DEF AttemptInv

\* A sweep takes a delivery from another only past the lease that one was granted.
LEMMA LeaseRespected ==
    ASSUME AttemptInv, AttemptInv', Moves
    PROVE  NotOvertaken
<1> SUFFICES ASSUME NEW s \in Sweepers, NEW t \in Sweepers, s # t, Holds(s), Holds(t)',
                    sweepers'[t].id = sweepers[s].id
             PROVE  sweepers[s].at + AttemptLease <= sweepers'[t].at
  BY Zenon DEF NotOvertaken
<1>0. TypeOK /\ TypeOK' /\ Current(s) /\ Current(t)'
  BY Zenon DEF AttemptInv, Holds, HoldsAttempt, Current
<1>1. CASE sweepers'[t].id \in DeliveryId /\ Takes(t, sweepers'[t].id)
  <2>1. deliveries[sweepers[s].id].leaseUntil <= sweepers[t].at /\ sweepers'[t].at = sweepers[t].at
    BY Zenon, <1>0, <1>1, TakesFields DEF Takes
  <2> QED
    BY Zenon, <1>0, <2>1 DEF AttemptInv, LeaseIsOwn
<1>2. CASE Current(t) /\ sweepers'[t].id = sweepers[t].id
  <2>1. sweepers[s].attempt = sweepers[t].attempt /\ sweepers[s].attempt # 0
    BY Zenon, <1>0, <1>2 DEF Current
  <2> QED
    BY Zenon, <2>1 DEF AttemptInv, AttemptsDrawn
<1> QED
  BY Zenon, <1>0, <1>1, <1>2, CurrentMove

\* Nothing that was recorded of a delivery is undone.
LEMMA HistoryStep ==
    ASSUME TypeOK, Moves
    PROVE  HistoryKept
<1> SUFFICES ASSUME NEW id \in DeliveryId, Readable(deliveries[id]), deliveries'[id] # NoDelivery
             PROVE  /\ deliveries'[id].attempts >= deliveries[id].attempts
                    /\ deliveries[id].sealed # None => deliveries'[id].sealed = deliveries[id].sealed
                    /\ deliveries[id].state \in {"delivered", "abandoned"} => deliveries'[id] = deliveries[id]
  BY Zenon DEF HistoryKept
<1>0. DeliveryMove(id) /\ deliveries[id] \in Delivery
  BY Zenon, RealDelivery DEF Moves
<1>1. deliveries[id].attempts \in Nat /\ deliveries[id].attempts >= deliveries[id].attempts
  BY <1>0 DEF Delivery
<1>2. deliveries[id] # NoDelivery
  BY DEF Readable, NoDelivery, Absent, DeliveryState
<1>3. CASE deliveries'[id] = deliveries[id]
  BY Zenon, <1>1, <1>3
<1>4. ASSUME NEW s \in Sweepers, Takes(s, id)
      PROVE  /\ deliveries'[id].attempts = deliveries[id].attempts
             /\ deliveries'[id].sealed = deliveries[id].sealed /\ deliveries[id].state = "pending"
  BY Zenon, <1>4, TakesFields
<1>5. ASSUME NEW s \in Sweepers, CommitSealed(s), sweepers[s].id = id
      PROVE  /\ deliveries'[id].attempts = deliveries[id].attempts
             /\ deliveries[id].sealed = None /\ deliveries[id].state = "pending"
  BY ZenonT(30), <1>5, CommitFields
<1>6. ASSUME NEW s \in Sweepers, Delivers(s), sweepers[s].id = id
      PROVE  /\ deliveries'[id].attempts = deliveries[id].attempts
             /\ deliveries'[id].sealed = deliveries[id].sealed /\ Live(deliveries[id])
  BY Zenon, <1>6, DeliversFields
<1> QED
  BY Zenon, <1>0, <1>1, <1>2, <1>3, <1>4, <1>5, <1>6 DEF DeliveryMove, Creates, Freed, Live

\* No sweep takes a delivery from one whose lease still runs, and no step lowers an
\* attempt count, replaces a ciphertext or reopens a settled delivery: for every
\* number of sweepers, requests and faults.
THEOREM DeliveriesAdvance == Spec => DeliveriesOnlyAdvance
<1>1. AttemptInv /\ AttemptInv' /\ [Next]_vars => [NotOvertaken /\ HistoryKept]_vars
  BY Zenon, NextMoves, LeaseRespected, HistoryStep DEF AttemptInv
<1> QED
  BY <1>1, AttemptInitially, AttemptStep, PTL DEF Spec, DeliveriesOnlyAdvance

\* StateDelivered means that a recipient device durably accepted the ciphertext that
\* the record carries, whatever attempts were given up, replaced or repeated.
THEOREM DeliveredIsAccepted == Spec => []DeliveredWasAccepted
<1>1. AttemptInv => DeliveredWasAccepted
  BY ZenonT(30) DEF AttemptInv
<1> QED
  BY <1>1, AttemptInitially, AttemptStep, PTL DEF Spec

-----------------------------------------------------------------------------
(* One ciphertext of each copy *)

\* No record is pruned while an envelope that a slow sweep sent of it may still arrive:
\* the retention outlasts the longest sweep and the longest lifetime together.
RetentionOutlasts ==
    "maintenance" \in Actors => MaxLifetime > 0 /\ MaxStall + MaxLifetime <= Retention

Ended == {"delivered", "abandoned"}

\* A sweep is as far behind as it may stall.
SweepsAreTimely ==
    \A s \in Sweepers : sweepers[s].pc \notin {"idle", "prune"} =>
        sweepers[s].at <= now /\ now <= sweepers[s].at + MaxStall

\* The record a sweep works on is there, was not settled before the sweep began, and
\* carries what the sweep sends.
RecordsStay ==
    \A s \in Sweepers : sweepers[s].pc \in Busy =>
        LET del == deliveries[sweepers[s].id]
        IN  /\ Readable(del)
            /\ del.state \in Ended => sweepers[s].at <= del.settled
            /\ sweepers[s].pc \in {"send", "sent"} => del.sealed = sweepers[s].sealed

\* What was sent is what the record carries, or is no longer accepted by anyone; and the
\* record is kept for as long as it may be.
SentIsRecorded ==
    \A m \in wire :
        LET del == deliveries[m.id]
        IN  /\ Expiry(m.id) <= now \/ del.sealed = m.key
            /\ Expiry(m.id) <= now + MaxLifetime
            /\ del.state \in Ended => Expiry(m.id) <= del.settled + MaxStall + MaxLifetime

CiphertextInv == TypeOK /\ SweepsAreTimely /\ RecordsStay /\ SentIsRecorded /\ OneCiphertext

LEMMA Clocks ==
    ASSUME TypeOK
    PROVE  /\ now \in Nat /\ AttemptLease \in Nat /\ MaxLifetime \in Nat
           /\ Retention \in Nat /\ MaxStall \in Nat
           /\ \A s \in Sweepers : sweepers[s].at \in Nat
           /\ \A id \in DeliveryId : Expiry(id) \in Nat /\ deliveries[id].settled \in Nat
           /\ \A m \in wire : m.id \in DeliveryId /\ m.key \in MessageKey
<1>1. \A id \in DeliveryId : Expiry(id) \in Nat
  BY Zenon, OutboundAssumption DEF Expiry, DeliveryId
<1>2. \A id \in DeliveryId : deliveries[id].settled \in Nat
  BY DEF TypeOK, Delivery, NoDelivery, TornDelivery, Absent
<1> QED
  BY <1>1, <1>2, OutboundAssumption DEF TypeOK, Sweeper, Times, Message

LEMMA TimelyStep ==
    ASSUME CiphertextInv, TypeOK', [Next]_vars, Moves
    PROVE  SweepsAreTimely'
<1> SUFFICES ASSUME NEW s \in Sweepers, sweepers'[s].pc \notin {"idle", "prune"}
             PROVE  sweepers'[s].at <= now' /\ now' <= sweepers'[s].at + MaxStall
  BY Zenon DEF SweepsAreTimely
<1>0. TypeOK /\ now \in Nat /\ MaxStall \in Nat /\ sweepers[s].at \in Nat
  BY Zenon, Clocks DEF CiphertextInv
<1>1. CASE Tick
  <2>1. sweepers' = sweepers /\ now' = now + 1 /\ now < sweepers[s].at + MaxStall
    BY Zenon, <1>1 DEF Tick, Prompt
  <2>2. sweepers[s].at <= now
    BY Zenon, <2>1 DEF CiphertextInv, SweepsAreTimely
  <2> QED
    BY <1>0, <2>1, <2>2
<1>2. CASE now' = now
  <2>1. \/ sweepers'[s].at = now
        \/ sweepers'[s].at = sweepers[s].at /\ sweepers[s].pc \notin {"idle", "prune"}
    <3>1. SweeperMove(s)
      BY Zenon DEF Moves
    <3>2. ASSUME CommitSealed(s)
          PROVE  sweepers'[s].at = sweepers[s].at /\ sweepers[s].pc \notin {"idle", "prune"}
      BY Zenon, <1>0, <3>2, CommitFields
    <3> QED
      BY Zenon, <3>1, <3>2 DEF SweeperMove, Ends, Goes, Busy, Takes
  <2> QED
    BY SMTT(40), <1>0, <1>2, <2>1 DEF CiphertextInv, SweepsAreTimely
<1> QED
  BY Zenon, <1>0, <1>1, <1>2, OtherMoves

\* A delivery that some sweep works on is not pruned.
LEMMA NotPruned ==
    ASSUME CiphertextInv, RetentionOutlasts, NEW s \in Sweepers, sweepers[s].pc \in Busy
    PROVE  ~("maintenance" \in Actors /\ Prunable(sweepers[s].id))
<1> SUFFICES ASSUME "maintenance" \in Actors, Prunable(sweepers[s].id) PROVE FALSE
  BY Zenon
<1> DEFINE id == sweepers[s].id
<1>0. TypeOK /\ id \in DeliveryId /\ sweepers[s].pc \notin {"idle", "prune"}
  BY Zenon, BusySweeper DEF CiphertextInv, Busy
<1>1. deliveries[id].settled + Retention <= now /\ sweepers[s].at <= deliveries[id].settled
  BY Zenon DEF Prunable, CiphertextInv, RecordsStay, Ended
<1>2. now <= sweepers[s].at + MaxStall
  BY ZenonT(30), <1>0 DEF CiphertextInv, SweepsAreTimely
<1> QED
  BY <1>0, <1>1, <1>2, Clocks DEF RetentionOutlasts

\* What is not there is not taken, sealed or settled.
LEMMA NoDeliveryIs ==
    /\ NoDelivery.state = "none" /\ NoDelivery.sealed = None /\ "none" \notin DeliveryState
    /\ "none" \notin Ended
BY Zenon DEF NoDelivery, Absent, DeliveryState, Ended

LEMMA AbsentUntouched ==
    ASSUME TypeOK, NEW id \in DeliveryId, deliveries[id] = NoDelivery, NEW s \in Sweepers
    PROVE  /\ ~Takes(s, id) /\ ~(CommitSealed(s) /\ sweepers[s].id = id)
           /\ ~(Delivers(s) /\ sweepers[s].id = id)
<1>0. deliveries[id].state = "none"
  BY NoDeliveryIs, Zenon
<1>1. ~Takes(s, id)
  <2> SUFFICES ASSUME Takes(s, id) PROVE FALSE
    BY Zenon
  <2>1. deliveries[id].state = "pending"
    BY Zenon, TakesFields
  <2> QED
    BY Zenon, <1>0, <2>1
<1>2. ~(CommitSealed(s) /\ sweepers[s].id = id)
  <2> SUFFICES ASSUME CommitSealed(s), sweepers[s].id = id PROVE FALSE
    BY Zenon
  <2>1. deliveries[sweepers[s].id].state = "pending"
    BY Zenon, CommitFields
  <2> QED
    BY Zenon, <1>0, <2>1
<1>3. ~(Delivers(s) /\ sweepers[s].id = id)
  <2> SUFFICES ASSUME Delivers(s), sweepers[s].id = id PROVE FALSE
    BY Zenon
  <2>1. Live(deliveries[sweepers[s].id])
    BY Zenon, DeliversFields
  <2> QED
    BY Zenon, <1>0, <2>1 DEF Live
<1> QED
  BY Zenon, <1>1, <1>2, <1>3

\* What becomes of a record that some sweep works on.
LEMMA WorkedOn ==
    ASSUME CiphertextInv, RetentionOutlasts, Moves, NEW s \in Sweepers, sweepers[s].pc \in Busy
    PROVE  LET id == sweepers[s].id
           IN  /\ id \in DeliveryId
               /\ Readable(deliveries'[id])
               /\ deliveries'[id].state \in Ended => sweepers[s].at <= deliveries'[id].settled
               /\ deliveries[id].sealed # None => deliveries'[id].sealed = deliveries[id].sealed
<1> DEFINE id == sweepers[s].id
<1>0. TypeOK /\ id \in DeliveryId /\ sweepers[s].pc \notin {"idle", "prune"}
  BY Zenon, BusySweeper DEF CiphertextInv, Busy
<1>1. DeliveryMove(id) /\ Readable(deliveries[id]) /\ sweepers[s].at <= now
  BY Zenon, <1>0 DEF Moves, CiphertextInv, RecordsStay, SweepsAreTimely
<1>2. deliveries[id].state \in Ended => sweepers[s].at <= deliveries[id].settled
  BY Zenon DEF CiphertextInv, RecordsStay
<1> HIDE DEF id
<1>3. deliveries[id] # NoDelivery
  BY Zenon, <1>1, NoDeliveryIs DEF Readable
<1>4. ~("maintenance" \in Actors /\ Prunable(id))
  BY Zenon, NotPruned DEF id
<1>5. CASE deliveries'[id] = deliveries[id]
  BY Zenon, <1>0, <1>1, <1>2, <1>5 DEF id
<1>6. ASSUME NEW t \in Sweepers, Takes(t, id)
      PROVE  /\ Readable(deliveries'[id]) /\ deliveries'[id].state \notin Ended
             /\ deliveries'[id].sealed = deliveries[id].sealed
  BY Zenon, <1>0, <1>6, TakesFields DEF Readable, Ended, DeliveryState
<1>7. ASSUME NEW t \in Sweepers, CommitSealed(t), sweepers[t].id = id
      PROVE  /\ Readable(deliveries'[id]) /\ deliveries'[id].state \notin Ended
             /\ deliveries[id].sealed = None
  BY Zenon, <1>0, <1>7, CommitFields DEF Readable, Ended, DeliveryState
<1>8. ASSUME NEW t \in Sweepers, Delivers(t), sweepers[t].id = id
      PROVE  /\ Readable(deliveries'[id]) /\ deliveries'[id].settled = now
             /\ deliveries'[id].sealed = deliveries[id].sealed
  BY Zenon, <1>0, <1>8, DeliversFields DEF Readable, DeliveryState
<1>9. CASE Freed(deliveries[id], deliveries'[id], now)
  <2>1. /\ Readable(deliveries'[id]) /\ deliveries'[id].sealed = deliveries[id].sealed
        /\ deliveries'[id].state \in Ended => deliveries'[id].settled = now
    BY Zenon, <1>9 DEF Freed, Readable, Delivery, Ended
  <2> QED
    BY Zenon, <1>0, <1>1, <2>1 DEF id
<1> QED
  BY ZenonT(40), <1>0, <1>1, <1>3, <1>4, <1>5, <1>6, <1>7, <1>8, <1>9 DEF DeliveryMove, Creates, id

LEMMA RecordsStep ==
    ASSUME CiphertextInv, RetentionOutlasts, Moves
    PROVE  RecordsStay'
<1> SUFFICES ASSUME NEW s \in Sweepers, sweepers'[s].pc \in Busy
             PROVE  LET del == deliveries'[sweepers'[s].id]
                    IN  /\ Readable(del)
                        /\ del.state \in Ended => sweepers'[s].at <= del.settled
                        /\ sweepers'[s].pc \in {"send", "sent"} => del.sealed = sweepers'[s].sealed
  BY Zenon DEF RecordsStay
<1>0. TypeOK /\ SweeperMove(s)
  BY Zenon DEF CiphertextInv, Moves
<1>1. ASSUME NEW id \in DeliveryId, Takes(s, id)
      PROVE  LET del == deliveries'[sweepers'[s].id]
             IN  Readable(del) /\ del.state \notin Ended /\ del.sealed = sweepers'[s].sealed
  BY Zenon, <1>0, <1>1, TakesFields DEF Takes, Readable, DeliveryState, Ended
<1>2. CASE CommitSealed(s)
  BY SMTT(40), <1>0, <1>2, CommitFields DEF Readable, DeliveryState, Ended
<1>3. CASE sweepers'[s] = sweepers[s] \/ Goes(sweepers[s], sweepers'[s])
  <2>1. /\ sweepers[s].pc \in Busy /\ sweepers'[s].id = sweepers[s].id /\ sweepers'[s].at = sweepers[s].at
        /\ sweepers'[s].pc \in {"send", "sent"} =>
              sweepers[s].pc \in {"send", "sent"} /\ sweepers'[s].sealed = sweepers[s].sealed
    BY Zenon, <1>3 DEF Goes
  <2>2. sweepers[s].pc \in {"send", "sent"} =>
           deliveries[sweepers[s].id].sealed = sweepers[s].sealed /\ sweepers[s].sealed # None
    BY Zenon, <1>0 DEF CiphertextInv, RecordsStay, Busy, TypeOK, WellFormed
  <2> QED
    BY Zenon, <2>1, <2>2, WorkedOn
<1>4. CASE Ends(sweepers[s], sweepers'[s], now)
  BY ZenonT(40), <1>4 DEF Ends, Busy
<1> QED
  BY Zenon, <1>0, <1>1, <1>2, <1>3, <1>4 DEF SweeperMove

\* What becomes of the record of a message that was sent.
LEMMA SentStays ==
    ASSUME CiphertextInv, RetentionOutlasts, Moves, NEW m \in wire
    PROVE  LET del == deliveries'[m.id]
           IN  /\ Expiry(m.id) <= now \/ del.sealed = m.key
               /\ del.state \in Ended => Expiry(m.id) <= del.settled + MaxStall + MaxLifetime
<1> DEFINE id == m.id
           old == deliveries[id]
           new == deliveries'[id]
<1>0. /\ TypeOK /\ id \in DeliveryId /\ m.key # None /\ DeliveryMove(id)
      /\ Expiry(id) \in Nat /\ now \in Nat /\ MaxStall \in Nat /\ MaxLifetime \in Nat /\ Retention \in Nat
      /\ old.settled \in Nat
  BY Zenon, Clocks, NoneAssumption DEF CiphertextInv, Moves
<1>1. /\ Expiry(id) <= now \/ old.sealed = m.key
      /\ Expiry(id) <= now + MaxLifetime
      /\ old.state \in Ended => Expiry(id) <= old.settled + MaxStall + MaxLifetime
  BY Zenon DEF CiphertextInv, SentIsRecorded
<1> DEFINE Goal == /\ Expiry(id) <= now \/ new.sealed = m.key
                   /\ new.state \in Ended => Expiry(id) <= new.settled + MaxStall + MaxLifetime
<1>2. ASSUME new.sealed = old.sealed \/ old.sealed = None,
             new.state \in Ended => new.settled = now
      PROVE  Goal
  BY SMTT(40), <1>0, <1>1, <1>2
<1>3. CASE new = old
  BY Zenon, <1>1, <1>3
<1>4. CASE old = NoDelivery
  <2>1. old.sealed = None /\ old.state \notin Ended
    BY Zenon, <1>4, NoDeliveryIs
  <2>2. TornDelivery.state \notin Ended /\ \A t : Queued(t).state \notin Ended
    BY Zenon DEF TornDelivery, Absent, Ended, Queued
  <2>3. Creates(id) => Goal
    BY <1>2, <2>1, <2>2 DEF Creates
  <2>4. ~Live(old) /\ old.state # "pending" /\ ~Prunable(id)
    BY SMTT(40), <1>4 DEF NoDelivery, Absent, Live, Prunable
  <2>5. \A s \in Sweepers : ~Takes(s, id) /\ ~(CommitSealed(s) /\ sweepers[s].id = id)
                            /\ ~(Delivers(s) /\ sweepers[s].id = id)
    BY Zenon, <1>0, <1>4, AbsentUntouched
  <2> QED
    BY ZenonT(30), <1>0, <1>3, <2>3, <2>4, <2>5 DEF DeliveryMove, Freed
<1>5. ASSUME NEW s \in Sweepers, Takes(s, id) PROVE Goal
  <2>1. new.sealed = old.sealed /\ new.state \notin Ended
    BY Zenon, <1>0, <1>5, TakesFields DEF Ended
  <2> QED
    BY Zenon, <1>2, <2>1
<1>6. ASSUME NEW s \in Sweepers, CommitSealed(s), sweepers[s].id = id PROVE Goal
  <2>1. old.sealed = None /\ new.state \notin Ended
    BY ZenonT(30), <1>0, <1>6, CommitFields DEF Ended
  <2> QED
    BY Zenon, <1>2, <2>1
<1>7. ASSUME NEW s \in Sweepers, Delivers(s), sweepers[s].id = id PROVE Goal
  <2>1. new.sealed = old.sealed /\ new.settled = now
    BY Zenon, <1>0, <1>7, DeliversFields
  <2> QED
    BY Zenon, <1>2, <2>1
<1>8. CASE Freed(old, new, now)
  BY Zenon, <1>2, <1>8 DEF Freed, Ended
<1>9. CASE "maintenance" \in Actors /\ Prunable(id) /\ new = NoDelivery
  <2>1. new.state \notin Ended
    BY <1>9 DEF NoDelivery, Absent, Ended
  <2>2. old.state \in Ended /\ old.settled + Retention <= now
    BY Zenon, <1>9 DEF Prunable, Ended
  <2>3. MaxStall + MaxLifetime <= Retention
    BY Zenon, <1>9 DEF RetentionOutlasts
  <2>4. Expiry(id) <= now
    BY <1>0, <1>1, <2>2, <2>3
  <2> QED
    BY Zenon, <2>1, <2>4
<1> QED
  BY ZenonT(40), <1>0, <1>3, <1>4, <1>5, <1>6, <1>7, <1>8, <1>9 DEF DeliveryMove, Creates

LEMMA SentStep ==
    ASSUME CiphertextInv, TypeOK', RetentionOutlasts, [Next]_vars, Moves
    PROVE  SentIsRecorded' /\ OneCiphertext'
<1>0. /\ TypeOK /\ now \in Nat /\ MaxStall \in Nat /\ MaxLifetime \in Nat /\ now' \in Nat
      /\ (now' = now \/ now' = now + 1)
  BY SMTT(40), Clocks, OtherMoves DEF CiphertextInv, TypeOK, Times, Tick
<1>1. ASSUME NEW m \in wire
      PROVE  LET del == deliveries'[m.id]
             IN  /\ Expiry(m.id) <= now' \/ del.sealed = m.key
                 /\ Expiry(m.id) <= now' + MaxLifetime
                 /\ del.state \in Ended => Expiry(m.id) <= del.settled + MaxStall + MaxLifetime
  <2>1. Expiry(m.id) \in Nat /\ Expiry(m.id) <= now + MaxLifetime
    BY Zenon, <1>0, Clocks DEF CiphertextInv, SentIsRecorded
  <2> QED
    BY SMTT(40), <1>0, <2>1, SentStays
<1>2. CASE wire' = wire
  BY Zenon, <1>1, <1>2 DEF SentIsRecorded, OneCiphertext, CiphertextInv
<1>3. ASSUME NEW s \in Sweepers, Send(s), wire' # wire PROVE SentIsRecorded' /\ OneCiphertext'
  <2> DEFINE sw == sweepers[s]
             id == sw.id
             message == [id |-> sw.id, key |-> sw.sealed, bootstrap |-> session[sw.id.device].root]
  <2>1. /\ InWindow(id) /\ wire' = wire \cup {message} /\ deliveries' = deliveries /\ now' = now
        /\ sw.pc = "send" /\ message.id = id /\ message.key = sw.sealed
    BY Zenon, <1>3 DEF Send
  <2>2. id \in DeliveryId /\ Expiry(id) \in Nat /\ sw.at \in Nat /\ deliveries[id].settled \in Nat
    <3>1. id \in DeliveryId
      BY Zenon, <1>0, <2>1, BusySweeper
    <3> QED
      BY Zenon, <1>0, <3>1, Clocks
  <2>3. /\ deliveries[id].state \in Ended => sw.at <= deliveries[id].settled
        /\ deliveries[id].sealed = sw.sealed
        /\ now <= sw.at + MaxStall
    BY ZenonT(40), <2>1 DEF CiphertextInv, RecordsStay, SweepsAreTimely, Busy
  <2>4. Expiry(id) > now /\ Expiry(id) <= now + MaxLifetime
    BY Zenon, <2>1 DEF InWindow
  <2> HIDE DEF id, message, sw
  <2>5. \A m \in wire : m.id = id => m.key = sw.sealed
    <3> SUFFICES ASSUME NEW m \in wire, m.id = id PROVE m.key = sw.sealed
      BY Zenon
    <3>1. Expiry(id) <= now \/ deliveries[id].sealed = m.key
      BY Zenon DEF CiphertextInv, SentIsRecorded
    <3> QED
      BY <1>0, <2>2, <2>3, <2>4, <3>1
  <2>6. OneCiphertext'
    BY Zenon, <2>1, <2>5 DEF OneCiphertext, CiphertextInv
  <2>7. deliveries[id].state \in Ended => Expiry(id) <= deliveries[id].settled + MaxStall + MaxLifetime
    BY SMTT(40), <1>0, <2>2, <2>3, <2>4
  <2>8. SentIsRecorded'
    <3> SUFFICES ASSUME NEW m \in wire'
                 PROVE  LET del == deliveries'[m.id]
                        IN  /\ Expiry(m.id) <= now' \/ del.sealed = m.key
                            /\ Expiry(m.id) <= now' + MaxLifetime
                            /\ del.state \in Ended => Expiry(m.id) <= del.settled + MaxStall + MaxLifetime
      BY Zenon DEF SentIsRecorded
    <3>1. CASE m \in wire
      BY Zenon, <1>1, <3>1
    <3>2. CASE m = message
      BY Zenon, <2>1, <2>3, <2>4, <2>7, <3>2
    <3> QED
      BY Zenon, <2>1, <3>1, <3>2
  <2> QED
    BY Zenon, <2>6, <2>8
<1> QED
  BY Zenon, <1>0, <1>2, <1>3, OtherMoves

LEMMA CiphertextInitially == ASSUME Init PROVE CiphertextInv
<1>1. TypeOK
  BY Zenon, TypeInit
<1>2. wire = {} /\ \A s \in Sweepers : sweepers[s].pc = "idle"
  BY Zenon DEF Init, IdleSweeper
<1> QED
  BY Zenon, <1>1, <1>2
     DEF CiphertextInv, SweepsAreTimely, RecordsStay, SentIsRecorded, OneCiphertext, Busy

LEMMA CiphertextStep == ASSUME RetentionOutlasts, CiphertextInv, [Next]_vars PROVE CiphertextInv'
<1>1. TypeOK /\ TypeOK' /\ Moves
  BY Zenon, TypeNext, NextMoves DEF CiphertextInv
<1> QED
  BY Zenon, <1>1, TimelyStep, RecordsStep, SentStep DEF CiphertextInv

\* A delivery is sealed once, and counts as delivered only when the recipient accepted that
\* ciphertext (CommitSealed, Delivered, Prune).
THEOREM SealedOnce ==
    ASSUME RetentionOutlasts
    PROVE  Spec => []DeliveredAsSealed
<1>1. AttemptInv /\ CiphertextInv => DeliveredAsSealed
  BY Zenon DEF AttemptInv, CiphertextInv, DeliveredAsSealed
<1>2. CiphertextInv /\ [Next]_vars => CiphertextInv'
  BY Zenon, CiphertextStep
<1> QED
  BY <1>1, <1>2, AttemptInitially, AttemptStep, CiphertextInitially, PTL DEF Spec

-----------------------------------------------------------------------------
(* One request is one message *)

\* What is queued under a key, or is about to be, is the event the key is bound to.
EventsBound ==
    /\ \A id \in DeliveryId : deliveries[id] # NoDelivery =>
          compositions[id.key] # NoComposition /\ compositions[id.key].created = id.created
    /\ \A c \in Composers : composers[c].pc = "queue" =>
          /\ compositions[composers[c].key] # NoComposition
          /\ compositions[composers[c].key].created = composers[c].created

\* A binding is made once, and a request queues only what its key is bound to.
BindingMoves ==
    /\ \A k \in Keys : compositions[k] # NoComposition => compositions'[k] = compositions[k]
    /\ \A c \in Composers : composers'[c].pc = "queue" =>
          \/ /\ composers[c].pc = "queue" /\ composers'[c].key = composers[c].key
             /\ composers'[c].created = composers[c].created
          \/ /\ compositions'[composers'[c].key] # NoComposition
             /\ compositions'[composers'[c].key].created = composers'[c].created

LEMMA ClaimBinds ==
    ASSUME TypeOK, NEW c \in Composers, ClaimOutboundComposition(c)
    PROVE  BindingMoves
<1> DEFINE co == composers[c]
           k == co.key
           bound == compositions[k]
           usable == bound = NoComposition \/ bound.intent = co.intent
           new == [co EXCEPT !.pc = "queue", !.created = Chosen(c),
                             !.at = IF k \in Untargeted THEN Chosen(c) ELSE now,
                             !.left = TargetsOf[k]]
<1>1. co \in Ensuring /\ k \in Keys /\ co.intent \in Intents
  BY Zenon, BusyComposer DEF ClaimOutboundComposition, Ensuring
<1>2. /\ compositions' = [compositions EXCEPT ![k] = IF bound = NoComposition THEN Composed(c) ELSE bound]
      /\ composers' = [composers EXCEPT ![c] = IF usable THEN new ELSE IdleComposer]
  BY Zenon, <1>1 DEF ClaimOutboundComposition, TypeOK
<1>3. new.key = k /\ new.created = Chosen(c)
  BY Zenon, <1>1 DEF Ensuring
<1>4. Composed(c) # NoComposition /\ Composed(c).created = co.at
  BY Zenon, <1>1, OutboundAssumption DEF Composed, NoComposition
<1>5. compositions'[k] # NoComposition /\ compositions'[k].created = Chosen(c)
  BY Zenon, <1>1, <1>2, <1>4 DEF TypeOK, Chosen
<1>6. \A x \in Keys : compositions[x] # NoComposition => compositions'[x] = compositions[x]
  BY Zenon, <1>1, <1>2 DEF TypeOK
<1> HIDE DEF new, usable
<1>7. \A x \in Composers : x # c => composers'[x] = composers[x]
  BY SMTT(40), <1>2 DEF TypeOK
<1>8. composers'[c] = new \/ composers'[c].pc = "idle"
  BY Zenon, <1>2 DEF TypeOK, IdleComposer
<1> QED
  BY <1>3, <1>5, <1>6, <1>7, <1>8 DEF BindingMoves

LEMMA OneComposer ==
    ASSUME TypeOK, NEW c \in Composers, NEW v, composers' = [composers EXCEPT ![c] = v],
           UNCHANGED compositions,
           v.pc = "queue" => composers[c].pc = "queue" /\ v.key = composers[c].key
                             /\ v.created = composers[c].created
    PROVE  BindingMoves
<1>1. composers'[c] = v /\ \A x \in Composers : x # c => composers'[x] = composers[x]
  BY Zenon DEF TypeOK
<1> QED
  BY Zenon, <1>1 DEF BindingMoves

LEMMA ComposeBinds ==
    ASSUME TypeOK, NEW c \in Composers, Compose(c)
    PROVE  BindingMoves
<1>1. ASSUME NEW k \in Keys, NEW i \in Intents, Submit(c, k, i) PROVE BindingMoves
  <2> DEFINE v == [pc |-> "ensure", key |-> k, intent |-> i, at |-> now, created |-> 0,
                   left |-> IF k \in Untargeted THEN {}
                            ELSE {d \in TargetsOf[k] : session[d].generation = 0}]
  <2>1. composers' = [composers EXCEPT ![c] = v] /\ UNCHANGED compositions
    BY Zenon, <1>1 DEF Submit
  <2>2. v.pc # "queue"
    BY Zenon
  <2> HIDE DEF v
  <2> QED
    BY ZenonT(40), <2>1, <2>2, OneComposer
<1>2. ASSUME NEW d \in Devices, EnsureSession(c, d) PROVE BindingMoves
  <2>1. composers[c] \in Ensuring
    BY Zenon, <1>2, BusyComposer DEF EnsureSession
  <2>2. Without(composers[c], d).pc = "ensure"
    BY Zenon, <2>1 DEF Without, Ensuring
  <2> QED
    BY Zenon, <1>2, <2>2, OneComposer DEF EnsureSession
<1>3. ASSUME NEW d \in Devices, Enqueue(c, d) PROVE BindingMoves
  <2> DEFINE v == Without(composers[c], d)
  <2>1. composers[c] \in Queueing
    BY Zenon, <1>3, BusyComposer DEF Enqueue
  <2>2. v.pc = "queue" /\ v.key = composers[c].key /\ v.created = composers[c].created
        /\ composers[c].pc = "queue"
    BY Zenon, <2>1 DEF Without, Queueing
  <2>3. \/ composers' = [composers EXCEPT ![c] = v]
        \/ composers' = [composers EXCEPT ![c] = IdleComposer]
    BY ZenonT(40), <1>3 DEF Enqueue
  <2>4. UNCHANGED compositions /\ IdleComposer.pc # "queue"
    BY Zenon, <1>3 DEF Enqueue, IdleComposer
  <2> HIDE DEF v
  <2> QED
    BY Zenon, <2>2, <2>3, <2>4, OneComposer
<1> QED
  BY Zenon, <1>1, <1>2, <1>3, ClaimBinds DEF Compose

LEMMA NextBinds ==
    ASSUME TypeOK, [Next]_vars
    PROVE  BindingMoves
<1>1. CASE UNCHANGED <<compositions, composers>>
  BY Zenon, <1>1 DEF BindingMoves
<1>2. CASE Fault
  <2>1. ASSUME Stop PROVE \A c \in Composers : composers'[c].pc # "queue"
    BY Zenon, <2>1 DEF Stop, IdleComposer
  <2>2. ASSUME NEW c \in Composers, CrashInCompose(c)
        PROVE  \A k \in Keys : compositions[k] # NoComposition => compositions'[k] = compositions[k]
    BY ZenonT(30), <2>2 DEF CrashInCompose, TypeOK
  <2> QED
    BY Zenon, <1>1, <1>2, <2>1, <2>2 DEF Fault, BindingMoves, Crash, CrashInCompose, CrashInEnqueue,
       CrashInCommitSealed, WriteFails
<1>3. ASSUME NEW s \in Sweepers, Sweep(s) PROVE UNCHANGED <<compositions, composers>>
  BY Zenon, <1>3 DEF Sweep, StartSweep, ClaimForSend, NoAttemptID, Seal, CommitSealed,
     CommitRefused, Send, Acknowledged, NotAcknowledged, Failed
<1> QED
  BY Zenon, <1>1, <1>2, <1>3, ComposeBinds
     DEF Next, Maintain, ExpireDeliveries, Prune, Owner, Resume, Abandon,
         Ingress, InboundOpen, InboundCommit, Tick, vars

EventInv == IInv /\ EventsBound /\ BootstrapStable

LEMMA EventsStep ==
    ASSUME EventInv, TypeOK', Moves, BindingMoves
    PROVE  EventsBound'
<1>0. TypeOK
  BY Zenon DEF EventInv, IInv
<1>1. ASSUME NEW id \in DeliveryId, deliveries'[id] # NoDelivery
      PROVE  compositions'[id.key] # NoComposition /\ compositions'[id.key].created = id.created
  <2>0. id.key \in Keys /\ DeliveryMove(id)
    BY Zenon DEF DeliveryId, Moves
  <2>1. CASE deliveries[id] # NoDelivery
    BY Zenon, <2>0, <2>1 DEF EventInv, EventsBound, BindingMoves
  <2>2. CASE Creates(id)
    BY SMTT(40), <2>0, <2>2 DEF Creates, EventInv, EventsBound, BindingMoves
  <2>3. CASE deliveries[id] = NoDelivery /\ ~Creates(id)
    <3>1. ~Live(deliveries[id]) /\ deliveries[id].state # "pending"
      BY SMTT(40), <2>3 DEF NoDelivery, Absent, Live
    <3>2. \A s \in Sweepers : ~Takes(s, id) /\ ~(CommitSealed(s) /\ sweepers[s].id = id)
                              /\ ~(Delivers(s) /\ sweepers[s].id = id)
      BY Zenon, <1>0, <2>3, AbsentUntouched
    <3> QED
      BY ZenonT(40), <1>1, <2>0, <2>3, <3>1, <3>2 DEF DeliveryMove, Freed
  <2> QED
    BY Zenon, <2>1, <2>2, <2>3
<1>2. ASSUME NEW c \in Composers, composers'[c].pc = "queue"
      PROVE  /\ compositions'[composers'[c].key] # NoComposition
             /\ compositions'[composers'[c].key].created = composers'[c].created
  <2>1. composers[c].pc = "queue" => composers[c].key \in Keys
    BY Zenon, <1>0, BusyComposer DEF Queueing
  <2>2. CASE composers[c].pc = "queue" /\ composers'[c].key = composers[c].key
             /\ composers'[c].created = composers[c].created
    <3>1. PICK k \in Keys : k = composers[c].key
      BY Zenon, <2>1, <2>2
    <3>2. compositions[k] # NoComposition /\ compositions[k].created = composers[c].created
      BY Zenon, <2>2, <3>1 DEF EventInv, EventsBound
    <3>3. compositions'[k] = compositions[k]
      BY Zenon, <3>2 DEF BindingMoves
    <3> QED
      BY Zenon, <2>2, <3>1, <3>2, <3>3
  <2> QED
    BY Zenon, <1>2, <2>2 DEF BindingMoves
<1> QED
  BY Zenon, <1>1, <1>2 DEF EventsBound

LEMMA BootstrapStep ==
    ASSUME EventInv, wire' = wire \/ \E s \in Sweepers : Send(s)
    PROVE  BootstrapStable'
<1>1. CASE wire' = wire
  BY Zenon, <1>1 DEF BootstrapStable, EventInv
<1>2. ASSUME NEW s \in Sweepers, Send(s), wire' # wire PROVE BootstrapStable'
  <2> DEFINE sw == sweepers[s]
             message == [id |-> sw.id, key |-> sw.sealed, bootstrap |-> session[sw.id.device].root]
  <2>1. wire' = wire \cup {message} /\ sw.pc = "send"
    BY Zenon, <1>2 DEF Send
  <2>2. sw.id \in DeliveryId /\ sw.sealed \in MessageKey
    BY Zenon, <2>1, BusySweeper DEF EventInv, IInv
  <2>3. sw.sealed.device = sw.id.device /\ Spent(sw.sealed)
    <3>1. Owns(sw.id, sw.sealed)
      BY Zenon DEF Owns
    <3> QED
      BY Zenon, <2>2, <3>1 DEF EventInv, IInv, KeysSpent
  <2>4. message.bootstrap = message.key.root
    BY Zenon, <2>3 DEF Spent
  <2> HIDE DEF message
  <2> QED
    BY Zenon, <2>1, <2>4 DEF BootstrapStable, EventInv
<1> QED
  BY Zenon, <1>1, <1>2

LEMMA EventInitially == ASSUME Init PROVE EventInv
<1>1. wire = {} /\ \A c \in Composers : composers[c].pc = "idle"
  BY Zenon DEF Init, IdleComposer
<1>2. \A id \in DeliveryId : deliveries[id] = NoDelivery
  BY Zenon DEF Init
<1> QED
  BY Zenon, <1>1, <1>2, IInvInit DEF EventInv, EventsBound, BootstrapStable

LEMMA EventStep == ASSUME EventInv, [Next]_vars PROVE EventInv'
<1>1. IInv' /\ TypeOK /\ TypeOK'
  BY Zenon, IInvNext DEF EventInv, IInv
<1> QED
  BY Zenon, <1>1, NextMoves, OtherMoves, NextBinds, EventsStep, BootstrapStep DEF EventInv

\* One request is one message: one event under its idempotency key, one handshake of each
\* session and one ciphertext of each copy, however often, at once or late it is repeated
\* (ClaimOutboundComposition, PutBootstrappedSessionState, CommitSealed, Prune).
THEOREM RequestIsOneMessage ==
    ASSUME RetentionOutlasts
    PROVE  Spec => []OneRequestOneMessage
<1>1. EventInv /\ CiphertextInv => OneRequestOneMessage
  BY Zenon DEF EventInv, EventsBound, CiphertextInv, OneRequestOneMessage, OneEventPerKey
<1>2. CiphertextInv /\ [Next]_vars => CiphertextInv'
  BY Zenon, CiphertextStep
<1> QED
  BY <1>1, <1>2, EventInitially, EventStep, CiphertextInitially, PTL DEF Spec
=============================================================================
