-------------------------- MODULE OutboundDelivery --------------------------
(***************************************************************************)
(* The outbound half of the daemon's event journal and the dispatcher that *)
(* drains it: how a runtime's request becomes one event and one delivery   *)
(* per recipient device, how a sweep claims a delivery, seals it under the *)
(* device session's ratchet, sends it and settles or reschedules it, and   *)
(* how the owner, expiry and pruning end it.                               *)
(*                                                                         *)
(* Sources: pkg/dispatch/dispatch.go, pkg/dispatch/session_bindings.go,    *)
(* pkg/daemon/daemon.go, pkg/directhttps/transport.go and, in              *)
(* pkg/eventlog, delivery.go, composition.go, session.go and prune.go.     *)
(*                                                                         *)
(* Every journal operation holds Journal.mutex, so each is one action; a   *)
(* sweep is the sequence of them that Dispatcher.Sweep makes, with its     *)
(* local copies.  The daemon runs one sweeper (Daemon.schedule); the       *)
(* journal's leases are written for several, so Sweepers is a parameter.   *)
(*                                                                         *)
(* A definition commented as a faulty variant is no part of the model: it  *)
(* is the bug a property of the definition that follows it would catch.    *)
(***************************************************************************)
EXTENDS FaultRetry, FiniteSets

CONSTANTS
    Keys,           \* idempotency keys the runtime submits under
    Intents,        \* the semantic fields a request may carry
    Devices,        \* verified recipient devices; one session each
    TargetsOf,      \* the devices a key's request fans out to
    Untargeted,     \* keys submitted by outbox.compose, which names no device
    Composers,      \* concurrent local API requests
    Sweepers,
    ExpiresAt,      \* the expiry each key's request asks for
    Outcomes,       \* what a peer may answer: "accepted", "lost", dispositions
    AttemptLease, MaxLifetime, Retention,
    MaxStall,       \* the longest a request or a sweep may take
    Actors,         \* who else acts: "owner", "maintenance", "ingress"
    MaxTime, MaxSubmits, MaxClaims, MaxGeneration, MaxFaults,   \* bounds
    None

ASSUME OutboundAssumption ==
    /\ TargetsOf \in [Keys -> SUBSET Devices]
    /\ Untargeted \subseteq Keys
    /\ ExpiresAt \in [Keys -> Nat]
    /\ Outcomes \subseteq Dispositions \cup {"accepted", "lost"}
    /\ AttemptLease \in Nat /\ MaxLifetime \in Nat /\ Retention \in Nat
    /\ MaxStall \in Nat
    /\ MaxLifetime <= Retention         \* Prune's MinClaimRetention
    /\ MaxTime \in Nat \ {0} /\ MaxSubmits \in Nat /\ MaxClaims \in Nat
    /\ MaxGeneration \in Nat /\ MaxFaults \in Nat
    /\ None \notin Devices \cup Composers \cup Intents

VARIABLES
    compositions,   \* compositions/<idempotency key>.json
    deliveries,     \* outbound/<delivery>.json
    session,        \* sessions/<session>.json, by peer device
    inbound,        \* per session, a transition an ingress handler prepared
    composers,      \* the local API handlers' local state
    sweepers,       \* the sweeps' local state
    now,            \* the clock, in seconds
    submits,        \* how many requests the runtime has made
    claims,         \* how many attempt identifiers have been drawn
    faults,         \* how many crashes and failed writes there were
    wire,           \* history: messages put on the wire
    accepted        \* history: messages a peer durably accepted

counters == <<submits, claims, faults>>
history == <<wire, accepted>>
vars == <<compositions, deliveries, session, inbound, composers, sweepers,
          now, submits, claims, faults, wire, accepted>>

-----------------------------------------------------------------------------
(* Records *)

Times == 1..MaxTime

\* An event is content-addressed and carries its creation time, so a request
\* composed twice at two times is two events.  A delivery is one device's copy.
DeliveryId == [key: Keys, created: Times, device: Devices]

\* A message key, named by its place in the ratchet: the handshake the session
\* came from, the sending chain within it, and the index within the chain.
MessageKey == [device: Devices, root: Composers \cup {None}, chain: Nat, index: Nat]

ASSUME NoneAssumption == None \notin DeliveryId /\ None \notin MessageKey

NoComposition == [intent |-> None, created |-> 0]
TornComposition == [intent |-> None, created |-> MaxTime + 1]

DeliveryState == {"pending", "held", "delivered", "abandoned"}

Delivery == [state: DeliveryState, sealed: MessageKey \cup {None},
             attempt: Nat, leaseUntil: Nat, attempts: Nat, next: Nat,
             settled: Nat]

Absent(state) == [state |-> state, sealed |-> None, attempt |-> 0,
                  leaseUntil |-> 0, attempts |-> 0, next |-> 0, settled |-> 0]
NoDelivery == Absent("none")
TornDelivery == Absent("torn")

\* Generation 0 is a session file that does not exist.  A session the peer
\* bootstrapped has no root of this installation's making.
Session == [generation: Nat, root: Composers \cup {None}, chain: Nat, index: Nat]

NoSession == [generation |-> 0, root |-> None, chain |-> 0, index |-> 0]
Bootstrapped(c) == [generation |-> 1, root |-> c, chain |-> 0, index |-> 0]

IdleComposer == [pc |-> "idle", key |-> None, intent |-> None, at |-> 0,
                 created |-> 0, left |-> {}]

IdleSweeper == [pc |-> "idle", at |-> 0, due |-> {}, id |-> None, attempt |-> 0,
                sealed |-> None, base |-> NoSession, code |-> None]

Expiry(id) == ExpiresAt[id.key]

Live(del) == del.state \in {"pending", "held"}
Readable(del) == del.state \in DeliveryState

-----------------------------------------------------------------------------
(* The runtime's request: sendDirectApplication, ReplyDirectMessage and, for *)
(* an untargeted key, ComposeAndQueue                                         *)

Init ==
    /\ compositions = [k \in Keys |-> NoComposition]
    /\ deliveries = [id \in DeliveryId |-> NoDelivery]
    /\ session \in [Devices -> {NoSession, Bootstrapped(None)}]
    /\ inbound = [d \in Devices |-> NoSession]
    /\ composers = [c \in Composers |-> IdleComposer]
    /\ sweepers = [s \in Sweepers |-> IdleSweeper]
    /\ now = 1 /\ submits = 0 /\ claims = 0 /\ faults = 0
    /\ wire = {} /\ accepted = {}

\* The request is refused when its expiry has passed.  Otherwise the sessions
\* of the target devices are looked up; the missing ones are to be bootstrapped.
Submit(c, k, i) ==
    /\ composers[c].pc = "idle"
    /\ submits < MaxSubmits /\ submits' = submits + 1
    /\ ExpiresAt[k] > now
    /\ composers' = [composers EXCEPT ![c] =
            [pc |-> "ensure", key |-> k, intent |-> i, at |-> now,
             created |-> 0,
             left |-> IF k \in Untargeted THEN {}
                      ELSE {d \in TargetsOf[k] : session[d].generation = 0}]]
    /\ UNCHANGED <<compositions, deliveries, session, inbound, sweepers, now,
                   claims, faults, history>>

\* Faulty variant: a handshake replaces the session another request established.
EstablishedAnew(c, d) == Bootstrapped(c)
\* PutBootstrappedSessionState.  A session that appeared since the look-up is
\* kept: ErrSessionConflict makes the caller continue with it.
Established(c, d) ==
    IF session[d].generation = 0 THEN Bootstrapped(c) ELSE session[d]

Without(co, d) == [co EXCEPT !.left = co.left \ {d}]

\* One device of ensureDirectSessions.
EnsureSession(c, d) ==
    /\ composers[c].pc = "ensure" /\ d \in composers[c].left
    /\ session' = [session EXCEPT ![d] = Established(c, d)]
    /\ composers' = [composers EXCEPT ![c] = Without(@, d)]
    /\ UNCHANGED <<compositions, deliveries, inbound, sweepers, now, counters,
                   history>>

Composed(c) == [intent |-> composers[c].intent, created |-> composers[c].at]

\* Faulty variant: a retry queues the event it has just composed rather than the
\* one its idempotency key is bound to.
ChosenAfresh(c) == composers[c].at
\* The event the key is bound to: the one composed first.
Chosen(c) == LET bound == compositions[composers[c].key]
             IN  IF bound = NoComposition THEN composers[c].at ELSE bound.created

\* ClaimOutboundComposition, then the start of QueueCopies, which reads the clock
\* again.  Another intent under the same key is a conflict, and a record that
\* cannot be read is an error: the request fails and nothing is queued.
ClaimOutboundComposition(c) ==
    LET k == composers[c].key
        bound == compositions[k]
        usable == bound = NoComposition \/ bound.intent = composers[c].intent
    IN  /\ composers[c].pc = "ensure" /\ composers[c].left = {}
        /\ composers' = [composers EXCEPT ![c] =
                IF usable
                THEN [@ EXCEPT !.pc = "queue", !.created = Chosen(c),
                               !.at = IF k \in Untargeted THEN Chosen(c) ELSE now,
                               !.left = TargetsOf[k]]
                ELSE IdleComposer]
        /\ compositions' = [compositions EXCEPT ![k] =
                IF bound = NoComposition THEN Composed(c) ELSE @]
        /\ UNCHANGED <<deliveries, session, inbound, sweepers, now, counters,
                       history>>

CopyId(c, d) ==
    [key |-> composers[c].key, created |-> composers[c].created, device |-> d]

Queued(t) == [state |-> "pending", sealed |-> None, attempt |-> 0,
              leaseUntil |-> 0, attempts |-> 0, next |-> t, settled |-> 0]

\* A record that exists is returned as it stands.
Enqueued(del, t) == IF del = NoDelivery THEN Queued(t) ELSE del

\* Enqueue of one copy.  validateOutbound refuses an event that has expired
\* since, and a torn record cannot be read: either error ends the request, the
\* copies queued so far staying queued.
Enqueue(c, d) ==
    LET id == CopyId(c, d)
        refused == \/ ExpiresAt[id.key] <= composers[c].at
                   \/ deliveries[id] = TornDelivery
        rest == Without(composers[c], d)
    IN  /\ composers[c].pc = "queue" /\ d \in composers[c].left
        /\ deliveries' = [deliveries EXCEPT ![id] =
                IF refused THEN @ ELSE Enqueued(@, composers[c].at)]
        /\ composers' = [composers EXCEPT ![c] =
                IF refused \/ rest.left = {} THEN IdleComposer ELSE rest]
        /\ UNCHANGED <<compositions, session, inbound, sweepers, now, counters,
                       history>>

-----------------------------------------------------------------------------
(* Dispatcher.Sweep *)

\* Due: pending, not expired, its time has come, and under no live lease.
Due(del, id, t) ==
    /\ del.state = "pending"
    /\ Expiry(id) > t
    /\ del.next <= t
    /\ del.leaseUntil <= t

Sweeping(at, due) == [IdleSweeper EXCEPT !.pc = "next", !.at = at, !.due = due]

\* A sweep reads the clock once and keeps the reading for every claim it makes
\* and every seal it commits.
StartSweep(s) ==
    LET due == {id \in DeliveryId : Due(deliveries[id], id, now)}
    IN  /\ sweepers[s].pc = "idle"
        /\ due # {}
        /\ sweepers' = [sweepers EXCEPT ![s] =
                Sweeping(now, {[id |-> id, next |-> deliveries[id].next] : id \in due})]
        /\ UNCHANGED <<compositions, deliveries, session, inbound, composers,
                       now, counters, history>>

\* The sweep goes on with the rest of its list, or returns.
Resumed(sw) == IF sw.due = {} THEN IdleSweeper ELSE Sweeping(sw.at, sw.due)

\* Faulty variant: the lease of another attempt is not looked at.
ClaimableByAnyone(del, t) == del.state = "pending"
\* An attempt identifier is fresh, so a live lease is always another attempt's.
Claimable(del, t) == del.state = "pending" /\ del.leaseUntil <= t

Claimed(del, attempt, t) ==
    [del EXCEPT !.attempt = attempt, !.leaseUntil = t + AttemptLease]

\* ClaimForSend of the oldest entry left.  A claim that is refused is skipped.
\* What the attempt works from is the delivery the claim returned.
ClaimForSend(s, entry) ==
    LET sw == sweepers[s]
        del == deliveries[entry.id]
        rest == [sw EXCEPT !.due = @ \ {entry}]
    IN  /\ sw.pc = "next" /\ entry \in sw.due
        /\ \A other \in sw.due : entry.next <= other.next
        /\ claims < MaxClaims
        /\ claims' = claims + 1
        /\ IF Claimable(del, sw.at)
           THEN /\ deliveries' = [deliveries EXCEPT ![entry.id] =
                                     Claimed(@, claims + 1, sw.at)]
                /\ sweepers' = [sweepers EXCEPT ![s] =
                       [rest EXCEPT !.pc = IF del.sealed = None THEN "seal" ELSE "send",
                                    !.id = entry.id, !.attempt = claims + 1,
                                    !.sealed = del.sealed]]
           ELSE /\ sweepers' = [sweepers EXCEPT ![s] = Resumed(rest)]
                /\ UNCHANGED deliveries
        /\ UNCHANGED <<compositions, session, inbound, composers, now, submits,
                       faults, history>>

\* attempt returned an error; what it sealed is dropped with it.
Failing(sw, disposition) ==
    [sw EXCEPT !.pc = "failed", !.code = disposition,
               !.sealed = None, !.base = NoSession]

\* newAttemptID fails and the sweep returns: the instance's identifiers are used
\* up.
NoAttemptID(s) ==
    /\ sweepers[s].pc = "next" /\ claims = MaxClaims
    /\ sweepers' = [sweepers EXCEPT ![s] = IdleSweeper]
    /\ UNCHANGED <<compositions, deliveries, session, inbound, composers, now,
                   counters, history>>

\* SessionBindings.BindingFor: a delivery that names no device conflicts with
\* every session's authority.
Bound(id) == session[id.device].generation > 0 /\ id.key \notin Untargeted

\* The first half of seal: the session is read, and the payload sealed against
\* what was read.  Every error before the commit is CodeInternal, a transient
\* code.
Seal(s) ==
    LET sw == sweepers[s]
    IN  /\ sw.pc = "seal"
        /\ sweepers' = [sweepers EXCEPT ![s] =
                IF Bound(sw.id)
                THEN [sw EXCEPT !.pc = "commit", !.base = session[sw.id.device]]
                ELSE Failing(sw, "transient")]
        /\ UNCHANGED <<compositions, deliveries, session, inbound, composers,
                       now, counters, history>>

KeyOf(d, base) == [device |-> d, root |-> base.root,
                   chain |-> base.chain, index |-> base.index]

\* The state a seal leaves behind: the message key it used is gone.
AfterSeal(base) ==
    [base EXCEPT !.generation = base.generation + 1, !.index = base.index + 1]

WithSealed(del, key) == [del EXCEPT !.sealed = key]

\* Faulty variant: an attempt that lost the delivery may still store its seal.
MayCommitSealedStale(s) ==
    LET sw == sweepers[s]
    IN  /\ deliveries[sw.id].state = "pending"
        /\ session[sw.id.device].generation = sw.base.generation
\* CommitSealed's conditions.  The clock it compares with the lease is the
\* sweep's, read before the claim set the lease, so the lease of the delivery's
\* own attempt never looks expired to it.
MayCommitSealed(s) ==
    LET sw == sweepers[s]
        del == deliveries[sw.id]
    IN  /\ del.state = "pending"
        /\ del.attempt = sw.attempt
        /\ del.leaseUntil # 0 => sw.at < del.leaseUntil
        /\ del.sealed = None
        /\ session[sw.id.device].generation = sw.base.generation

\* The session advances first, then the ciphertext is stored.
CommitSealed(s) ==
    LET sw == sweepers[s]
        key == KeyOf(sw.id.device, sw.base)
    IN  /\ sw.pc = "commit"
        /\ MayCommitSealed(s)
        /\ session' = [session EXCEPT ![sw.id.device] = AfterSeal(sw.base)]
        /\ deliveries' = [deliveries EXCEPT ![sw.id] = WithSealed(@, key)]
        /\ sweepers' = [sweepers EXCEPT ![s] =
                [sw EXCEPT !.pc = "send", !.sealed = key, !.base = NoSession]]
        /\ UNCHANGED <<compositions, inbound, composers, now, counters,
                       history>>

\* Faulty variant: the refused commit's ciphertext is sent all the same.
AfterRefusal(sw) == [sw EXCEPT !.pc = "send", !.sealed = KeyOf(sw.id.device, sw.base)]
\* A refused commit discards the ciphertext.
Discarded(sw) == Failing(sw, "transient")

CommitRefused(s) ==
    LET sw == sweepers[s]
    IN  /\ sw.pc = "commit"
        /\ ~MayCommitSealed(s)
        /\ sweepers' = [sweepers EXCEPT ![s] = Discarded(sw)]
        /\ UNCHANGED <<compositions, deliveries, session, inbound, composers,
                       now, counters, history>>

\* Faulty variant: an expiry too far ahead is sent all the same.
InWindowBelow(id) == Expiry(id) > now
\* Sender.Send refuses an expiry that has passed or is beyond the lifetime of an
\* envelope; the code it refuses with is permanent.
InWindow(id) == Expiry(id) > now /\ Expiry(id) <= now + MaxLifetime

\* attempt reads the session again for its bootstrap, and sends.
Send(s) ==
    LET sw == sweepers[s]
        message == [id |-> sw.id, key |-> sw.sealed,
                    bootstrap |-> session[sw.id.device].root]
    IN  /\ sw.pc = "send"
        /\ IF InWindow(sw.id)
           THEN /\ wire' = wire \cup {message}
                /\ sweepers' = [sweepers EXCEPT ![s] = [sw EXCEPT !.pc = "sent"]]
           ELSE /\ sweepers' = [sweepers EXCEPT ![s] = Failing(sw, "permanent")]
                /\ UNCHANGED wire
        /\ UNCHANGED <<compositions, deliveries, session, inbound, composers,
                       now, counters, accepted>>

HoldsAttempt(del, attempt) == del.attempt # 0 /\ del.attempt = attempt

MaySettle(del, attempt) == Live(del) /\ HoldsAttempt(del, attempt)

Settled(del, state, t) ==
    [del EXCEPT !.state = state, !.next = 0, !.attempt = 0,
                !.leaseUntil = 0, !.settled = t]

\* The peer durably accepts the message and its acknowledgement arrives:
\* Delivered.  A settlement that is refused becomes a CodeInternal failure.
Acknowledged(s) ==
    LET sw == sweepers[s]
        del == deliveries[sw.id]
    IN  /\ sw.pc = "sent" /\ "accepted" \in Outcomes
        /\ accepted' = accepted \cup {[id |-> sw.id, key |-> sw.sealed]}
        /\ IF MaySettle(del, sw.attempt)
           THEN /\ deliveries' = [deliveries EXCEPT ![sw.id] = Settled(@, "delivered", now)]
                /\ sweepers' = [sweepers EXCEPT ![s] = Resumed(sw)]
           ELSE /\ sweepers' = [sweepers EXCEPT ![s] = Failing(sw, "transient")]
                /\ UNCHANGED deliveries
        /\ UNCHANGED <<compositions, session, inbound, composers, now,
                       counters, wire>>

\* The peer refuses, cannot be reached, or accepts and the acknowledgement is
\* lost (which the sender cannot tell from not being reached).
NotAcknowledged(s, outcome) ==
    LET sw == sweepers[s]
    IN  /\ sw.pc = "sent" /\ outcome \in Outcomes \ {"accepted"}
        /\ accepted' = IF outcome = "lost"
                       THEN accepted \cup {[id |-> sw.id, key |-> sw.sealed]}
                       ELSE accepted
        /\ sweepers' = [sweepers EXCEPT ![s] =
                Failing(sw, IF outcome = "lost" THEN "transient" ELSE outcome)]
        /\ UNCHANGED <<compositions, deliveries, session, inbound, composers,
                       now, counters, wire>>

Tried(del) ==
    [del EXCEPT !.attempts = del.attempts + 1, !.attempt = 0, !.leaseUntil = 0]

\* What Failed makes of a delivery: abandoned, rescheduled or held.
Rescheduled(del, id, disposition, t) ==
    LET tried == Tried(del)
        retry == NextCode(disposition, tried.attempts)
        abandoned == [tried EXCEPT !.state = "abandoned", !.next = 0, !.settled = t]
    IN  IF Expiry(id) <= t THEN abandoned
        ELSE IF retry.allowed
        THEN IF t + retry.after >= Expiry(id) THEN abandoned
             ELSE [tried EXCEPT !.next = t + retry.after]
        ELSE IF disposition = "approval"
        THEN [tried EXCEPT !.state = "held", !.next = 0]
        ELSE abandoned

\* Failed.  The clock is read again.  An attempt that no longer holds the
\* delivery gets an error, and the error ends the whole sweep.
Failed(s) ==
    LET sw == sweepers[s]
        del == deliveries[sw.id]
    IN  /\ sw.pc = "failed"
        /\ IF del.state = "pending" /\ HoldsAttempt(del, sw.attempt)
           THEN /\ deliveries' = [deliveries EXCEPT ![sw.id] =
                                     Rescheduled(@, sw.id, sw.code, now)]
                /\ sweepers' = [sweepers EXCEPT ![s] = Resumed(sw)]
           ELSE /\ sweepers' = [sweepers EXCEPT ![s] = IdleSweeper]
                /\ UNCHANGED deliveries
        /\ UNCHANGED <<compositions, session, inbound, composers, now,
                       counters, history>>

-----------------------------------------------------------------------------
(* The owner *)

Released(del, t) ==
    [del EXCEPT !.state = "pending", !.next = t, !.attempt = 0, !.leaseUntil = 0]

Resume(id) ==
    /\ deliveries[id].state = "held"
    /\ Expiry(id) > now
    /\ deliveries' = [deliveries EXCEPT ![id] = Released(@, now)]
    /\ UNCHANGED <<compositions, session, inbound, composers, sweepers, now,
                   counters, history>>

\* Abandon overrides whatever is in flight.
Abandon(id) ==
    /\ Live(deliveries[id])
    /\ deliveries' = [deliveries EXCEPT ![id] = Settled(@, "abandoned", now)]
    /\ UNCHANGED <<compositions, session, inbound, composers, sweepers, now,
                   counters, history>>

-----------------------------------------------------------------------------
(* Daemon.Maintain, which runs on the sweeper's goroutine: expiry, then prune *)

\* Faulty variant: a delivery held for the owner's decision does not expire.
ExpiredPending(id) == deliveries[id].state = "pending" /\ Expiry(id) <= now
Expired(id) == Live(deliveries[id]) /\ Expiry(id) <= now

ExpireDeliveries(s) ==
    /\ sweepers[s].pc = "idle"
    /\ deliveries' = [id \in DeliveryId |->
            IF Expired(id) THEN Settled(deliveries[id], "abandoned", now)
            ELSE deliveries[id]]
    /\ sweepers' = [sweepers EXCEPT ![s] = [IdleSweeper EXCEPT !.pc = "prune"]]
    /\ UNCHANGED <<compositions, session, inbound, composers, now, counters,
                   history>>

\* A record that cannot be read is kept.
Prunable(id) ==
    /\ deliveries[id].state \in {"delivered", "abandoned"}
    /\ deliveries[id].settled + Retention <= now

Prune(s) ==
    /\ sweepers[s].pc = "prune"
    /\ deliveries' = [id \in DeliveryId |->
            IF Prunable(id) THEN NoDelivery ELSE deliveries[id]]
    /\ sweepers' = [sweepers EXCEPT ![s] = IdleSweeper]
    /\ UNCHANGED <<compositions, session, inbound, composers, now, counters,
                   history>>

-----------------------------------------------------------------------------
(* The inbound half, as far as it moves the sessions seals are made from *)

\* The state an open leaves behind.
Opened(base, ratchet) ==
    [generation |-> base.generation + 1, root |-> base.root,
     chain |-> IF ratchet THEN base.chain + 1 ELSE base.chain,
     index |-> IF ratchet THEN 0 ELSE base.index]

\* An ingress handler opens a message against the session it read.  The message
\* may carry the peer's next ratchet key, which starts a new sending chain.
InboundOpen(d, ratchet) ==
    LET base == session[d]
    IN  /\ base.generation > 0 /\ base.generation < MaxGeneration
        /\ inbound[d] = NoSession
        /\ inbound' = [inbound EXCEPT ![d] = Opened(base, ratchet)]
        /\ UNCHANGED <<compositions, deliveries, session, composers, sweepers,
                       now, counters, history>>

\* advanceSession: a session that moved since keeps its state.
InboundAdvances(d) ==
    IF session[d].generation + 1 = inbound[d].generation THEN inbound[d] ELSE session[d]

InboundCommit(d) ==
    /\ inbound[d] # NoSession
    /\ session' = [session EXCEPT ![d] = InboundAdvances(d)]
    /\ inbound' = [inbound EXCEPT ![d] = NoSession]
    /\ UNCHANGED <<compositions, deliveries, composers, sweepers, now,
                   counters, history>>

-----------------------------------------------------------------------------
(* Faults and time *)

\* The process stops: what was not durable is gone.  Open has nothing outbound
\* to recover.
Stop ==
    /\ faults < MaxFaults
    /\ faults' = faults + 1
    /\ inbound' = [d \in Devices |-> NoSession]
    /\ composers' = [c \in Composers |-> IdleComposer]
    /\ sweepers' = [s \in Sweepers |-> IdleSweeper]
    /\ UNCHANGED <<now, submits, claims, history>>

Crash == Stop /\ UNCHANGED <<compositions, deliveries, session>>

\* The composition file is created in place: a stop before its bytes are synced
\* leaves a file that exists and cannot be decoded.
CrashInCompose(c) ==
    /\ composers[c].pc = "ensure" /\ composers[c].left = {}
    /\ compositions[composers[c].key] = NoComposition
    /\ compositions' = [compositions EXCEPT ![composers[c].key] = TornComposition]
    /\ Stop
    /\ UNCHANGED <<deliveries, session>>

\* So is the delivery file.
CrashInEnqueue(c, d) ==
    /\ composers[c].pc = "queue" /\ d \in composers[c].left
    /\ deliveries[CopyId(c, d)] = NoDelivery
    /\ ExpiresAt[composers[c].key] > composers[c].at
    /\ deliveries' = [deliveries EXCEPT ![CopyId(c, d)] = TornDelivery]
    /\ Stop
    /\ UNCHANGED <<compositions, session>>

\* Faulty variant: the ciphertext is stored before the session advances.
HalfSealedCiphertextFirst(s) ==
    LET sw == sweepers[s]
    IN  /\ deliveries' = [deliveries EXCEPT ![sw.id] =
                                WithSealed(@, KeyOf(sw.id.device, sw.base))]
        /\ UNCHANGED session
\* The first write of CommitSealed without the second.
HalfSealed(s) ==
    LET sw == sweepers[s]
    IN  /\ session' = [session EXCEPT ![sw.id.device] = AfterSeal(sw.base)]
        /\ UNCHANGED deliveries

CrashInCommitSealed(s) ==
    /\ sweepers[s].pc = "commit" /\ MayCommitSealed(s)
    /\ HalfSealed(s)
    /\ Stop
    /\ UNCHANGED compositions

\* A write fails under a sweep that goes on: the second write of CommitSealed,
\* or the one of Delivered, which the sweep reports to Failed as CodeInternal.
WriteFails(s) ==
    /\ faults < MaxFaults
    /\ faults' = faults + 1
    /\ \/ /\ sweepers[s].pc = "commit" /\ MayCommitSealed(s)
          /\ HalfSealed(s)
          /\ UNCHANGED accepted
       \/ /\ sweepers[s].pc = "sent" /\ "accepted" \in Outcomes
          /\ accepted' = accepted \cup
                {[id |-> sweepers[s].id, key |-> sweepers[s].sealed]}
          /\ UNCHANGED <<session, deliveries>>
    /\ sweepers' = [sweepers EXCEPT ![s] = Failing(@, "transient")]
    /\ UNCHANGED <<compositions, inbound, composers, now, submits, claims,
                   wire>>

\* A request or a sweep in progress ends before the clock is MaxStall past its
\* own reading.
Prompt ==
    /\ \A c \in Composers :
         composers[c].pc # "idle" => now < composers[c].at + MaxStall
    /\ \A s \in Sweepers :
         sweepers[s].pc \notin {"idle", "prune"} => now < sweepers[s].at + MaxStall

Tick ==
    /\ now < MaxTime
    /\ Prompt
    /\ now' = now + 1
    /\ UNCHANGED <<compositions, deliveries, session, inbound, composers,
                   sweepers, counters, history>>

-----------------------------------------------------------------------------
(* The specification *)

Compose(c) ==
    \/ \E k \in Keys, i \in Intents : Submit(c, k, i)
    \/ \E d \in Devices : EnsureSession(c, d)
    \/ ClaimOutboundComposition(c)
    \/ \E d \in Devices : Enqueue(c, d)

Sweep(s) ==
    \/ StartSweep(s)
    \/ \E entry \in sweepers[s].due : ClaimForSend(s, entry)
    \/ NoAttemptID(s)
    \/ Seal(s)
    \/ CommitSealed(s)
    \/ CommitRefused(s)
    \/ Send(s)
    \/ Acknowledged(s)
    \/ \E outcome \in Outcomes : NotAcknowledged(s, outcome)
    \/ Failed(s)

Maintain(s) == "maintenance" \in Actors /\ (ExpireDeliveries(s) \/ Prune(s))

Owner == "owner" \in Actors /\ \E id \in DeliveryId : Resume(id) \/ Abandon(id)

Ingress ==
    /\ "ingress" \in Actors
    /\ \E d \in Devices : \/ \E ratchet \in BOOLEAN : InboundOpen(d, ratchet)
                         \/ InboundCommit(d)

Fault ==
    \/ Crash
    \/ \E c \in Composers : CrashInCompose(c)
    \/ \E c \in Composers, d \in Devices : CrashInEnqueue(c, d)
    \/ \E s \in Sweepers : CrashInCommitSealed(s) \/ WriteFails(s)

Next ==
    \/ \E c \in Composers : Compose(c)
    \/ \E s \in Sweepers : Sweep(s) \/ Maintain(s)
    \/ Owner \/ Ingress \/ Fault \/ Tick

Spec == Init /\ [][Next]_vars

\* Time passes, a request that was begun is handled to its end, the scheduled
\* goroutine runs, and its tickers are served in turn.
FairSpec ==
    /\ Spec
    /\ WF_vars(Tick)
    /\ \A c \in Composers : WF_vars(Compose(c) /\ composers[c].pc # "idle")
    /\ \A s \in Sweepers : /\ WF_vars(Sweep(s) /\ sweepers[s].pc # "idle")
                           /\ SF_vars(StartSweep(s))
                           /\ SF_vars(ExpireDeliveries(s))
                           /\ WF_vars(Prune(s))

-----------------------------------------------------------------------------
(* Properties *)

Ensuring == [pc: {"ensure"}, key: Keys, intent: Intents, at: Times,
             created: {0}, left: SUBSET Devices]
Queueing == [pc: {"queue"}, key: Keys, intent: Intents, at: Times,
             created: Times, left: SUBSET Devices]

Entry == [id: DeliveryId, next: Nat]

Sweeper == [pc: {"idle", "prune", "next", "seal", "commit", "send", "sent", "failed"},
            at: Times \cup {0}, due: SUBSET Entry, id: DeliveryId \cup {None},
            attempt: Nat, sealed: MessageKey \cup {None}, base: Session,
            code: Dispositions \cup {None}]

Message == [id: DeliveryId, key: MessageKey, bootstrap: Composers \cup {None}]

\* A sweep past its claim has a delivery, and one that sends has a ciphertext.
WellFormed(sw) ==
    /\ sw.pc \notin {"idle", "prune", "next"} => sw.id # None
    /\ sw.pc \in {"send", "sent"} => sw.sealed # None
    /\ sw.pc = "failed" => sw.code \in Dispositions

\* Every variable keeps its shape.
TypeOK ==
    /\ compositions \in [Keys -> [intent: Intents, created: Times]
                                 \cup {NoComposition, TornComposition}]
    /\ deliveries \in [DeliveryId -> Delivery \cup {NoDelivery, TornDelivery}]
    /\ session \in [Devices -> Session]
    /\ inbound \in [Devices -> Session]
    /\ composers \in [Composers -> Ensuring \cup Queueing \cup {IdleComposer}]
    /\ sweepers \in [Sweepers -> Sweeper]
    /\ \A s \in Sweepers : WellFormed(sweepers[s])
    /\ now \in Times /\ submits \in Nat /\ claims \in Nat /\ faults \in Nat
    /\ wire \in SUBSET Message
    /\ accepted \in SUBSET [id: DeliveryId, key: MessageKey]

\* Outbound never reuses a key: two messages on the wire under the same message
\* key are the same delivery's, whatever crashes, concurrent sweeps and inbound
\* transitions happened in between (CommitSealed's order and generation check).
KeyUsedOnce ==
    \A m1, m2 \in wire : m1.key = m2.key => m1.id = m2.id

\* A retry sends the message that was already sealed: a delivery is never on the
\* wire under two keys, not even when its record was pruned and a late retry of
\* its request queues it again (the attempt that must hold the delivery, and a
\* retention that outlasts every envelope that could be sent).
OneCiphertext ==
    \A m1, m2 \in wire : m1.id = m2.id => m1.key = m2.key

\* A sweep s is working on the delivery its attempt still holds.
Holds(s) ==
    /\ sweepers[s].id # None
    /\ deliveries[sweepers[s].id].state = "pending"
    /\ HoldsAttempt(deliveries[sweepers[s].id], sweepers[s].attempt)

\* "One sweep at a time owns a delivery": a sweep takes a delivery from another
\* only when the lease that one was granted had run out by its own clock, so a
\* stuck sweep is replaced and a running one is not raced (ClaimForSend).
NotOvertaken ==
    \A s, t \in Sweepers :
        s # t /\ Holds(s) /\ Holds(t)' /\ sweepers'[t].id = sweepers[s].id =>
            sweepers[s].at + AttemptLease <= sweepers'[t].at

\* One idempotency key is one event, however often and however late the runtime
\* repeats its request (ClaimOutboundComposition returns the original bytes).
OneEventPerKey ==
    \A id1, id2 \in DeliveryId :
        /\ deliveries[id1] # NoDelivery /\ deliveries[id2] # NoDelivery
        /\ id1.key = id2.key
        => id1.created = id2.created

\* Two requests that bootstrap the same device session at once leave one
\* handshake: every message carries the bootstrap its key was derived from.
BootstrapStable == \A m \in wire : m.bootstrap = m.key.root

\* StateDelivered means that a recipient device durably accepted exactly the
\* ciphertext the record carries.
DeliveredWasAccepted ==
    \A id \in DeliveryId : deliveries[id].state = "delivered" =>
        [id |-> id, key |-> deliveries[id].sealed] \in accepted

\* The history of a delivery only grows: its attempt count never falls, its
\* ciphertext is never replaced, and a settled delivery stays settled until it
\* is pruned.
HistoryKept ==
    \A id \in DeliveryId :
        LET before == deliveries[id]
            after == deliveries'[id]
        IN  Readable(before) /\ after # NoDelivery =>
              /\ after.attempts >= before.attempts
              /\ before.sealed # None => after.sealed = before.sealed
              /\ before.state \in {"delivered", "abandoned"} => after = before

\* A delivery only moves on: no sweep takes it from one that still runs, and no
\* sweep, owner or repeated request undoes what another recorded of it.
DeliveriesOnlyAdvance == [][NotOvertaken /\ HistoryKept]_vars

\* A delivery is sealed once, and counts as delivered only when the recipient
\* accepted that ciphertext.
DeliveredAsSealed == OneCiphertext /\ DeliveredWasAccepted

\* One request is one message, however often, at once or late it is repeated: one
\* event under its key, one handshake of each session, one ciphertext of each copy.
OneRequestOneMessage == OneEventPerKey /\ BootstrapStable /\ OneCiphertext

InFlight(k) == \E id \in DeliveryId : id.key = k /\ Live(deliveries[id])

\* Everything queued for a request is delivered or abandoned in the end, whether
\* or not a peer is ever reached and whether or not the owner ever answers.
Settles == \A k \in Keys : InFlight(k) ~> ~InFlight(k)

\* "A process crash at either boundary is retry-safe": the composition of a key
\* can always be read back.
CompositionReadable == \A k \in Keys : compositions[k] # TornComposition

\* "For ordinary text it should use outbox.compose": what the daemon accepted for
\* a device it has a session with is given up before its expiry only after it was
\* sealed.
GivenUpAfterSealing ==
    \A id \in DeliveryId :
        LET del == deliveries[id]
        IN  /\ session[id.device].generation > 0
            /\ del.state = "abandoned" /\ del.settled < Expiry(id)
            => del.sealed # None
=============================================================================
