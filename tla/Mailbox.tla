------------------------------- MODULE Mailbox -------------------------------
(***************************************************************************)
(* The Mailbox Relay (pkg/mailbox, pkg/mailboxapi): requests, each carried *)
(* by a capability grant and a one-time nonce, deposit opaque ciphertext   *)
(* into a box, read the box and delete what was retrieved.  Each request   *)
(* is served by a goroutine of its own; the store's mutex is taken twice,  *)
(* once to claim the nonce and once to act.                                *)
(*                                                                         *)
(* A slot is a message identifier in a box: the name of a file.  A file    *)
(* is created under its own name, then written and synced, and then its    *)
(* directory is synced, so that a crash can leave it torn, or whole in a   *)
(* directory that was not synced.                                          *)
(***************************************************************************)
EXTENDS FiniteSets, Naturals

CONSTANTS
    Slots, BoxOf,        \* message identifiers, and the box each is in
    Contents, ExpiresAt, \* envelopes, and when each expires
    AccessRequests,      \* by nonce
    Access,              \* what a request asks: [op, slot, content]
    RequestExpiry,
    MaxMessages, MaxMessagesPerBox, MaxAccessClaims,
    Connections,
    MaxRelayClock, MaxRelayCalls, MaxRelayFaults, \* bounds of the model
    Missing, Torn

\* Requests name a slot, its box and what to put there; a file is missing, torn or whole.
ASSUME MailboxAssumption ==
    /\ IsFiniteSet(Slots)
    /\ Access \in [AccessRequests -> [op : {"deposit", "read", "delete"},
                                      slot : Slots, content : Contents]]
    /\ RequestExpiry \in [AccessRequests -> Nat]
    /\ MaxMessages \in Nat /\ MaxMessagesPerBox \in Nat
    /\ Missing \notin {Torn, "claimed"}
    /\ Missing \notin [content : Contents, storedAt : Nat]
    /\ Torn \notin [content : Contents, storedAt : Nat]

VARIABLES
    slots,       \* slot -> Missing, Torn or [content, storedAt]
    slotSynced,  \* slots whose directory entry is synced
    claims,      \* request -> Missing, Torn or "claimed": its claim file
    call,        \* connection -> [step, request, now]
    relayClock, relayCalls, relayFaults,
    acked,       \* <<slot, content>> a StoredAck was signed for, until released
    acts         \* how often each request acted

mailboxVars == <<slots, slotSynced, claims, call, relayClock, relayCalls, relayFaults, acked, acts>>

NoRequest == [step |-> "none", request |-> Missing, now |-> 0]

MailboxInit ==
    /\ slots = [s \in Slots |-> Missing] /\ slotSynced = {}
    /\ claims = [r \in AccessRequests |-> Missing]
    /\ call = [c \in Connections |-> NoRequest]
    /\ relayClock = 1 /\ relayCalls = 0 /\ relayFaults = 0
    /\ acked = {} /\ acts = [r \in AccessRequests |-> 0]

RelayFault == relayFaults < MaxRelayFaults /\ relayFaults' = relayFaults + 1
Hang(c) == call' = [call EXCEPT ![c] = NoRequest]

\* VerifyGrant, VerifyAccessRequest: the requests of the model are signed under a grant
\* of their box and operation that outlives them; what is left is their window.
Authorized(r, now) == now < RequestExpiry[r]

\* Handle reads the clock once; authorize checks the grant and the request
\* against that reading.
Authorize(c, r) ==
    /\ call[c] = NoRequest /\ relayCalls < MaxRelayCalls
    /\ relayCalls' = relayCalls + 1
    /\ Authorized(r, relayClock)
    /\ call' = [call EXCEPT ![c] = [step |-> "claim", request |-> r, now |-> relayClock]]
    /\ UNCHANGED <<slots, slotSynced, claims, relayClock, relayFaults, acked, acts>>

\* Claims left after those that expired by the handler's clock are removed.
LiveClaims(now) ==
    [r \in AccessRequests |-> IF claims[r] # Missing /\ RequestExpiry[r] <= now
                              THEN Missing ELSE claims[r]]

\* readAccessClaim, of every file in the directory.
ClaimsReadable == \A r \in AccessRequests : claims[r] # Torn

Count(f) == Cardinality({x \in DOMAIN f : f[x] # Missing})

\* Faulty variant: the claim is written whether or not the nonce was claimed.
claimAccessAgain(c) ==
    /\ call[c].step = "claim"
    /\ claims' = [claims EXCEPT ![call[c].request] = "claimed"]
    /\ call' = [call EXCEPT ![c].step = "act"]
    /\ UNCHANGED <<slots, slotSynced, relayClock, relayCalls, relayFaults, acked, acts>>
\* claimAccess: expired claims are removed, the number of live ones is bounded,
\* and the claim of this nonce has to be new.  A write that fails removes it
\* again, if it can; a sync of the directory that fails leaves it.
claimAccess(c) ==
    /\ call[c].step = "claim"
    /\ UNCHANGED <<slots, slotSynced, relayClock, relayCalls, acked, acts>>
    /\ LET r == call[c].request
           live == LiveClaims(call[c].now)
       IN  IF ~ClaimsReadable
           THEN \* an unreadable claim refuses every request; expired ones met before it are gone
                /\ \E kept \in SUBSET AccessRequests :
                      claims' = [q \in AccessRequests |->
                                  IF q \in kept \/ claims[q] = Torn THEN claims[q] ELSE live[q]]
                /\ Hang(c) /\ UNCHANGED relayFaults
           ELSE IF Count(live) >= MaxAccessClaims \/ live[r] # Missing
           THEN claims' = live /\ Hang(c) /\ UNCHANGED relayFaults
           ELSE \/ /\ claims' = [live EXCEPT ![r] = "claimed"]
                   /\ call' = [call EXCEPT ![c].step = "act"]
                   /\ UNCHANGED relayFaults
                \/ /\ RelayFault /\ Hang(c)
                   /\ \E left \in {Missing, Torn, "claimed"} : claims' = [live EXCEPT ![r] = left]

\* What the second half of a request does once, then answers.
Acting(c, op) == call[c].step = "act" /\ Access[call[c].request].op = op
Acted(c) ==
    /\ acts' = [acts EXCEPT ![call[c].request] = @ + 1]
    /\ Hang(c)
    /\ UNCHANGED <<claims, relayClock, relayCalls>>

Readable == \A s \in Slots : slots[s] # Torn

\* Faulty variant: counts what is there, not what would be.
checkQuotaOff(s) ==
    /\ Readable /\ Count(slots) <= MaxMessages
    /\ Cardinality({t \in Slots : slots[t] # Missing /\ BoxOf[t] = BoxOf[s]}) <= MaxMessagesPerBox
\* checkQuota: every record of every box has to be readable.
checkQuota(s) ==
    /\ Readable /\ Count(slots) + 1 <= MaxMessages
    /\ Cardinality({t \in Slots : slots[t] # Missing /\ BoxOf[t] = BoxOf[s]}) + 1
         <= MaxMessagesPerBox

Refused == UNCHANGED <<slots, slotSynced, relayFaults, acked>>

\* AcceptedForStorage: a well-formed envelope that has not expired.
Storable(content, now) == ExpiresAt[content] > now

\* SignAck: what a StoredAck promises.
SignAck(slot, content) == acked' = acked \cup {<<slot, content>>}

\* Faulty variant: a record under the same name is written over.
PutOver(c) ==
    /\ Acting(c, "deposit") /\ Acted(c)
    /\ LET a == Access[call[c].request]
       IN  /\ slots' = [slots EXCEPT ![a.slot] = [content |-> a.content, storedAt |-> call[c].now]]
           /\ slotSynced' = slotSynced \cup {a.slot}
           /\ SignAck(a.slot, a.content)
           /\ UNCHANGED relayFaults
\* Put: a new record is written, synced and acknowledged; a record that is there
\* is acknowledged again when it is the same.  What a failed write leaves is
\* removed, and the removal may fail too.
Put(c) ==
    /\ Acting(c, "deposit") /\ Acted(c)
    /\ LET a == Access[call[c].request]
           new == [content |-> a.content, storedAt |-> call[c].now]
       IN  \/ ~Storable(a.content, call[c].now) /\ Refused
           \/ /\ Storable(a.content, call[c].now) /\ slots[a.slot] = Missing
              /\ \/ ~checkQuota(a.slot) /\ Refused
                 \/ /\ checkQuota(a.slot)
                    /\ slots' = [slots EXCEPT ![a.slot] = new]
                    /\ slotSynced' = slotSynced \cup {a.slot}
                    /\ SignAck(a.slot, a.content) /\ UNCHANGED relayFaults
                 \/ /\ checkQuota(a.slot) /\ RelayFault
                    /\ \E left \in {Missing, Torn, new} : slots' = [slots EXCEPT ![a.slot] = left]
                    /\ UNCHANGED <<slotSynced, acked>>
           \/ /\ Storable(a.content, call[c].now) /\ slots[a.slot] \notin {Missing, Torn}
              /\ slots[a.slot].content = a.content
              /\ SignAck(a.slot, a.content) /\ UNCHANGED <<slots, slotSynced, relayFaults>>
           \/ /\ Storable(a.content, call[c].now) /\ slots[a.slot] # Missing
              /\ slots[a.slot] # Torn => slots[a.slot].content # a.content
              /\ Refused

\* List answers with the live records of the box, or fails on a torn one.
List(c) == Acting(c, "read") /\ Acted(c) /\ Refused

SlotReleased(s) ==
    /\ slotSynced' = slotSynced \ {s}
    /\ acked' = {a \in acked : a[1] # s}

\* Delete removes the record that has the digest the request names.
Delete(c) ==
    /\ Acting(c, "delete") /\ Acted(c)
    /\ LET a == Access[call[c].request]
       IN  IF slots[a.slot] \notin {Missing, Torn} /\ slots[a.slot].content = a.content
           THEN /\ slots' = [slots EXCEPT ![a.slot] = Missing]
                /\ SlotReleased(a.slot)
                /\ \/ UNCHANGED relayFaults
                   \/ RelayFault
           ELSE Refused

\* Sweep goes through the records and stops at the first it cannot read: of the
\* expired ones it removes all, or those it met before a torn one.
Sweep ==
    \E gone \in SUBSET {s \in Slots : /\ slots[s] \notin {Missing, Torn}
                                      /\ ExpiresAt[slots[s].content] <= relayClock} :
        /\ gone # {}
        /\ Readable => gone = {s \in Slots : /\ slots[s] # Missing
                                             /\ ExpiresAt[slots[s].content] <= relayClock}
        /\ slots' = [s \in Slots |-> IF s \in gone THEN Missing ELSE slots[s]]
        /\ slotSynced' = slotSynced \ gone
        /\ acked' = {a \in acked : a[1] \notin gone}
        /\ UNCHANGED <<claims, call, relayClock, relayCalls, relayFaults, acts>>

\* The relay dies, perhaps in the middle of creating one file, and starts again.
RelayCrash ==
    /\ RelayFault
    /\ call' = [c \in Connections |-> NoRequest]
    /\ \/ UNCHANGED <<claims, slots>>
       \/ \E c \in Connections :
             /\ call[c].step = "claim" /\ claims[call[c].request] = Missing
             /\ ClaimsReadable
             /\ Count(LiveClaims(call[c].now)) < MaxAccessClaims
             /\ \E left \in {Torn, "claimed"} : claims' = [claims EXCEPT ![call[c].request] = left]
             /\ UNCHANGED slots
       \/ \E c \in Connections :
             /\ Acting(c, "deposit")
             /\ LET a == Access[call[c].request]
                IN  /\ slots[a.slot] = Missing /\ checkQuota(a.slot)
                    /\ \E left \in {Torn, [content |-> a.content, storedAt |-> call[c].now]} :
                          slots' = [slots EXCEPT ![a.slot] = left]
             /\ UNCHANGED claims
    /\ UNCHANGED <<slotSynced, relayClock, relayCalls, acked, acts>>

RelayTick ==
    /\ relayClock < MaxRelayClock /\ relayClock' = relayClock + 1
    /\ UNCHANGED <<slots, slotSynced, claims, call, relayCalls, relayFaults, acked, acts>>

MailboxNext ==
    \/ \E c \in Connections :
          \/ \E r \in AccessRequests : Authorize(c, r)
          \/ claimAccess(c) \/ Put(c) \/ List(c) \/ Delete(c)
    \/ Sweep \/ RelayCrash \/ RelayTick

MailboxSpec == MailboxInit /\ [][MailboxNext]_mailboxVars

-----------------------------------------------------------------------------
\* The shape of the store's files and of the calls being served.
MailboxTypeOK ==
    /\ slots \in [Slots -> {Missing, Torn} \cup [content : Contents, storedAt : 1..MaxRelayClock]]
    /\ claims \in [AccessRequests -> {Missing, Torn, "claimed"}]
    /\ slotSynced \subseteq Slots
    /\ \A c \in Connections : call[c].step \in {"none", "claim", "act"}

\* What a StoredAck was signed for is what the box holds, until it is deleted
\* by its digest or swept after it expired: no retry, conflicting deposit,
\* failed write or restart in between replaces it or takes it away.
AckedIsKept ==
    \A a \in acked : slots[a[1]] \notin {Missing, Torn} /\ slots[a[1]].content = a[2]

\* A request that can still be valid acted at most once, however often it was
\* delivered and whatever crashed: the nonce is claimed before the operation.
\* (A copy whose handler read the clock before the request expired may act
\* again after it expired, when another request removed the expired claim.)
RequestActsOnce ==
    \A r \in AccessRequests : acts[r] > 1 => relayClock >= RequestExpiry[r]

\* No box and no relay holds more than its quota, however deposits interleave.
RelayWithinQuota ==
    /\ Count(slots) <= MaxMessages
    /\ \A s \in Slots : Cardinality({t \in Slots : slots[t] # Missing /\ BoxOf[t] = BoxOf[s]})
                          <= MaxMessagesPerBox

\* ack.go says that a StoredAck is issued only after the record and its
\* directory entry are synced.
AckIsSynced == \A a \in acked : a[1] \in slotSynced

\* store.go calls the store crash-safe: a restart finds every file readable.
RelayReadable == Readable /\ ClaimsReadable

\* A relay keeps what it acknowledged, performs a signed request once and stays
\* within its quotas, however connections interleave and wherever it stops.
RelayKeepsDeposits == AckedIsKept /\ RequestActsOnce /\ RelayWithinQuota
=============================================================================
