--------------------------- MODULE ServiceProofs ----------------------------
(***************************************************************************)
(* Two services that act once on what a caller signed, for any number of   *)
(* calls, crashes and failed writes: the owner's decisions at the daemon   *)
(* and the mailboxes of a relay.                                           *)
(***************************************************************************)
EXTENDS OwnerDecisions, Mailbox, FiniteSetTheorems, TLAPS

(***************************************************************************)
(* The mailbox of the relay. For any boxes, requests, quotas and           *)
(* connections: the relay keeps what it acknowledged, performs a request   *)
(* that is still valid once, and stays within its quotas. MailboxInv adds  *)
(* that a call read the clock before now, and that a request acts only     *)
(* with its claim there and nobody else about to perform it                *)
(* (ClaimedFirst).                                                         *)
(***************************************************************************)

Deposits == [content : Contents, storedAt : Nat]
HeldRequests == [step : {"claim", "act"}, request : AccessRequests, now : Nat]

MailboxTypes ==
    /\ slots \in [Slots -> {Missing, Torn} \cup Deposits]
    /\ claims \in [AccessRequests -> {Missing, Torn, "claimed"}]
    /\ call \in [Connections -> {NoRequest} \cup HeldRequests]
    /\ relayClock \in Nat
    /\ acked \in SUBSET (Slots \X Contents)
    /\ acts \in [AccessRequests -> Nat]

\* The connection c performs request r.
Performs(c, r) == call[c].step = "act" /\ call[c].request = r

\* As long as a request is valid: whoever performs it, or performed it, left a
\* claim behind, and there is one of them.
ClaimedFirst ==
    \A r \in AccessRequests : relayClock < RequestExpiry[r] =>
        /\ acts[r] <= 1
        /\ acts[r] = 1 => claims[r] # Missing
        /\ \A c \in Connections : Performs(c, r) => claims[r] # Missing /\ acts[r] = 0
        /\ \A c, d \in Connections : Performs(c, r) /\ Performs(d, r) => c = d

MailboxInv ==
    /\ MailboxTypes
    /\ \A c \in Connections : call[c].now <= relayClock
    /\ AckedIsKept
    /\ ClaimedFirst
    /\ RelayWithinQuota

LEMMA NoRequestFields == NoRequest.step = "none" /\ NoRequest.now = 0
BY Zenon DEF NoRequest

LEMMA BusyCall ==
    ASSUME MailboxTypes, NEW c \in Connections, call[c].step # "none"
    PROVE  /\ call[c] \in HeldRequests
           /\ call[c].request \in AccessRequests
           /\ call[c].now \in Nat
           /\ Access[call[c].request].slot \in Slots
           /\ Access[call[c].request].content \in Contents
<1>1. call[c] \in HeldRequests
  BY Zenon, NoRequestFields DEF MailboxTypes
<1> QED
  BY Zenon, <1>1, MailboxAssumption DEF HeldRequests

-----------------------------------------------------------------------------
(* Quotas *)

Held(f) == {s \in Slots : f[s] # Missing}
Beside(f, s) == {t \in Slots : f[t] # Missing /\ BoxOf[t] = BoxOf[s]}

\* What the relay holds, with sets instead of files.
WithinQuota(f) ==
    /\ Cardinality(Held(f)) <= MaxMessages
    /\ \A s \in Slots : Cardinality(Beside(f, s)) <= MaxMessagesPerBox

LEMMA QuotaIs ==
    ASSUME MailboxTypes
    PROVE  /\ RelayWithinQuota <=> WithinQuota(slots)
           /\ Count(slots) = Cardinality(Held(slots))
BY Zenon DEF MailboxTypes, RelayWithinQuota, WithinQuota, Count, Held, Beside

LEMMA FewerFit ==
    ASSUME NEW f, NEW g, WithinQuota(f),
           \A s \in Slots : g[s] # Missing => f[s] # Missing
    PROVE  WithinQuota(g)
<1>1. ASSUME NEW S \in SUBSET Slots, NEW T \in SUBSET S, NEW m \in Nat,
             Cardinality(S) <= m
      PROVE  Cardinality(T) <= m
  <2>1. IsFiniteSet(S) /\ IsFiniteSet(T) /\ Cardinality(T) <= Cardinality(S)
    BY Zenon, FS_Subset, MailboxAssumption
  <2>2. Cardinality(S) \in Nat /\ Cardinality(T) \in Nat
    BY Zenon, <2>1, FS_CardinalityType
  <2> QED
    BY <1>1, <2>1, <2>2
<1>2. Held(g) \subseteq Held(f) /\ Held(f) \subseteq Slots
  BY Zenon DEF Held
<1>3. \A s \in Slots : Beside(g, s) \subseteq Beside(f, s) /\ Beside(f, s) \subseteq Slots
  BY Zenon DEF Beside
<1>4. Cardinality(Held(g)) <= MaxMessages
  BY Zenon, <1>1, <1>2, MailboxAssumption DEF WithinQuota
<1>5. ASSUME NEW s \in Slots PROVE Cardinality(Beside(g, s)) <= MaxMessagesPerBox
  BY Zenon, <1>1, <1>3, <1>5, MailboxAssumption DEF WithinQuota
<1> QED
  BY Zenon, <1>4, <1>5 DEF WithinQuota

\* What checkQuota lets in fits.
LEMMA OneMoreFits ==
    ASSUME MailboxTypes, NEW s \in Slots, checkQuota(s), NEW v,
           WithinQuota(slots)
    PROVE  WithinQuota([slots EXCEPT ![s] = v])
<1> DEFINE g == [slots EXCEPT ![s] = v]
<1>1. \A t \in Slots : t # s => g[t] = slots[t]
  BY Zenon DEF MailboxTypes
<1> HIDE DEF g
<1>2. ASSUME NEW S \in SUBSET Slots, NEW T, T \subseteq S \cup {s},
             NEW m \in Nat, Cardinality(S) + 1 <= m
      PROVE  Cardinality(T) <= m
  <2>1. IsFiniteSet(S)
    BY Zenon, FS_Subset, MailboxAssumption
  <2>2. /\ IsFiniteSet(S \cup {s})
        /\ \/ Cardinality(S \cup {s}) = Cardinality(S)
           \/ Cardinality(S \cup {s}) = Cardinality(S) + 1
    BY Zenon, <2>1, FS_AddElement
  <2>3. IsFiniteSet(T) /\ Cardinality(T) <= Cardinality(S \cup {s})
    BY Zenon, <1>2, <2>2, FS_Subset
  <2>4. /\ Cardinality(S) \in Nat /\ Cardinality(T) \in Nat
        /\ Cardinality(S \cup {s}) \in Nat
    BY Zenon, <2>1, <2>2, <2>3, FS_CardinalityType
  <2> QED
    BY <1>2, <2>2, <2>3, <2>4
<1>3. Held(g) \subseteq Held(slots) \cup {s} /\ Held(slots) \subseteq Slots
  BY Zenon, <1>1 DEF Held
<1>4. Cardinality(Held(slots)) + 1 <= MaxMessages
  BY Zenon, QuotaIs DEF checkQuota
<1>5. Cardinality(Held(g)) <= MaxMessages
  BY Zenon, <1>2, <1>3, <1>4, MailboxAssumption
<1>6. ASSUME NEW t \in Slots PROVE Cardinality(Beside(g, t)) <= MaxMessagesPerBox
  <2>1. Beside(slots, t) \subseteq Slots
    BY Zenon DEF Beside
  <2>2. CASE BoxOf[t] = BoxOf[s]
    <3>1. Beside(g, t) \subseteq Beside(slots, t) \cup {s}
      BY Zenon, <1>1 DEF Beside
    <3>2. Beside(slots, t) = Beside(slots, s)
      BY Zenon, <2>2 DEF Beside
    <3>3. Cardinality(Beside(slots, t)) + 1 <= MaxMessagesPerBox
      BY Zenon, <3>2 DEF checkQuota, Beside
    <3> QED
      BY Zenon, <1>2, <2>1, <3>1, <3>3, MailboxAssumption
  <2>3. CASE BoxOf[t] # BoxOf[s]
    <3>1. Beside(g, t) = Beside(slots, t)
      BY Zenon, <1>1, <2>3 DEF Beside
    <3> QED
      BY Zenon, <3>1 DEF WithinQuota
  <2> QED
    BY Zenon, <2>2, <2>3
<1>7. WithinQuota(g)
  BY Zenon, <1>5, <1>6 DEF WithinQuota
<1> QED
  BY Zenon, <1>7 DEF g

-----------------------------------------------------------------------------
(* Claims *)

\* The claim of a request that is still valid stays.
ClaimsStay ==
    /\ relayClock <= relayClock'
    /\ relayClock' \in Nat
    /\ \A r \in AccessRequests :
          claims'[r] # Missing \/ claims[r] = Missing \/ RequestExpiry[r] <= relayClock

\* A step in which no request is claimed for good or performed.
LEMMA ClaimQuiet ==
    ASSUME MailboxTypes, ClaimedFirst, ClaimsStay, acts' = acts,
           \A c \in Connections : call'[c] = call[c] \/ call'[c].step # "act"
    PROVE  ClaimedFirst'
<1> SUFFICES ASSUME NEW r \in AccessRequests, relayClock' < RequestExpiry[r]
             PROVE  /\ acts'[r] <= 1
                    /\ acts'[r] = 1 => claims'[r] # Missing
                    /\ \A c \in Connections :
                          Performs(c, r)' => claims'[r] # Missing /\ acts'[r] = 0
                    /\ \A c, d \in Connections :
                          Performs(c, r)' /\ Performs(d, r)' => c = d
  BY Zenon DEF ClaimedFirst
<1>1. relayClock < RequestExpiry[r]
  BY MailboxAssumption DEF MailboxTypes, ClaimsStay
<1>2. claims[r] # Missing => claims'[r] # Missing
  BY <1>1, MailboxAssumption DEF MailboxTypes, ClaimsStay
<1>3. \A c \in Connections : Performs(c, r)' => Performs(c, r)
  BY Zenon DEF Performs
<1> QED
  BY Zenon, <1>1, <1>2, <1>3 DEF ClaimedFirst

\* A connection claims a request whose claim was missing.
LEMMA ClaimTaken ==
    ASSUME MailboxTypes, ClaimedFirst, ClaimsStay, acts' = acts,
           relayClock' = relayClock, NEW c \in Connections,
           NEW r \in AccessRequests, call[c].request = r,
           relayClock < RequestExpiry[r] => claims[r] = Missing,
           claims'[r] # Missing,
           call' = [call EXCEPT ![c].step = "act"],
           call[c] \in HeldRequests
    PROVE  ClaimedFirst'
<1>1. /\ call'[c].request = r
      /\ \A d \in Connections \ {c} : call'[d] = call[d]
  BY Zenon DEF MailboxTypes, HeldRequests
<1> SUFFICES ASSUME NEW q \in AccessRequests, relayClock < RequestExpiry[q]
             PROVE  /\ acts'[q] <= 1
                    /\ acts'[q] = 1 => claims'[q] # Missing
                    /\ \A d \in Connections :
                          Performs(d, q)' => claims'[q] # Missing /\ acts'[q] = 0
                    /\ \A d, e \in Connections :
                          Performs(d, q)' /\ Performs(e, q)' => d = e
  BY Zenon DEF ClaimedFirst
<1>2. claims[q] # Missing => claims'[q] # Missing
  BY MailboxAssumption DEF MailboxTypes, ClaimsStay
<1>3. CASE q # r
  <2>1. \A d \in Connections : Performs(d, q)' => Performs(d, q)
    BY Zenon, <1>1, <1>3 DEF Performs
  <2> QED
    BY Zenon, <1>2, <2>1 DEF ClaimedFirst
<1>4. CASE q = r
  <2>1. acts[q] = 0 /\ \A d \in Connections : ~Performs(d, q)
    BY <1>4 DEF ClaimedFirst, MailboxTypes
  <2>2. \A d \in Connections : Performs(d, q)' => d = c
    BY Zenon, <1>1, <2>1 DEF Performs
  <2> QED
    BY <1>4, <2>1, <2>2
<1> QED
  BY Zenon, <1>3, <1>4

\* A connection performs its request and answers.
LEMMA ClaimUsed ==
    ASSUME MailboxTypes, ClaimedFirst, NEW c \in Connections,
           call[c].step = "act", Acted(c)
    PROVE  ClaimedFirst' /\ ClaimsStay
<1>1. PICK r \in AccessRequests : r = call[c].request
  BY Zenon, BusyCall
<1>2. /\ acts' = [acts EXCEPT ![r] = @ + 1]
      /\ call' = [call EXCEPT ![c] = NoRequest]
      /\ claims' = claims /\ relayClock' = relayClock
  BY Zenon, <1>1 DEF Acted, Hang
<1>3. /\ acts'[r] = acts[r] + 1 /\ acts[r] \in Nat
      /\ \A q \in AccessRequests \ {r} : acts'[q] = acts[q]
      /\ call'[c].step = "none"
      /\ \A d \in Connections \ {c} : call'[d] = call[d]
  BY Zenon, <1>2, NoRequestFields DEF MailboxTypes
<1>4. ClaimsStay
  BY <1>2, MailboxAssumption DEF ClaimsStay, MailboxTypes
<1>5. ASSUME NEW q \in AccessRequests, relayClock < RequestExpiry[q]
      PROVE  /\ acts'[q] <= 1
             /\ acts'[q] = 1 => claims'[q] # Missing
             /\ \A d \in Connections :
                   Performs(d, q)' => claims'[q] # Missing /\ acts'[q] = 0
             /\ \A d, e \in Connections :
                   Performs(d, q)' /\ Performs(e, q)' => d = e
  <2>1. \A d \in Connections : Performs(d, q)' => Performs(d, q) /\ d # c
    BY Zenon, <1>3 DEF Performs
  <2>2. CASE q # r
    BY Zenon, <1>2, <1>3, <1>5, <2>1, <2>2 DEF ClaimedFirst
  <2>3. CASE q = r
    <3>1. Performs(c, q)
      BY Zenon, <1>1, <2>3 DEF Performs
    <3>2. acts[q] = 0 /\ claims[q] # Missing
      BY Zenon, <1>5, <3>1 DEF ClaimedFirst
    <3>3. \A d \in Connections : ~Performs(d, q)'
      BY Zenon, <1>5, <2>1, <3>1 DEF ClaimedFirst
    <3> QED
      BY <1>2, <1>3, <2>3, <3>2, <3>3
  <2> QED
    BY Zenon, <2>2, <2>3
<1>6. ClaimedFirst'
  BY Zenon, <1>2, <1>5 DEF ClaimedFirst
<1> QED
  BY Zenon, <1>4, <1>6

-----------------------------------------------------------------------------
(* Steps *)

\* A call hangs up or is given up.
LEMMA HangFields ==
    ASSUME MailboxTypes, NEW c \in Connections, Hang(c)
    PROVE  /\ call' \in [Connections -> {NoRequest} \cup HeldRequests]
           /\ call'[c] = NoRequest
           /\ \A d \in Connections \ {c} : call'[d] = call[d]
           /\ \A d \in Connections : call'[d] = call[d] \/ call'[d].step # "act"
BY Zenon, NoRequestFields DEF Hang, MailboxTypes

LEMMA AuthorizeStep ==
    ASSUME MailboxInv, NEW c \in Connections, NEW r \in AccessRequests,
           Authorize(c, r)
    PROVE  MailboxInv'
<1> DEFINE new == [step |-> "claim", request |-> r, now |-> relayClock]
<1>1. MailboxTypes /\ relayClock \in Nat
  BY Zenon DEF MailboxInv, MailboxTypes
<1>2. /\ slots' = slots /\ claims' = claims /\ relayClock' = relayClock
      /\ acked' = acked /\ acts' = acts
      /\ call' = [call EXCEPT ![c] = new]
  BY Zenon DEF Authorize
<1>3. new \in HeldRequests /\ new.now = relayClock /\ new.step = "claim"
  BY Zenon, <1>1 DEF HeldRequests
<1>4. call'[c] = new /\ \A d \in Connections \ {c} : call'[d] = call[d]
  BY Zenon, <1>1, <1>2 DEF MailboxTypes
<1> HIDE DEF new
<1>5. call' \in [Connections -> {NoRequest} \cup HeldRequests]
  BY Zenon, <1>1, <1>2, <1>3 DEF MailboxTypes
<1>6. MailboxTypes'
  BY Zenon, <1>1, <1>2, <1>5 DEF MailboxTypes
<1>7. \A d \in Connections : call'[d].now <= relayClock'
  BY <1>1, <1>2, <1>3, <1>4 DEF MailboxInv
<1>8. AckedIsKept' /\ RelayWithinQuota'
  BY Zenon, <1>2 DEF MailboxInv, AckedIsKept, RelayWithinQuota, Count
<1>9. ClaimedFirst'
  <2>1. ClaimsStay
    BY <1>1, <1>2, MailboxAssumption DEF ClaimsStay
  <2>2. \A d \in Connections : call'[d] = call[d] \/ call'[d].step # "act"
    BY Zenon, <1>3, <1>4
  <2> QED
    BY Zenon, <1>1, <1>2, <2>1, <2>2, ClaimQuiet DEF MailboxInv
<1> QED
  BY Zenon, <1>6, <1>7, <1>8, <1>9 DEF MailboxInv

\* What LiveClaims removes is expired.
LEMMA LiveClaimsStay ==
    ASSUME MailboxTypes, NEW now \in Nat, now <= relayClock
    PROVE  /\ LiveClaims(now) \in [AccessRequests -> {Missing, Torn, "claimed"}]
           /\ \A r \in AccessRequests :
                \/ LiveClaims(now)[r] = claims[r]
                \/ LiveClaims(now)[r] = Missing /\ RequestExpiry[r] <= relayClock
BY MailboxAssumption DEF LiveClaims, MailboxTypes

LEMMA ClaimStep ==
    ASSUME MailboxInv, NEW c \in Connections, claimAccess(c)
    PROVE  MailboxInv'
<1> DEFINE live == LiveClaims(call[c].now)
<1>1. MailboxTypes /\ relayClock \in Nat
  BY Zenon DEF MailboxInv, MailboxTypes
<1>2. /\ call[c] \in HeldRequests /\ call[c].request \in AccessRequests
      /\ call[c].now \in Nat /\ call[c].now <= relayClock
  BY Zenon, <1>1, BusyCall DEF claimAccess, MailboxInv
<1>3. PICK r \in AccessRequests : r = call[c].request
  BY Zenon, <1>2
<1>4. /\ slots' = slots /\ relayClock' = relayClock
      /\ acked' = acked /\ acts' = acts
  BY Zenon DEF claimAccess
<1>5. /\ live \in [AccessRequests -> {Missing, Torn, "claimed"}]
      /\ \A q \in AccessRequests :
            \/ live[q] = claims[q]
            \/ live[q] = Missing /\ RequestExpiry[q] <= relayClock
  BY Zenon, <1>1, <1>2, LiveClaimsStay
<1>6. AckedIsKept' /\ RelayWithinQuota'
  BY Zenon, <1>4 DEF MailboxInv, AckedIsKept, RelayWithinQuota, Count
<1>7. ASSUME claims' \in [AccessRequests -> {Missing, Torn, "claimed"}],
             call' \in [Connections -> {NoRequest} \cup HeldRequests],
             \A d \in Connections : call'[d].now <= relayClock,
             ClaimedFirst'
      PROVE  MailboxInv'
  BY Zenon, <1>1, <1>4, <1>6, <1>7 DEF MailboxInv, MailboxTypes
<1> HIDE DEF live
<1>8. ASSUME Hang(c), claims' \in [AccessRequests -> {Missing, Torn, "claimed"}],
             \A q \in AccessRequests : \/ claims'[q] # Missing
                                       \/ claims[q] = Missing
                                       \/ RequestExpiry[q] <= relayClock
      PROVE  MailboxInv'
  <2>1. /\ call' \in [Connections -> {NoRequest} \cup HeldRequests]
        /\ call'[c] = NoRequest
        /\ \A d \in Connections \ {c} : call'[d] = call[d]
        /\ \A d \in Connections : call'[d] = call[d] \/ call'[d].step # "act"
    BY Zenon, <1>1, <1>8, HangFields
  <2>2. \A d \in Connections : call'[d].now <= relayClock
    BY <1>1, <2>1, NoRequestFields DEF MailboxInv
  <2>3. ClaimsStay
    BY <1>1, <1>4, <1>8 DEF ClaimsStay
  <2>4. ClaimedFirst'
    BY Zenon, <1>1, <1>4, <2>1, <2>3, ClaimQuiet DEF MailboxInv
  <2> QED
    BY Zenon, <1>7, <1>8, <2>1, <2>2, <2>4
<1>9. CASE /\ Hang(c)
           /\ \E kept \in SUBSET AccessRequests :
                 claims' = [q \in AccessRequests |->
                              IF q \in kept \/ claims[q] = Torn THEN claims[q] ELSE live[q]]
  <2>1. claims' \in [AccessRequests -> {Missing, Torn, "claimed"}]
    BY Zenon, <1>1, <1>5, <1>9 DEF MailboxTypes
  <2>2. \A q \in AccessRequests : claims'[q] \in {claims[q], live[q]}
    BY Zenon, <1>9
  <2> QED
    BY Zenon, <1>5, <1>8, <1>9, <2>1, <2>2
<1>10. CASE claims' = live /\ Hang(c)
  BY Zenon, <1>5, <1>8, <1>10
<1>11. CASE /\ Hang(c) /\ live[r] = Missing
            /\ \E left \in {Missing, Torn, "claimed"} : claims' = [live EXCEPT ![r] = left]
  <2>1. claims' \in [AccessRequests -> {Missing, Torn, "claimed"}]
    BY Zenon, <1>5, <1>11
  <2>2. \A q \in AccessRequests \ {r} : claims'[q] = live[q]
    BY Zenon, <1>5, <1>11
  <2>3. claims[r] = Missing \/ RequestExpiry[r] <= relayClock
    BY Zenon, <1>5, <1>11
  <2> QED
    BY Zenon, <1>5, <1>8, <1>11, <2>1, <2>2, <2>3
<1>12. CASE /\ live[r] = Missing
            /\ claims' = [live EXCEPT ![r] = "claimed"]
            /\ call' = [call EXCEPT ![c].step = "act"]
  <2>1. claims' \in [AccessRequests -> {Missing, Torn, "claimed"}]
    BY Zenon, <1>5, <1>12
  <2>2. /\ claims'[r] = "claimed"
        /\ \A q \in AccessRequests \ {r} : claims'[q] = live[q]
    BY Zenon, <1>5, <1>12
  <2>3. ClaimsStay
    BY <1>1, <1>4, <1>5, <2>2, MailboxAssumption DEF ClaimsStay
  <2>4. relayClock < RequestExpiry[r] => claims[r] = Missing
    <3>1. RequestExpiry[r] \in Nat
      BY Zenon, MailboxAssumption
    <3>2. claims[r] = Missing \/ RequestExpiry[r] <= relayClock
      BY Zenon, <1>5, <1>12
    <3> QED
      BY <1>1, <3>1, <3>2
  <2>5. [call[c] EXCEPT !.step = "act"] \in HeldRequests
        /\ [call[c] EXCEPT !.step = "act"].now = call[c].now
    BY Zenon, <1>2 DEF HeldRequests
  <2>6. /\ call'[c] = [call[c] EXCEPT !.step = "act"]
        /\ \A d \in Connections \ {c} : call'[d] = call[d]
    BY Zenon, <1>1, <1>12 DEF MailboxTypes
  <2>7. call' \in [Connections -> {NoRequest} \cup HeldRequests]
    BY Zenon, <1>1, <1>12, <2>5 DEF MailboxTypes
  <2>8. \A d \in Connections : call'[d].now <= relayClock
    BY Zenon, <2>5, <2>6 DEF MailboxInv
  <2>9. ClaimedFirst'
    BY Zenon, <1>1, <1>2, <1>3, <1>4, <1>12, <2>2, <2>3, <2>4, ClaimTaken,
       MailboxAssumption DEF MailboxInv
  <2> QED
    BY Zenon, <1>7, <2>1, <2>7, <2>8, <2>9
<1> QED
  BY Zenon, <1>3, <1>9, <1>10, <1>11, <1>12 DEF claimAccess, live

\* Whatever the second half of a request does to the store, the calls and the
\* claims are in order.
LEMMA ActStep ==
    ASSUME MailboxInv, NEW c \in Connections, call[c].step = "act", Acted(c),
           slots' \in [Slots -> {Missing, Torn} \cup Deposits],
           acked' \in SUBSET (Slots \X Contents),
           AckedIsKept', WithinQuota(slots')
    PROVE  MailboxInv'
<1>1. MailboxTypes /\ relayClock \in Nat
  BY Zenon DEF MailboxInv, MailboxTypes
<1>2. /\ call' \in [Connections -> {NoRequest} \cup HeldRequests]
      /\ call'[c] = NoRequest
      /\ \A d \in Connections \ {c} : call'[d] = call[d]
  BY Zenon, <1>1, HangFields DEF Acted
<1>3. claims' = claims /\ relayClock' = relayClock
  BY Zenon DEF Acted
<1>4. \A d \in Connections : call'[d].now <= relayClock'
  BY <1>1, <1>2, <1>3, NoRequestFields DEF MailboxInv
<1>5. acts' \in [AccessRequests -> Nat]
  <2>1. call[c].request \in AccessRequests
    BY Zenon, <1>1, BusyCall
  <2>2. acts' = [acts EXCEPT ![call[c].request] = @ + 1]
    BY Zenon DEF Acted
  <2> QED
    BY <1>1, <2>1, <2>2 DEF MailboxTypes
<1>6. MailboxTypes'
  BY Zenon, <1>1, <1>2, <1>3, <1>5 DEF MailboxTypes
<1>7. RelayWithinQuota'
  BY Zenon, <1>6 DEF MailboxTypes, RelayWithinQuota, WithinQuota, Count, Held, Beside
<1>8. ClaimedFirst'
  BY Zenon, <1>1, ClaimUsed DEF MailboxInv
<1> QED
  BY Zenon, <1>4, <1>6, <1>7, <1>8 DEF MailboxInv

\* Filling a slot that is missing touches nothing that was acknowledged.
LEMMA FillKeeps ==
    ASSUME MailboxInv, NEW s \in Slots, slots[s] = Missing,
           NEW left \in {Missing, Torn} \cup Deposits, checkQuota(s),
           slots' = [slots EXCEPT ![s] = left]
    PROVE  /\ slots' \in [Slots -> {Missing, Torn} \cup Deposits]
           /\ WithinQuota(slots')
           /\ slots'[s] = left
           /\ \A a \in acked : /\ slots'[a[1]] \notin {Missing, Torn}
                               /\ slots'[a[1]].content = a[2]
<1>1. MailboxTypes
  BY Zenon DEF MailboxInv
<1>2. slots' \in [Slots -> {Missing, Torn} \cup Deposits] /\ slots'[s] = left
  BY Zenon, <1>1 DEF MailboxTypes
<1>3. WithinQuota(slots')
  BY Zenon, <1>1, QuotaIs, OneMoreFits DEF MailboxInv
<1>4. ASSUME NEW a \in acked PROVE slots'[a[1]] = slots[a[1]]
  <2>1. a[1] \in Slots
    BY Zenon, <1>1 DEF MailboxTypes
  <2>2. a[1] # s
    BY Zenon DEF MailboxInv, AckedIsKept
  <2> QED
    BY Zenon, <1>1, <2>1, <2>2 DEF MailboxTypes
<1> QED
  BY Zenon, <1>2, <1>3, <1>4 DEF MailboxInv, AckedIsKept

LEMMA RefusedKeeps ==
    ASSUME MailboxInv, slots' = slots, acked' = acked
    PROVE  /\ slots' \in [Slots -> {Missing, Torn} \cup Deposits]
           /\ acked' \in SUBSET (Slots \X Contents)
           /\ AckedIsKept' /\ WithinQuota(slots')
BY Zenon, QuotaIs DEF MailboxInv, MailboxTypes, AckedIsKept

LEMMA PutStep ==
    ASSUME MailboxInv, NEW c \in Connections, Put(c)
    PROVE  MailboxInv'
<1>0. MailboxTypes /\ call[c].step = "act" /\ Acted(c)
  BY Zenon DEF MailboxInv, Put, Acting
<1>1. PICK s \in Slots, k \in Contents, n \in Nat :
         /\ s = Access[call[c].request].slot
         /\ k = Access[call[c].request].content
         /\ n = call[c].now
  BY Zenon, <1>0, BusyCall
<1> DEFINE new == [content |-> k, storedAt |-> n]
<1>2. new \in Deposits /\ new.content = k /\ new \notin {Missing, Torn}
  BY MailboxAssumption DEF Deposits
<1>3. CASE slots' = slots /\ acked' = acked
  BY Zenon, <1>0, <1>3, RefusedKeeps, ActStep
<1>4. ASSUME slots[s] = Missing, checkQuota(s),
             slots' = [slots EXCEPT ![s] = new], SignAck(s, k)
      PROVE  MailboxInv'
  <2>1. /\ slots' \in [Slots -> {Missing, Torn} \cup Deposits]
        /\ WithinQuota(slots')
        /\ slots'[s] = new
        /\ \A a \in acked : /\ slots'[a[1]] \notin {Missing, Torn}
                            /\ slots'[a[1]].content = a[2]
    BY Zenon, <1>2, <1>4, FillKeeps
  <2>2. acked' = acked \cup {<<s, k>>}
    BY Zenon, <1>4 DEF SignAck
  <2>3. acked' \in SUBSET (Slots \X Contents)
    BY <1>0, <2>2 DEF MailboxTypes
  <2> HIDE DEF new
  <2>4. AckedIsKept'
    BY <1>2, <2>1, <2>2 DEF AckedIsKept
  <2> QED
    BY Zenon, <1>0, <2>1, <2>3, <2>4, ActStep
<1>5. ASSUME slots[s] = Missing, checkQuota(s), acked' = acked,
             NEW left \in {Missing, Torn, new}, slots' = [slots EXCEPT ![s] = left]
      PROVE  MailboxInv'
  <2>1. left \in {Missing, Torn} \cup Deposits
    BY Zenon, <1>2
  <2>2. /\ slots' \in [Slots -> {Missing, Torn} \cup Deposits]
        /\ WithinQuota(slots')
        /\ \A a \in acked : /\ slots'[a[1]] \notin {Missing, Torn}
                            /\ slots'[a[1]].content = a[2]
    BY Zenon, <1>5, <2>1, FillKeeps
  <2>3. acked' \in SUBSET (Slots \X Contents)
    BY Zenon, <1>0, <1>5 DEF MailboxTypes
  <2>4. AckedIsKept'
    BY Zenon, <1>5, <2>2 DEF AckedIsKept
  <2> QED
    BY Zenon, <1>0, <2>2, <2>3, <2>4, ActStep
<1>6. ASSUME slots[s] \notin {Missing, Torn}, slots[s].content = k,
             SignAck(s, k), slots' = slots
      PROVE  MailboxInv'
  <2>1. acked' = acked \cup {<<s, k>>}
    BY Zenon, <1>6 DEF SignAck
  <2>2. acked' \in SUBSET (Slots \X Contents)
    BY <1>0, <2>1 DEF MailboxTypes
  <2>3. AckedIsKept'
    BY <1>6, <2>1 DEF MailboxInv, AckedIsKept
  <2>4. slots' \in [Slots -> {Missing, Torn} \cup Deposits] /\ WithinQuota(slots')
    BY Zenon, <1>0, <1>6, QuotaIs DEF MailboxInv, MailboxTypes
  <2> QED
    BY Zenon, <1>0, <2>2, <2>3, <2>4, ActStep
<1> QED
  BY ZenonT(40), <1>1, <1>3, <1>4, <1>5, <1>6 DEF Put, Refused

\* Slots are emptied, and what was acknowledged for them is released.
LEMMA ReleaseKeeps ==
    ASSUME MailboxInv, NEW gone \in SUBSET Slots,
           slots' = [s \in Slots |-> IF s \in gone THEN Missing ELSE slots[s]],
           acked' = {a \in acked : a[1] \notin gone}
    PROVE  /\ slots' \in [Slots -> {Missing, Torn} \cup Deposits]
           /\ acked' \in SUBSET (Slots \X Contents)
           /\ AckedIsKept' /\ WithinQuota(slots')
<1>1. MailboxTypes
  BY Zenon DEF MailboxInv
<1>2. slots' \in [Slots -> {Missing, Torn} \cup Deposits]
      /\ acked' \in SUBSET (Slots \X Contents)
  BY Zenon, <1>1 DEF MailboxTypes
<1>3. WithinQuota(slots')
  <2>1. WithinQuota(slots)
    BY Zenon, <1>1, QuotaIs DEF MailboxInv
  <2>2. \A s \in Slots : slots'[s] # Missing => slots[s] # Missing
    BY Zenon
  <2> QED
    BY Zenon, <2>1, <2>2, FewerFit
<1>4. AckedIsKept'
  <2>1. ASSUME NEW a \in acked'
        PROVE  slots'[a[1]] \notin {Missing, Torn} /\ slots'[a[1]].content = a[2]
    <3>1. a \in acked /\ a[1] \notin gone /\ a[1] \in Slots
      BY Zenon, <1>1 DEF MailboxTypes
    <3>2. slots'[a[1]] = slots[a[1]]
      BY Zenon, <3>1
    <3> QED
      BY Zenon, <3>1, <3>2 DEF MailboxInv, AckedIsKept
  <2> QED
    BY Zenon, <2>1 DEF AckedIsKept
<1> QED
  BY Zenon, <1>2, <1>3, <1>4

LEMMA DeleteStep ==
    ASSUME MailboxInv, NEW c \in Connections, Delete(c)
    PROVE  MailboxInv'
<1>0. MailboxTypes /\ call[c].step = "act" /\ Acted(c)
  BY Zenon DEF MailboxInv, Delete, Acting
<1>1. PICK s \in Slots : s = Access[call[c].request].slot
  BY Zenon, <1>0, BusyCall
<1>2. CASE slots' = slots /\ acked' = acked
  BY Zenon, <1>0, <1>2, RefusedKeeps, ActStep
<1>3. CASE slots' = [slots EXCEPT ![s] = Missing] /\ SlotReleased(s)
  <2>1. slots' = [t \in Slots |-> IF t \in {s} THEN Missing ELSE slots[t]]
    BY Zenon, <1>0, <1>3 DEF MailboxTypes
  <2>2. acked' = {a \in acked : a[1] \notin {s}}
    BY Zenon, <1>3 DEF SlotReleased
  <2> QED
    BY Zenon, <1>0, <2>1, <2>2, ReleaseKeeps, ActStep
<1> QED
  BY Zenon, <1>1, <1>2, <1>3 DEF Delete, Refused

\* A step that claims and performs nothing.
LEMMA RelayIdleStep ==
    ASSUME MailboxInv, relayClock' \in Nat, relayClock <= relayClock',
           acts' = acts, claims' \in [AccessRequests -> {Missing, Torn, "claimed"}],
           \A r \in AccessRequests : claims'[r] = claims[r] \/ claims'[r] # Missing,
           call' = call \/ call' = [c \in Connections |-> NoRequest],
           slots' \in [Slots -> {Missing, Torn} \cup Deposits],
           acked' \in SUBSET (Slots \X Contents),
           AckedIsKept', WithinQuota(slots')
    PROVE  MailboxInv'
<1>1. MailboxTypes /\ relayClock \in Nat
  BY Zenon DEF MailboxInv, MailboxTypes
<1>2. \A c \in Connections : call'[c] = call[c] \/ call'[c] = NoRequest
  BY Zenon
<1>3. MailboxTypes'
  BY Zenon, <1>1 DEF MailboxTypes
<1>4. \A c \in Connections : call'[c].now <= relayClock'
  <2> TAKE c \in Connections
  <2>1. call[c].now \in Nat /\ call[c].now <= relayClock
    BY <1>1, NoRequestFields DEF MailboxInv, MailboxTypes, HeldRequests
  <2> QED
    BY <1>1, <1>2, <2>1, NoRequestFields
<1>5. RelayWithinQuota'
  BY Zenon, <1>3 DEF MailboxTypes, RelayWithinQuota, WithinQuota, Count, Held, Beside
<1>6. ClaimedFirst'
  <2>1. ClaimsStay
    BY Zenon DEF ClaimsStay
  <2>2. \A c \in Connections : call'[c] = call[c] \/ call'[c].step # "act"
    BY Zenon, <1>2, NoRequestFields
  <2> QED
    BY Zenon, <1>1, <2>1, <2>2, ClaimQuiet DEF MailboxInv
<1> QED
  BY Zenon, <1>3, <1>4, <1>5, <1>6 DEF MailboxInv

LEMMA RelayCrashStep ==
    ASSUME MailboxInv, RelayCrash
    PROVE  MailboxInv'
<1>0. MailboxTypes /\ relayClock \in Nat
  BY SMTT(40) DEF MailboxInv, MailboxTypes
<1>1. /\ call' = [c \in Connections |-> NoRequest]
      /\ relayClock' = relayClock /\ acked' = acked /\ acts' = acts
  BY Zenon DEF RelayCrash
<1>2. CASE slots' = slots /\ claims' = claims
  BY <1>0, <1>1, <1>2, RefusedKeeps, RelayIdleStep DEF MailboxTypes
<1>3. ASSUME NEW c \in Connections, call[c].step = "claim",
             claims[call[c].request] = Missing, slots' = slots,
             NEW left \in {Torn, "claimed"},
             claims' = [claims EXCEPT ![call[c].request] = left]
      PROVE  MailboxInv'
  <2>1. claims' \in [AccessRequests -> {Missing, Torn, "claimed"}]
    BY ZenonT(40), <1>0, <1>3 DEF MailboxTypes
  <2>2. \A r \in AccessRequests : claims'[r] = claims[r] \/ claims'[r] # Missing
    BY Zenon, <1>0, <1>3, MailboxAssumption DEF MailboxTypes
  <2> QED
    BY <1>0, <1>1, <1>3, <2>1, <2>2, RefusedKeeps, RelayIdleStep
<1>4. ASSUME NEW c \in Connections, Acting(c, "deposit"), claims' = claims,
             slots[Access[call[c].request].slot] = Missing,
             checkQuota(Access[call[c].request].slot),
             NEW left \in {Torn, [content |-> Access[call[c].request].content,
                                  storedAt |-> call[c].now]},
             slots' = [slots EXCEPT ![Access[call[c].request].slot] = left]
      PROVE  MailboxInv'
  <2>1. PICK s \in Slots, k \in Contents, n \in Nat :
           /\ s = Access[call[c].request].slot
           /\ k = Access[call[c].request].content
           /\ n = call[c].now
    BY Zenon, <1>0, <1>4, BusyCall DEF Acting
  <2>2. left \in {Missing, Torn} \cup Deposits
    BY <1>4, <2>1 DEF Deposits
  <2>3. /\ slots' \in [Slots -> {Missing, Torn} \cup Deposits]
        /\ WithinQuota(slots')
        /\ \A a \in acked : /\ slots'[a[1]] \notin {Missing, Torn}
                            /\ slots'[a[1]].content = a[2]
    BY Zenon, <1>4, <2>1, <2>2, FillKeeps
  <2>4. AckedIsKept' /\ acked' \in SUBSET (Slots \X Contents)
    BY Zenon, <1>0, <1>1, <2>3 DEF AckedIsKept, MailboxTypes
  <2> QED
    BY <1>0, <1>1, <1>4, <2>3, <2>4, RelayIdleStep DEF MailboxTypes
<1> QED
  BY Zenon, <1>2, <1>3, <1>4 DEF RelayCrash

LEMMA MailboxInitially == MailboxInit => MailboxInv
<1> SUFFICES ASSUME MailboxInit PROVE MailboxInv
  BY Zenon
<1>1. MailboxTypes
  BY Zenon DEF MailboxInit, MailboxTypes
<1>2. \A c \in Connections : call[c] = NoRequest
  BY Zenon DEF MailboxInit
<1>3. \A c \in Connections : call[c].now <= relayClock
  BY <1>2, NoRequestFields DEF MailboxInit
<1>4. AckedIsKept
  BY Zenon DEF MailboxInit, AckedIsKept
<1>5. ClaimedFirst
  BY <1>2, NoRequestFields DEF MailboxInit, ClaimedFirst, Performs
<1>6. RelayWithinQuota
  <2>1. Held(slots) = {} /\ \A s \in Slots : Beside(slots, s) = {}
    BY Zenon DEF MailboxInit, Held, Beside
  <2>2. Cardinality({}) = 0
    BY Zenon, FS_EmptySet
  <2>3. WithinQuota(slots)
    BY SMTT(40), <2>1, <2>2, MailboxAssumption DEF WithinQuota
  <2> QED
    BY Zenon, <1>1, <2>3, QuotaIs
<1> QED
  BY Zenon, <1>1, <1>3, <1>4, <1>5, <1>6 DEF MailboxInv

LEMMA MailboxStep == MailboxInv /\ [MailboxNext]_mailboxVars => MailboxInv'
<1> SUFFICES ASSUME MailboxInv, [MailboxNext]_mailboxVars PROVE MailboxInv'
  BY Zenon
<1>0. MailboxTypes /\ relayClock \in Nat
  BY Zenon DEF MailboxInv, MailboxTypes
<1>1. ASSUME NEW c \in Connections, List(c) PROVE MailboxInv'
  <2>1. call[c].step = "act" /\ Acted(c) /\ slots' = slots /\ acked' = acked
    BY Zenon, <1>1 DEF List, Acting, Refused
  <2> QED
    BY Zenon, <2>1, RefusedKeeps, ActStep
<1>2. CASE Sweep
  <2>1. PICK gone \in SUBSET Slots :
           /\ slots' = [s \in Slots |-> IF s \in gone THEN Missing ELSE slots[s]]
           /\ acked' = {a \in acked : a[1] \notin gone}
    BY Zenon, <1>2 DEF Sweep
  <2>2. claims' = claims /\ call' = call /\ relayClock' = relayClock /\ acts' = acts
    BY Zenon, <1>2 DEF Sweep
  <2> QED
    BY <1>0, <2>1, <2>2, ReleaseKeeps, RelayIdleStep DEF MailboxTypes
<1>3. CASE RelayTick
  <2>1. /\ slots' = slots /\ claims' = claims /\ call' = call
        /\ acked' = acked /\ acts' = acts /\ relayClock' = relayClock + 1
    BY Zenon, <1>3 DEF RelayTick
  <2> QED
    BY <1>0, <2>1, RefusedKeeps, RelayIdleStep DEF MailboxTypes
<1>4. CASE UNCHANGED mailboxVars
  <2>1. /\ slots' = slots /\ claims' = claims /\ call' = call
        /\ acked' = acked /\ acts' = acts /\ relayClock' = relayClock
    BY Zenon, <1>4 DEF mailboxVars
  <2> QED
    BY <1>0, <2>1, RefusedKeeps, RelayIdleStep DEF MailboxTypes
<1> QED
  BY Zenon, <1>1, <1>2, <1>3, <1>4, AuthorizeStep, ClaimStep, PutStep, DeleteStep,
     RelayCrashStep DEF MailboxNext

\* For every set of slots, requests and connections: what a StoredAck was signed
\* for stays in its box until it is deleted by its digest or swept, a request
\* that is still valid was performed at most once, and no quota is exceeded,
\* however the connections interleave between claim and operation, whichever
\* writes fail and wherever the relay stops.
THEOREM DepositsKept == MailboxSpec => []RelayKeepsDeposits
<1>1. MailboxInv => RelayKeepsDeposits
  <2> SUFFICES ASSUME MailboxInv PROVE RelayKeepsDeposits
    BY Zenon
  <2>1. RequestActsOnce
    <3> SUFFICES ASSUME NEW r \in AccessRequests, acts[r] > 1
                 PROVE  relayClock >= RequestExpiry[r]
      BY Zenon DEF RequestActsOnce
    <3>1. relayClock \in Nat /\ RequestExpiry[r] \in Nat /\ acts[r] \in Nat
      BY Zenon, MailboxAssumption DEF MailboxInv, MailboxTypes
    <3>2. relayClock < RequestExpiry[r] => acts[r] <= 1
      BY Zenon DEF MailboxInv, ClaimedFirst
    <3> QED
      BY <3>1, <3>2
  <2> QED
    BY Zenon, <2>1 DEF MailboxInv, RelayKeepsDeposits
<1> QED
  BY <1>1, MailboxInitially, MailboxStep, PTL DEF MailboxSpec

-----------------------------------------------------------------------------
(***************************************************************************)
(* Decisions of the owner. For any number of connections, decisions,       *)
(* challenges, files and starts of the daemon: a decision takes effect as  *)
(* it was signed, once, in time, and nothing but the owner's signature or  *)
(* the clock ends a challenge.                                             *)
(*                                                                         *)
(* A challenge is in one place at a time: standing, with the one call that *)
(* spent it, or behind the one entry of the journal it led to (OnePlace).  *)
(* DecidedAsSigned speaks of the journal alone and is not inductive.       *)
(***************************************************************************)

(***************************************************************************)
(* The inductive invariant.                                                *)
(***************************************************************************)

DecisionRequests == [decision : Decisions, challenge : Nat]
MaybeSigned == DecisionRequests \cup {Unsigned}
ServedCalls == [at : {"challenge", "decide", "carry"}, now : Nat,
                request : MaybeSigned, signature : MaybeSigned]

\* What was drawn, prepared, signed and written down is of its kind.
Kinds ==
    /\ drawn \in Seq([deadline : Nat, life : Nat])
    /\ journal \in Seq(DecisionRequests)
    /\ prepared \subseteq DecisionRequests
    /\ authorised \subseteq [decision : Decisions, challenge : Nat, now : Nat]
    /\ files \subseteq [request : DecisionRequests, bytes : DecisionRequests,
                        signature : MaybeSigned]
    /\ served \in [Callers -> ServedCalls \cup {Idle}]
    /\ ownerClock \in Nat /\ life \in Nat

\* Signed is what was prepared: a file's signing bytes are never edited.
SignedAsPrepared ==
    /\ signatures \subseteq prepared
    /\ \A f \in files : f.bytes \in prepared

\* Challenges are known by the number they were drawn under, and stand with the
\* deadline they were drawn with.
Numbered ==
    /\ DOMAIN issued \subseteq DOMAIN drawn
    /\ \A c \in DOMAIN issued : issued[c] = drawn[c].deadline
    /\ \A c \in DOMAIN drawn : drawn[c].life <= life
    /\ \A a \in authorised : a.challenge \in DOMAIN drawn /\ a.now < drawn[a.challenge].deadline

Carried(h) == served[h].request

OnePlace ==
    /\ \A h \in Callers : served[h].at = "carry" =>
          /\ Carried(h) \in signatures
          /\ Carried(h).challenge \in DOMAIN drawn \ DOMAIN issued
          /\ \A k \in Callers : served[k].at = "carry" /\ k # h =>
                Carried(k).challenge # Carried(h).challenge
          /\ \A i \in DOMAIN journal : journal[i].challenge # Carried(h).challenge
    /\ \A i \in DOMAIN journal :
          /\ journal[i] \in signatures
          /\ journal[i].challenge \in DOMAIN drawn \ DOMAIN issued
          /\ \A j \in DOMAIN journal : journal[j].challenge = journal[i].challenge => i = j

\* A call works with a time that has come, and a decision with a whole request.
InTime ==
    \A h \in Callers : served[h].at # "idle" =>
       /\ served[h].now <= ownerClock
       /\ served[h].at # "challenge" => served[h].request \in DecisionRequests

\* What is no longer standing ran out or was spent by the owner's signature.
Accounted ==
    \A c \in DOMAIN drawn :
       \/ drawn[c].life # life
       \/ drawn[c].deadline <= ownerClock
       \/ c \in DOMAIN issued
       \/ \E a \in authorised : a.challenge = c /\ Commits(a.decision, c) \in signatures

DecisionInv ==
    Kinds /\ SignedAsPrepared /\ Numbered /\ OnePlace /\ InTime /\ Accounted

(***************************************************************************)
(* One lemma for each action.                                              *)
(***************************************************************************)

LEMMA CallShape ==
    ASSUME NEW q \in ServedCalls \cup {Idle}, q.at # "idle"
    PROVE  q \in ServedCalls
  BY DEF Idle

\* A connection takes up a call, or ends one, and nothing else is touched.
LEMMA ServedStep ==
    ASSUME DecisionInv, NEW h \in Callers, NEW q \in ServedCalls \cup {Idle},
           served' = [served EXCEPT ![h] = q],
           q.at # "carry",
           q.at # "idle" => /\ q.now <= ownerClock
                            /\ q.at # "challenge" => q.request \in DecisionRequests,
           UNCHANGED <<issued, files, signatures, journal, ownerClock, drawn, prepared,
                       authorised, life>>
    PROVE  DecisionInv'
<1>0. served \in [Callers -> ServedCalls \cup {Idle}]
  BY Zenon DEF DecisionInv, Kinds
<1>1. served' \in [Callers -> ServedCalls \cup {Idle}]
  BY Zenon, <1>0
<1>2. served'[h] = q /\ \A k \in Callers : k # h => served'[k] = served[k]
  BY Zenon, <1>0
<1>3. Kinds'
  BY Zenon, <1>1 DEF DecisionInv, Kinds
<1>4. SignedAsPrepared' /\ Numbered' /\ Accounted'
  BY Zenon DEF DecisionInv, SignedAsPrepared, Numbered, Accounted
<1>5. OnePlace'
  BY <1>2 DEF DecisionInv, OnePlace, Carried
<1>6. InTime'
  BY Zenon, <1>2 DEF DecisionInv, InTime
<1> QED
  BY Zenon, <1>3, <1>4, <1>5, <1>6 DEF DecisionInv

LEMMA IdleStep ==
    ASSUME DecisionInv, NEW h \in Callers, served' = [served EXCEPT ![h] = Idle],
           UNCHANGED <<issued, files, signatures, journal, ownerClock, drawn, prepared,
                       authorised, life>>
    PROVE  DecisionInv'
<1>1. Idle \in ServedCalls \cup {Idle} /\ Idle.at = "idle"
  BY Zenon DEF Idle
<1> QED
  BY Zenon, <1>1, ServedStep

LEMMA HandleStep ==
    ASSUME DecisionInv, NEW h \in Callers, NEW op, NEW request \in MaybeSigned,
           NEW signature \in MaybeSigned, Handle(h, op, request, signature),
           op = "challenge" \/ (op = "decide" /\ request \in DecisionRequests)
    PROVE  DecisionInv'
<1> DEFINE q == [at |-> op, now |-> ownerClock, request |-> request, signature |-> signature]
<1>0. ownerClock \in Nat
  BY Zenon DEF DecisionInv, Kinds
<1>1. q \in ServedCalls /\ q.at = op /\ q.now = ownerClock /\ q.request = request
  BY Zenon, <1>0 DEF ServedCalls
<1>2. UNCHANGED <<issued, files, signatures, journal, ownerClock, drawn, prepared,
                  authorised, life>>
  BY Zenon DEF Handle
<1>3. served' = [served EXCEPT ![h] = q] \/ served' = served
  BY Zenon DEF Handle
<1> HIDE DEF q
<1>4. q.now <= ownerClock
  BY <1>0, <1>1
<1>5. CASE served' = [served EXCEPT ![h] = q]
  BY Zenon, <1>1, <1>2, <1>4, <1>5, ServedStep
<1>6. CASE served' = served
  BY Zenon, <1>2, <1>6 DEF DecisionInv, Kinds, SignedAsPrepared, Numbered, OnePlace, Carried,
                    InTime, Accounted
<1> QED
  BY Zenon, <1>3, <1>5, <1>6

\* What a look at the challenges drops has run out by the clock.
LEMMA StandingOK ==
    ASSUME NEW now
    PROVE  /\ DOMAIN Standing(now) = {c \in DOMAIN issued : now < issued[c]}
           /\ \A c \in DOMAIN Standing(now) : Standing(now)[c] = issued[c]
  BY Zenon DEF Standing

LEMMA EntryOf ==
    ASSUME NEW S, NEW q \in Seq(S), NEW x \in DOMAIN q
    PROVE  q[x] \in S
  OBVIOUS

LEMMA DrawnOK ==
    ASSUME drawn \in Seq([deadline : Nat, life : Nat]), NEW x \in DOMAIN drawn
    PROVE  drawn[x].deadline \in Nat /\ drawn[x].life \in Nat
<1> DEFINE S == [deadline : Nat, life : Nat]
<1>1. drawn \in Seq(S)
  BY Zenon
<1> HIDE DEF S
<1>2. drawn[x] \in S
  BY Zenon, <1>1, EntryOf
<1> QED
  BY Zenon, <1>2 DEF S

\* The decisive step: a verified call takes its challenge away, or finds it gone.
LEMMA AuthorisedStep ==
    ASSUME DecisionInv, NEW h \in Callers, Authorised(h),
           UNCHANGED <<files, signatures, journal, ownerClock, drawn, prepared, life>>
    PROVE  DecisionInv'
<1> DEFINE r == served[h].request
           now == served[h].now
           c == r.challenge
<1>0. /\ Kinds /\ SignedAsPrepared /\ Numbered /\ OnePlace /\ InTime /\ Accounted
      /\ served \in [Callers -> ServedCalls \cup {Idle}]
  BY Zenon DEF DecisionInv, Kinds
<1>1. served[h].at = "decide" /\ served[h] \in ServedCalls /\ now \in Nat
  <2>1. served[h].at = "decide"
    BY Zenon DEF Authorised
  <2>2. served[h] \in ServedCalls
    BY Zenon, <1>0, <2>1, CallShape
  <2> QED
    BY Zenon, <2>1, <2>2 DEF ServedCalls
<1>2. r \in DecisionRequests /\ now <= ownerClock
  BY Zenon, <1>0, <1>1 DEF InTime
<1>3. r \in signatures
  BY Zenon DEF Authorised, Verifies
<1>4. issued' = Dropped(Standing(now), c)
  BY Zenon DEF Authorised, Spent
<1>5. /\ DOMAIN issued' = {x \in DOMAIN issued : now < issued[x] /\ x # c}
      /\ \A x \in DOMAIN issued' : issued'[x] = issued[x]
  BY Zenon, <1>4, StandingOK DEF Dropped
<1>6. DOMAIN issued' \subseteq DOMAIN issued
  BY Zenon, <1>5
<1>7. SignedAsPrepared'
  BY Zenon, <1>0 DEF SignedAsPrepared
<1>8. ownerClock \in Nat /\ \A x \in DOMAIN drawn : drawn[x].deadline \in Nat
  BY Zenon, <1>0, DrawnOK DEF Kinds
<1>9. CASE Spendable(c, now)
  <2> DEFINE a == [decision |-> r.decision, challenge |-> c, now |-> now]
             q == [served[h] EXCEPT !.at = "carry"]
  <2>1. served' = [served EXCEPT ![h] = q] /\ authorised' = authorised \cup {a}
    BY Zenon, <1>9 DEF Authorised
  <2>2. q \in ServedCalls /\ q.at = "carry" /\ q.request = r /\ q.now = now
    BY Zenon, <1>1 DEF ServedCalls
  <2>3. /\ a \in [decision : Decisions, challenge : Nat, now : Nat]
        /\ a.decision = r.decision /\ a.challenge = c /\ a.now = now
    BY Zenon, <1>1, <1>2 DEF DecisionRequests
  <2>4. c \in DOMAIN issued /\ now < issued[c]
    BY Zenon, <1>9, StandingOK DEF Spendable
  <2>5. c \in DOMAIN drawn /\ now < drawn[c].deadline
    BY Zenon, <1>0, <2>4 DEF Numbered
  <2>6. Commits(r.decision, c) = r
    BY Zenon, <1>2 DEF Commits, DecisionRequests
  <2> HIDE DEF a, q, r, now, c
  <2>7. served'[h] = q /\ \A k \in Callers : k # h => served'[k] = served[k]
    BY Zenon, <1>0, <2>1
  <2>8. Kinds'
    <3>1. served' \in [Callers -> ServedCalls \cup {Idle}]
      BY Zenon, <1>0, <2>1, <2>2
    <3>2. authorised' \subseteq [decision : Decisions, challenge : Nat, now : Nat]
      BY Zenon, <1>0, <2>1, <2>3 DEF Kinds
    <3> QED
      BY Zenon, <1>0, <3>1, <3>2 DEF Kinds
  <2>9. Numbered'
    BY Zenon, <1>0, <1>5, <1>6, <2>1, <2>3, <2>5 DEF Numbered
  <2>10. OnePlace'
    <3>1. \A i \in DOMAIN journal : journal[i].challenge # c
      BY Zenon, <1>0, <2>4 DEF OnePlace
    <3>2. \A k \in Callers : served[k].at = "carry" => Carried(k).challenge # c
      BY Zenon, <1>0, <2>4 DEF OnePlace
    <3>3. c \notin DOMAIN issued'
      BY Zenon, <1>5
    <3>4. r.challenge = c /\ Carried(h)' = r /\ \A k \in Callers : k # h => Carried(k)' = Carried(k)
      BY Zenon, <2>2, <2>7 DEF Carried, c
    <3>5. ASSUME NEW k \in Callers, served'[k].at = "carry"
          PROVE  /\ Carried(k)' \in signatures
                 /\ Carried(k)'.challenge \in DOMAIN drawn \ DOMAIN issued'
                 /\ \A m \in Callers : served'[m].at = "carry" /\ m # k =>
                       Carried(m)'.challenge # Carried(k)'.challenge
                 /\ \A i \in DOMAIN journal : journal[i].challenge # Carried(k)'.challenge
      <4>1. CASE k = h
        BY Zenon, <1>3, <2>5, <2>7, <3>1, <3>2, <3>3, <3>4, <4>1
      <4>2. CASE k # h
        BY <1>0, <1>6, <2>7, <3>2, <3>4, <3>5, <4>2 DEF OnePlace
      <4> QED
        BY Zenon, <4>1, <4>2
    <3>6. \A i \in DOMAIN journal :
            /\ journal[i] \in signatures
            /\ journal[i].challenge \in DOMAIN drawn \ DOMAIN issued'
            /\ \A j \in DOMAIN journal : journal[j].challenge = journal[i].challenge => i = j
      BY Zenon, <1>0, <1>6 DEF OnePlace
    <3> QED
      BY Zenon, <3>5, <3>6 DEF OnePlace
  <2>11. InTime'
    BY Zenon, <1>0, <1>2, <2>2, <2>7 DEF InTime
  <2>12. Accounted'
    <3> SUFFICES ASSUME NEW x \in DOMAIN drawn
                 PROVE  \/ drawn[x].life # life
                        \/ drawn[x].deadline <= ownerClock
                        \/ x \in DOMAIN issued'
                        \/ \E b \in authorised' : b.challenge = x /\ Commits(b.decision, x) \in signatures
      BY Zenon DEF Accounted
    <3>1. CASE x = c
      BY Zenon, <1>3, <2>1, <2>3, <2>6, <3>1
    <3>2. CASE x # c /\ x \in DOMAIN issued
      <4>1. issued[x] = drawn[x].deadline /\ issued[x] \in Nat
        BY Zenon, <1>0, <1>8, <3>2 DEF Numbered
      <4>2. now \in Nat /\ now <= ownerClock
        BY Zenon, <1>1, <1>2
      <4> QED
        BY <1>5, <1>8, <3>2, <4>1, <4>2
    <3>3. CASE x \notin DOMAIN issued
      BY Zenon, <1>0, <2>1, <3>3 DEF Accounted
    <3> QED
      BY Zenon, <3>1, <3>2, <3>3
  <2> QED
    BY Zenon, <1>7, <2>8, <2>9, <2>10, <2>11, <2>12 DEF DecisionInv
<1>10. CASE ~Spendable(c, now)
  <2>1. served' = [served EXCEPT ![h] = Idle] /\ authorised' = authorised
    BY Zenon, <1>10 DEF Authorised
  <2>2. served'[h] = Idle /\ \A k \in Callers : k # h => served'[k] = served[k]
    BY Zenon, <1>0, <2>1
  <2>3. Idle.at = "idle"
    BY Zenon DEF Idle
  <2>4. c \in DOMAIN issued => ~(now < issued[c])
    BY Zenon, <1>10, StandingOK DEF Spendable
  <2> HIDE DEF r, now, c
  <2>5. Kinds'
    <3>1. served' \in [Callers -> ServedCalls \cup {Idle}]
      BY Zenon, <1>0, <2>1
    <3> QED
      BY Zenon, <1>0, <2>1, <3>1 DEF Kinds
  <2>6. Numbered'
    BY Zenon, <1>0, <1>5, <1>6, <2>1 DEF Numbered
  <2>7. OnePlace'
    BY <1>0, <1>6, <2>2, <2>3 DEF OnePlace, Carried
  <2>8. InTime'
    BY Zenon, <1>0, <2>2, <2>3 DEF InTime
  <2>9. Accounted'
    <3> SUFFICES ASSUME NEW x \in DOMAIN drawn
                 PROVE  \/ drawn[x].life # life
                        \/ drawn[x].deadline <= ownerClock
                        \/ x \in DOMAIN issued'
                        \/ \E b \in authorised' : b.challenge = x /\ Commits(b.decision, x) \in signatures
      BY Zenon DEF Accounted
    <3>1. CASE x \in DOMAIN issued
      <4>1. issued[x] = drawn[x].deadline /\ issued[x] \in Nat
        BY Zenon, <1>0, <1>8, <3>1 DEF Numbered
      <4>2. now \in Nat /\ now <= ownerClock
        BY Zenon, <1>1, <1>2
      <4> QED
        BY <1>5, <1>8, <2>4, <3>1, <4>1, <4>2
    <3>2. CASE x \notin DOMAIN issued
      BY Zenon, <1>0, <2>1, <3>2 DEF Accounted
    <3> QED
      BY Zenon, <3>1, <3>2
  <2> QED
    BY Zenon, <1>7, <2>5, <2>6, <2>7, <2>8, <2>9 DEF DecisionInv
<1> QED
  BY Zenon, <1>9, <1>10

LEMMA CarryOutStep ==
    ASSUME DecisionInv, NEW h \in Callers, CarryOut(h)
    PROVE  DecisionInv'
<1> DEFINE r == served[h].request
<1>0. /\ Kinds /\ SignedAsPrepared /\ Numbered /\ OnePlace /\ InTime /\ Accounted
      /\ served \in [Callers -> ServedCalls \cup {Idle}]
      /\ journal \in Seq(DecisionRequests)
  BY Zenon DEF DecisionInv, Kinds
<1>1. /\ served[h].at = "carry"
      /\ served' = [served EXCEPT ![h] = Idle]
      /\ UNCHANGED <<issued, files, signatures, ownerClock, drawn, prepared, authorised, life>>
  BY Zenon DEF CarryOut
<1>2. served'[h].at = "idle" /\ \A k \in Callers : k # h => served'[k] = served[k]
  BY Zenon, <1>0, <1>1 DEF Idle
<1>3. r \in DecisionRequests
  BY Zenon, <1>0, <1>1 DEF InTime
<1>4. CASE journal' = journal
  BY Zenon, <1>1, <1>4, IdleStep
<1>5. CASE journal' = Append(journal, r)
  <2> DEFINE n == Len(journal)
  <2>1. /\ n \in Nat
        /\ DOMAIN journal = 1 .. n
        /\ DOMAIN journal' = 1 .. n + 1
        /\ journal'[n + 1] = r
        /\ \A i \in 1 .. n : journal'[i] = journal[i]
        /\ journal' \in Seq(DecisionRequests)
    BY <1>0, <1>3, <1>5
  <2>2. /\ r \in signatures
        /\ r.challenge \in DOMAIN drawn \ DOMAIN issued
        /\ \A k \in Callers : served[k].at = "carry" /\ k # h =>
              Carried(k).challenge # r.challenge
        /\ \A i \in DOMAIN journal : journal[i].challenge # r.challenge
    BY Zenon, <1>0, <1>1 DEF OnePlace, Carried
  <2> HIDE DEF r, n
  <2>3. Kinds'
    <3>1. served' \in [Callers -> ServedCalls \cup {Idle}]
      BY Zenon, <1>0, <1>1
    <3> QED
      BY Zenon, <1>0, <1>1, <2>1, <3>1 DEF Kinds
  <2>4. SignedAsPrepared' /\ Numbered' /\ Accounted'
    BY Zenon, <1>0, <1>1 DEF SignedAsPrepared, Numbered, Accounted
  <2>5. InTime'
    BY Zenon, <1>0, <1>1, <1>2 DEF InTime
  <2>6. \A i \in DOMAIN journal' : i = n + 1 \/ i \in DOMAIN journal
    BY <2>1
  <2>7. OnePlace'
    <3>1. ASSUME NEW k \in Callers, served'[k].at = "carry"
          PROVE  /\ Carried(k)' \in signatures
                 /\ Carried(k)'.challenge \in DOMAIN drawn \ DOMAIN issued
                 /\ \A m \in Callers : served'[m].at = "carry" /\ m # k =>
                       Carried(m)'.challenge # Carried(k)'.challenge
                 /\ \A i \in DOMAIN journal' : journal'[i].challenge # Carried(k)'.challenge
      <4>1. k # h /\ Carried(k)' = Carried(k) /\ served[k].at = "carry"
        BY Zenon, <1>2, <3>1 DEF Carried
      <4>2. \A m \in Callers : served'[m].at = "carry" =>
               m # h /\ Carried(m)' = Carried(m) /\ served[m].at = "carry"
        BY Zenon, <1>2 DEF Carried
      <4>3. \A i \in DOMAIN journal' : journal'[i].challenge # Carried(k).challenge
        BY <1>0, <2>1, <2>2, <2>6, <4>1 DEF OnePlace
      <4> QED
        BY Zenon, <1>0, <4>1, <4>2, <4>3 DEF OnePlace
    <3>2. ASSUME NEW i \in DOMAIN journal'
          PROVE  /\ journal'[i] \in signatures
                 /\ journal'[i].challenge \in DOMAIN drawn \ DOMAIN issued
                 /\ \A j \in DOMAIN journal' : journal'[j].challenge = journal'[i].challenge => i = j
      <4>1. CASE i = n + 1
        BY Zenon, <2>1, <2>2, <2>6, <4>1
      <4>2. CASE i \in DOMAIN journal
        BY Zenon, <1>0, <2>1, <2>2, <2>6, <4>2 DEF OnePlace
      <4> QED
        BY Zenon, <2>6, <4>1, <4>2
    <3> QED
      BY Zenon, <1>1, <3>1, <3>2 DEF OnePlace
  <2> QED
    BY Zenon, <2>3, <2>4, <2>5, <2>7 DEF DecisionInv
<1> QED
  BY Zenon, <1>4, <1>5 DEF CarryOut

\* A challenge is drawn under a number of its own; one that finds no room only drops
\* what has run out.
LEMMA PrepareStep ==
    ASSUME DecisionInv, NEW h \in Callers, NEW d \in Decisions, Prepare(h, d)
    PROVE  DecisionInv'
<1> DEFINE now == served[h].now
           c == Len(drawn) + 1
           e == [deadline |-> now + ChallengeLifetime, life |-> life]
           r == Commits(d, c)
           f == DecisionFile(r, r, Unsigned)
<1>0. /\ Kinds /\ SignedAsPrepared /\ Numbered /\ OnePlace /\ InTime /\ Accounted
      /\ served \in [Callers -> ServedCalls \cup {Idle}]
      /\ drawn \in Seq([deadline : Nat, life : Nat])
      /\ ownerClock \in Nat /\ life \in Nat
  BY Zenon DEF DecisionInv, Kinds
<1>1. /\ served[h].at = "challenge"
      /\ served' = [served EXCEPT ![h] = Idle]
      /\ UNCHANGED <<signatures, journal, ownerClock, authorised, life>>
  BY Zenon DEF Prepare
<1>2. now \in Nat /\ now <= ownerClock
  <2>1. served[h] \in ServedCalls
    BY Zenon, <1>0, <1>1, CallShape
  <2> QED
    BY Zenon, <1>0, <1>1, <2>1 DEF ServedCalls, InTime
<1>3. served' \in [Callers -> ServedCalls \cup {Idle}]
  BY Zenon, <1>0, <1>1
<1>4. served'[h].at = "idle" /\ \A k \in Callers : k # h => served'[k] = served[k]
  BY Zenon, <1>0, <1>1 DEF Idle
<1>5. /\ e \in [deadline : Nat, life : Nat]
      /\ e.deadline = now + ChallengeLifetime /\ e.life = life
  BY <1>0, <1>2, OwnerDecisionsAssumption
<1>6. /\ c \in Nat /\ c \notin DOMAIN drawn
      /\ Append(drawn, e) \in Seq([deadline : Nat, life : Nat])
      /\ DOMAIN Append(drawn, e) = DOMAIN drawn \cup {c}
      /\ Append(drawn, e)[c] = e
      /\ \A x \in DOMAIN drawn : Append(drawn, e)[x] = drawn[x]
  BY <1>0, <1>5
<1>7. /\ r \in DecisionRequests
      /\ f \in [request : DecisionRequests, bytes : DecisionRequests, signature : MaybeSigned]
      /\ f.bytes = r
  <2>1. r \in DecisionRequests
    BY Zenon, <1>6 DEF Commits, DecisionRequests
  <2> QED
    BY Zenon, <2>1 DEF DecisionFile, MaybeSigned
<1>8. \/ /\ issued' = Issued(c, now) /\ drawn' = Append(drawn, e)
         /\ \/ files' = files \cup {f} /\ prepared' = prepared \cup {r}
            \/ UNCHANGED <<files, prepared>>
      \/ issued' = Standing(now) /\ UNCHANGED <<drawn, files, prepared>>
  BY Zenon DEF Prepare
<1>9. \A x \in DOMAIN drawn : drawn[x].deadline \in Nat /\ drawn[x].life \in Nat
  BY Zenon, <1>0, DrawnOK
<1> HIDE DEF now, c, e, r, f
<1>10. SignedAsPrepared'
  BY Zenon, <1>0, <1>1, <1>7, <1>8 DEF SignedAsPrepared
<1>11. Kinds'
  <2>1. drawn' \in Seq([deadline : Nat, life : Nat])
    BY Zenon, <1>0, <1>6, <1>8
  <2>2. prepared' \subseteq DecisionRequests
    BY Zenon, <1>0, <1>7, <1>8 DEF Kinds
  <2>3. files' \subseteq [request : DecisionRequests, bytes : DecisionRequests,
                          signature : MaybeSigned]
    BY Zenon, <1>0, <1>7, <1>8 DEF Kinds
  <2> QED
    BY Zenon, <1>0, <1>1, <1>3, <2>1, <2>2, <2>3 DEF Kinds
<1>12. InTime'
  BY Zenon, <1>0, <1>1, <1>4 DEF InTime
<1>13. \A k \in Callers : served'[k].at = "carry" =>
          k # h /\ served[k].at = "carry" /\ Carried(k)' = Carried(k)
  BY Zenon, <1>4 DEF Carried
<1>14. CASE issued' = Issued(c, now) /\ drawn' = Append(drawn, e)
  <2>1. /\ DOMAIN issued' = {x \in DOMAIN issued : now < issued[x]} \cup {c}
        /\ issued'[c] = now + ChallengeLifetime
        /\ \A x \in DOMAIN issued' : x # c => issued'[x] = issued[x]
    BY Zenon, <1>14, StandingOK DEF Issued
  <2>2. /\ DOMAIN drawn' = DOMAIN drawn \cup {c} /\ drawn'[c] = e
        /\ \A x \in DOMAIN drawn : drawn'[x] = drawn[x]
    BY Zenon, <1>6, <1>14
  <2>3. Numbered'
    <3>1. DOMAIN issued' \subseteq DOMAIN drawn'
      BY Zenon, <1>0, <2>1, <2>2 DEF Numbered
    <3>2. \A x \in DOMAIN issued' : issued'[x] = drawn'[x].deadline
      BY Zenon, <1>0, <1>5, <1>6, <2>1, <2>2 DEF Numbered
    <3>3. \A x \in DOMAIN drawn' : drawn'[x].life <= life
      BY <1>0, <1>5, <2>2 DEF Numbered
    <3>4. \A a \in authorised : a.challenge \in DOMAIN drawn' /\ a.now < drawn'[a.challenge].deadline
      BY Zenon, <1>0, <2>2 DEF Numbered
    <3> QED
      BY Zenon, <1>1, <3>1, <3>2, <3>3, <3>4 DEF Numbered
  <2>4. \A x \in DOMAIN drawn \ DOMAIN issued : x \in DOMAIN drawn' \ DOMAIN issued'
    BY Zenon, <1>6, <2>1, <2>2
  <2>5. OnePlace'
    BY <1>0, <1>1, <1>13, <2>4 DEF OnePlace
  <2>6. Accounted'
    <3> SUFFICES ASSUME NEW x \in DOMAIN drawn'
                 PROVE  \/ drawn'[x].life # life
                        \/ drawn'[x].deadline <= ownerClock
                        \/ x \in DOMAIN issued'
                        \/ \E b \in authorised : b.challenge = x /\ Commits(b.decision, x) \in signatures
      BY Zenon, <1>1 DEF Accounted
    <3>1. CASE x = c
      BY Zenon, <2>1, <3>1
    <3>2. CASE x \in DOMAIN drawn /\ x \in DOMAIN issued
      <4>1. issued[x] = drawn[x].deadline /\ issued[x] \in Nat
        BY Zenon, <1>0, <1>9, <3>2 DEF Numbered
      <4> QED
        BY <1>0, <1>2, <2>1, <2>2, <3>2, <4>1
    <3>3. CASE x \in DOMAIN drawn /\ x \notin DOMAIN issued
      BY Zenon, <1>0, <2>2, <3>3 DEF Accounted
    <3> QED
      BY Zenon, <2>2, <3>1, <3>2, <3>3
  <2> QED
    BY Zenon, <1>10, <1>11, <1>12, <2>3, <2>5, <2>6 DEF DecisionInv
<1>15. CASE issued' = Standing(now) /\ drawn' = drawn
  <2>1. /\ DOMAIN issued' = {x \in DOMAIN issued : now < issued[x]}
        /\ \A x \in DOMAIN issued' : issued'[x] = issued[x]
    BY Zenon, <1>15, StandingOK
  <2>2. Numbered'
    BY Zenon, <1>0, <1>1, <1>15, <2>1 DEF Numbered
  <2>3. OnePlace'
    BY <1>0, <1>1, <1>13, <1>15, <2>1 DEF OnePlace
  <2>4. Accounted'
    <3> SUFFICES ASSUME NEW x \in DOMAIN drawn
                 PROVE  \/ drawn[x].life # life
                        \/ drawn[x].deadline <= ownerClock
                        \/ x \in DOMAIN issued'
                        \/ \E b \in authorised : b.challenge = x /\ Commits(b.decision, x) \in signatures
      BY Zenon, <1>1, <1>15 DEF Accounted
    <3>1. CASE x \in DOMAIN issued
      <4>1. issued[x] = drawn[x].deadline /\ issued[x] \in Nat
        BY Zenon, <1>0, <1>9, <3>1 DEF Numbered
      <4> QED
        BY <1>0, <1>2, <2>1, <3>1, <4>1
    <3>2. CASE x \notin DOMAIN issued
      BY Zenon, <1>0, <3>2 DEF Accounted
    <3> QED
      BY Zenon, <3>1, <3>2
  <2> QED
    BY Zenon, <1>10, <1>11, <1>12, <2>2, <2>3, <2>4 DEF DecisionInv
<1> QED
  BY Zenon, <1>8, <1>14, <1>15

LEMMA SignStep ==
    ASSUME DecisionInv, NEW f \in files, Sign(f)
    PROVE  DecisionInv'
<1> DEFINE g == [f EXCEPT !.signature = f.request]
<1>0. /\ Kinds /\ SignedAsPrepared /\ Numbered /\ OnePlace /\ InTime /\ Accounted
      /\ f \in [request : DecisionRequests, bytes : DecisionRequests, signature : MaybeSigned]
  BY Zenon DEF DecisionInv, Kinds
<1>1. /\ g \in [request : DecisionRequests, bytes : DecisionRequests, signature : MaybeSigned]
      /\ g.bytes = f.bytes
  BY Zenon, <1>0 DEF MaybeSigned
<1>2. f.request \in prepared
  BY Zenon, <1>0 DEF SignedAsPrepared, Sign, ValidEnvelope
<1>3. /\ signatures' = signatures \cup {f.request} /\ files' = files \cup {g}
      /\ UNCHANGED <<issued, served, journal, ownerClock, drawn, prepared, authorised, life>>
  BY Zenon DEF Sign
<1> HIDE DEF g
<1>4. Kinds'
  BY Zenon, <1>0, <1>1, <1>3 DEF Kinds
<1>5. SignedAsPrepared' /\ Numbered' /\ InTime'
  BY Zenon, <1>0, <1>1, <1>2, <1>3 DEF SignedAsPrepared, Numbered, InTime
<1>6. OnePlace'
  BY Zenon, <1>0, <1>3 DEF OnePlace, Carried
<1>7. Accounted'
  BY Zenon, <1>0, <1>3 DEF Accounted
<1> QED
  BY Zenon, <1>4, <1>5, <1>6, <1>7 DEF DecisionInv

LEMMA AlteredStep ==
    ASSUME DecisionInv, NEW f \in files, NEW d \in Decisions, Altered(f, d)
    PROVE  DecisionInv'
<1> DEFINE g == [f EXCEPT !.request = [f.request EXCEPT !.decision = d]]
<1>0. /\ Kinds /\ SignedAsPrepared /\ Numbered /\ OnePlace /\ InTime /\ Accounted
      /\ f \in [request : DecisionRequests, bytes : DecisionRequests, signature : MaybeSigned]
  BY Zenon DEF DecisionInv, Kinds
<1>1. [f EXCEPT !.request.decision = d] = g
  BY Zenon
<1>2. [f.request EXCEPT !.decision = d] \in DecisionRequests
  BY Zenon, <1>0 DEF DecisionRequests
<1>3. /\ g \in [request : DecisionRequests, bytes : DecisionRequests, signature : MaybeSigned]
      /\ g.bytes = f.bytes
  BY Zenon, <1>0, <1>2
<1>4. /\ files' = files \cup {g}
      /\ UNCHANGED <<issued, signatures, served, journal, ownerClock, drawn, prepared,
                     authorised, life>>
  BY Zenon, <1>1 DEF Altered
<1> HIDE DEF g
<1>5. Kinds'
  BY Zenon, <1>0, <1>3, <1>4 DEF Kinds
<1>6. SignedAsPrepared' /\ Numbered' /\ InTime'
  BY Zenon, <1>0, <1>3, <1>4 DEF SignedAsPrepared, Numbered, InTime
<1>7. OnePlace' /\ Accounted'
  BY Zenon, <1>0, <1>4 DEF OnePlace, Carried, Accounted
<1> QED
  BY Zenon, <1>5, <1>6, <1>7 DEF DecisionInv

LEMMA RestartStep ==
    ASSUME DecisionInv, Restart
    PROVE  DecisionInv'
<1>0. /\ Kinds /\ SignedAsPrepared /\ Numbered /\ OnePlace /\ InTime /\ Accounted
      /\ drawn \in Seq([deadline : Nat, life : Nat]) /\ life \in Nat
  BY Zenon DEF DecisionInv, Kinds
<1>1. /\ life' = life + 1 /\ issued' = <<>> /\ served' = [h \in Callers |-> Idle]
      /\ UNCHANGED <<files, signatures, journal, ownerClock, drawn, prepared, authorised>>
  BY Zenon DEF Restart
<1>2. \A h \in Callers : served'[h] = Idle /\ served'[h].at = "idle"
  BY Zenon, <1>1 DEF Idle
<1>3. DOMAIN issued' = {}
  BY <1>1
<1>4. \A x \in DOMAIN drawn : drawn[x].life \in Nat /\ drawn[x].life <= life
  BY Zenon, <1>0, DrawnOK DEF Numbered
<1>5. Kinds'
  BY <1>0, <1>1 DEF Kinds
<1>6. SignedAsPrepared' /\ InTime'
  BY Zenon, <1>0, <1>1, <1>2 DEF SignedAsPrepared, InTime
<1>7. Numbered'
  BY <1>0, <1>1, <1>3, <1>4 DEF Numbered
<1>8. OnePlace'
  BY Zenon, <1>0, <1>1, <1>2, <1>3 DEF OnePlace
<1>9. Accounted'
  BY <1>0, <1>1, <1>4 DEF Accounted
<1> QED
  BY Zenon, <1>5, <1>6, <1>7, <1>8, <1>9 DEF DecisionInv

LEMMA TickStep ==
    ASSUME DecisionInv, OwnerTick
    PROVE  DecisionInv'
<1>0. /\ Kinds /\ SignedAsPrepared /\ Numbered /\ OnePlace /\ InTime /\ Accounted
      /\ drawn \in Seq([deadline : Nat, life : Nat]) /\ ownerClock \in Nat
      /\ served \in [Callers -> ServedCalls \cup {Idle}]
  BY Zenon DEF DecisionInv, Kinds
<1>1. /\ ownerClock' = ownerClock + 1
      /\ UNCHANGED <<issued, files, signatures, served, journal, drawn, prepared, authorised,
                     life>>
  BY Zenon DEF OwnerTick
<1>2. Kinds'
  BY <1>0, <1>1 DEF Kinds
<1>3. SignedAsPrepared' /\ Numbered' /\ OnePlace'
  BY Zenon, <1>0, <1>1 DEF SignedAsPrepared, Numbered, OnePlace, Carried
<1>4. InTime'
  <2>1. \A h \in Callers : served[h].at # "idle" => served[h].now \in Nat
    BY <1>0, CallShape DEF ServedCalls
  <2> QED
    BY <1>0, <1>1, <2>1 DEF InTime
<1>5. Accounted'
  BY SMTT(40), <1>0, <1>1, DrawnOK DEF Accounted
<1> QED
  BY Zenon, <1>2, <1>3, <1>4, <1>5 DEF DecisionInv

LEMMA InitDecisionInv ==
    ASSUME OwnerDecisionsInit
    PROVE  DecisionInv
<1>1. \A h \in Callers : served[h] = Idle /\ served[h].at = "idle"
  BY Zenon DEF OwnerDecisionsInit, Idle
<1>2. DOMAIN issued = {} /\ DOMAIN drawn = {} /\ DOMAIN journal = {}
  BY DEF OwnerDecisionsInit
<1>3. Kinds
  BY DEF OwnerDecisionsInit, Kinds
<1>4. SignedAsPrepared /\ Numbered /\ InTime /\ Accounted
  BY Zenon, <1>1, <1>2 DEF OwnerDecisionsInit, SignedAsPrepared, Numbered, InTime, Accounted
<1>5. OnePlace
  BY Zenon, <1>1, <1>2 DEF OnePlace
<1> QED
  BY Zenon, <1>3, <1>4, <1>5 DEF DecisionInv

LEMMA NextDecisionInv ==
    ASSUME DecisionInv, [OwnerDecisionsNext]_ownerDecisionVars
    PROVE  DecisionInv'
<1>1. CASE UNCHANGED ownerDecisionVars
  BY Zenon, <1>1 DEF ownerDecisionVars, DecisionInv, Kinds, SignedAsPrepared, Numbered, OnePlace,
              Carried, InTime, Accounted
<1>2. ASSUME NEW h \in Callers, Handle(h, "challenge", Unsigned, Unsigned)
      PROVE  DecisionInv'
  BY Zenon, <1>2, HandleStep DEF MaybeSigned
<1>3. ASSUME NEW h \in Callers, NEW f \in files, SubmitDecision(h, f) \/ Call(h, f)
      PROVE  DecisionInv'
  <2>1. f.request \in DecisionRequests /\ f.signature \in MaybeSigned
    BY Zenon DEF DecisionInv, Kinds
  <2>2. f.request \in MaybeSigned
    BY Zenon, <2>1 DEF MaybeSigned
  <2>3. Handle(h, "decide", f.request, f.signature)
    BY Zenon, <1>3 DEF SubmitDecision, Call
  <2> QED
    BY Zenon, <2>1, <2>2, <2>3, HandleStep
<1>4. ASSUME NEW h \in Callers, AuthoriseDecision(h)
      PROVE  DecisionInv'
  <2>1. UNCHANGED <<files, signatures, journal, ownerClock, drawn, prepared, life>>
    BY Zenon, <1>4 DEF AuthoriseDecision
  <2>2. CASE RefusedDecision(h) /\ UNCHANGED authorised
    <3>1. served' = [served EXCEPT ![h] = Idle] /\ UNCHANGED <<issued, authorised>>
      BY Zenon, <2>2 DEF RefusedDecision
    <3> QED
      BY Zenon, <2>1, <3>1, IdleStep
  <2>3. CASE Authorised(h)
    BY Zenon, <2>1, <2>3, AuthorisedStep
  <2> QED
    BY Zenon, <1>4, <2>2, <2>3 DEF AuthoriseDecision
<1> QED
  BY Zenon, <1>1, <1>2, <1>3, <1>4, CarryOutStep, PrepareStep, SignStep, AlteredStep, RestartStep,
     TickStep DEF OwnerDecisionsNext

\* The inductive invariant holds of the owner's socket and tool, whatever is submitted,
\* edited and submitted again (owner.go:63-106, 190-210, cmd/tos-messenger-owner).
THEOREM DecisionInvariant == OwnerDecisionsSpec => []DecisionInv
  BY InitDecisionInv, NextDecisionInv, PTL DEF OwnerDecisionsSpec

\* Every decision the journal carries out is one that was prepared and signed, in time
\* and once for its challenge; and a challenge of this daemon stands until its deadline
\* unless the owner's own signature spent it: no refused call burns one (owner.go:205).
THEOREM DecisionsAsSigned == OwnerDecisionsSpec => []DecidedAsSigned
<1>1. ASSUME DecisionInv
      PROVE  DecidedAsSigned
  BY Zenon, <1>1 DEF DecisionInv, SignedAsPrepared, OnePlace, Numbered, Accounted, DecidedAsSigned
<1> QED
  BY <1>1, DecisionInvariant, PTL
=============================================================================
