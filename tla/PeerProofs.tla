----------------------------- MODULE PeerProofs -----------------------------
(***************************************************************************)
(* Peers, for any number of messages, losses and clocks: who is let in,    *)
(* the tunnel relay and the end-to-end ratchet.                            *)
(***************************************************************************)
EXTENDS AdmissionGate, TunnelRelay, Ratchet, TLAPS

(***************************************************************************)
(* The admission gate. For any events, invites, policies, handlers and     *)
(* clocks: nothing passes the gate unasked. The gate asks and acts later,  *)
(* so GateInv says of every handler what the policy let it rely on         *)
(* (HandlersCleared), of every kept event why it was kept (KeptRightly),   *)
(* and that an invite serves the one event that claimed it                 *)
(* (InvitesServeOne).                                                      *)
(***************************************************************************)

InviteRecord == [expires : Nat, event : GateEvents \cup {NoGateEvent}, claimed : Nat]

Arrived == [at : {"policy"}, event : GateEvents, now : Nat]
Admitting == [at : {"claim", "rule", "accept"}, event : GateEvents, now : Nat,
              invited : BOOLEAN, as : {"admitted", "pending"}]

GateTypes ==
    /\ policy \in Policies \cup {"down"} /\ published \in Policies
    /\ invites \in [Invites -> InviteRecord \cup {NoInvite}]
    /\ kept \in [GateEvents -> {"none", "pending", "admitted", "denied"}]
    /\ handlers \in [GateHandlers -> {GateIdle} \cup Arrived \cup Admitting]
    /\ gateClock \in Nat
    /\ ownerAsked \in [GateEvents -> Nat]
    /\ via \in [GateEvents -> Invites \cup {NoInvite}]
    /\ ruled \subseteq GateEvents
    /\ minted \subseteq Invites

\* A sender that the policies which ask may let in without an owner or an invite.
Vouched(e, invited) ==
    "open" \notin Policies => /\ e.agent \notin BlockedAgents
                              /\ e.agent \in KnownAgents \/ invited

\* What a handler that is past the inbox policy can rely on.
Cleared(x) ==
    /\ x.event.valid
    /\ x.at = "claim" => x.invited
    /\ x.invited => x.event.token \in Invites /\ x.as = "admitted"
    /\ x.event.kind = "moderation" =>
          /\ x.as = "admitted"
          /\ x.at = "accept" => x.event \in ruled
    /\ "open" \notin Policies => x.event.agent \notin BlockedAgents
    /\ x.as = "admitted" => Vouched(x.event, x.invited)

HandlersCleared ==
    \A h \in GateHandlers :
        /\ handlers[h] \in Admitting => Cleared(handlers[h])
        /\ handlers[h] # GateIdle => policy # "down"

\* What is known of an event that was kept.
KeptRightly ==
    \A e \in GateEvents :
        /\ kept[e] = "none" => ownerAsked[e] = 0 /\ via[e] = NoInvite
        /\ ownerAsked[e] <= 1
        /\ kept[e] = "pending" => ownerAsked[e] > 0
        /\ e.kind = "moderation" /\ kept[e] # "none" =>
              kept[e] = "admitted" /\ e \in ruled
        /\ "open" \notin Policies =>
              /\ kept[e] = "admitted" =>
                   e.agent \in KnownAgents \/ via[e] # NoInvite \/ ownerAsked[e] > 0
              /\ e.agent \in BlockedAgents => kept[e] = "none"

\* The handler h has claimed invite i for event e and not accepted it yet.
HoldsClaim(h, i, e) ==
    /\ handlers[h] \in Admitting
    /\ handlers[h].at # "claim"
    /\ handlers[h].invited
    /\ handlers[h].event = e
    /\ e.token = i

\* The invite i lets event e in, or did.
Serves(i, e) == via[e] = i \/ \E h \in GateHandlers : HoldsClaim(h, i, e)

InvitesServeOne ==
    \A i \in Invites :
        /\ invites[i] # NoInvite => i \in minted
        /\ \A e \in GateEvents : Serves(i, e) =>
              i \in minted /\ (invites[i] # NoInvite => invites[i].event = e)
        /\ \A d, e \in GateEvents : Serves(i, d) /\ Serves(i, e) => d = e

GateInv == GateTypes /\ HandlersCleared /\ KeptRightly /\ InvitesServeOne /\ InviteServesValid

-----------------------------------------------------------------------------

LEMMA GateIdleFields == GateIdle \notin Admitting /\ GateIdle \notin Arrived
<1>1. GateIdle.at = "idle"
  BY Zenon DEF GateIdle
<1>2. \A x \in Admitting \cup Arrived : x.at # "idle"
  BY Zenon DEF Admitting, Arrived
<1> QED
  BY Zenon, <1>1, <1>2

\* A handler that is at a step past its arrival.
LEMMA AtStep ==
    ASSUME GateTypes, NEW h \in GateHandlers
    PROVE  /\ handlers[h].at = "policy" => handlers[h] \in Arrived
           /\ handlers[h].at \in {"claim", "rule", "accept"} => handlers[h] \in Admitting
BY DEF GateTypes, GateIdle, Arrived, Admitting

\* A step that changes neither the invites nor what is kept, and of the handlers
\* only drops some.
LEMMA GateQuiet ==
    ASSUME GateInv, invites' = invites, kept' = kept, ownerAsked' = ownerAsked,
           via' = via, minted' = minted, ruled' = ruled,
           policy' \in Policies \cup {"down"}, published' \in Policies,
           gateClock' \in Nat,
           handlers' \in [GateHandlers -> {GateIdle} \cup Arrived \cup Admitting],
           \A h \in GateHandlers :
              \/ handlers'[h] = GateIdle
              \/ policy' # "down" /\ handlers'[h] \in Arrived
              \/ policy' # "down" /\ handlers'[h] = handlers[h]
    PROVE  GateInv'
<1>1. GateTypes'
  BY Zenon DEF GateInv, GateTypes
<1>2. HandlersCleared'
  BY GateIdleFields DEF GateInv, HandlersCleared, Cleared, Arrived, Admitting
<1>3. KeptRightly' /\ InviteServesValid'
  BY Zenon DEF GateInv, KeptRightly, InviteServesValid
<1>4. \A h \in GateHandlers : handlers'[h] \in Admitting => handlers'[h] = handlers[h]
  BY Zenon, GateIdleFields DEF Arrived, Admitting
<1>5. \A i \in Invites, e \in GateEvents : Serves(i, e)' => Serves(i, e)
  BY Zenon, <1>4 DEF Serves, HoldsClaim
<1>6. InvitesServeOne'
  BY Zenon, <1>5 DEF GateInv, InvitesServeOne
<1> QED
  BY Zenon, <1>1, <1>2, <1>3, <1>6 DEF GateInv

\* One handler moves on, cleared.
LEMMA ClearedKept ==
    ASSUME GateInv, NEW h \in GateHandlers, NEW x \in Admitting,
           handlers' = [handlers EXCEPT ![h] = x], handlers[h] # GateIdle,
           policy' = policy, ruled \subseteq ruled', Cleared(x)'
    PROVE  HandlersCleared'
<1>1. handlers'[h] = x /\ \A g \in GateHandlers \ {h} : handlers'[g] = handlers[g]
  BY Zenon DEF GateInv, GateTypes
<1>2. policy # "down"
  BY Zenon DEF GateInv, HandlersCleared
<1>3. ASSUME NEW g \in GateHandlers
      PROVE  /\ handlers'[g] \in Admitting => Cleared(handlers[g])'
             /\ handlers'[g] # GateIdle => policy' # "down"
  <2>1. CASE g = h
    BY Zenon, <1>1, <1>2, <2>1 DEF Cleared
  <2>2. CASE g # h
    <3>1. handlers'[g] = handlers[g]
      BY Zenon, <1>1, <2>2
    <3>2. handlers[g] \in Admitting => Cleared(handlers[g])
      BY Zenon DEF GateInv, HandlersCleared
    <3> QED
      BY Zenon, <1>2, <3>1, <3>2 DEF Cleared
  <2> QED
    BY Zenon, <2>1, <2>2
<1> QED
  BY Zenon, <1>3 DEF HandlersCleared

\* What the policy lets past is a contact's, invited, or waits for the owner.
LEMMA AnswerMeans ==
    ASSUME policy \in Policies, NEW e, NEW now, "open" \notin Policies,
           Answer(e, now) \in {"allow", "invited", "hold"}
    PROVE  /\ e.agent \notin BlockedAgents
           /\ Answer(e, now) = "allow" => e.agent \in KnownAgents
<1>1. policy \in {"tell", "ask", "invite"}
  BY Zenon, GateAssumption
<1>2. CASE e.agent \in BlockedAgents
  BY Zenon, <1>1, <1>2 DEF Answer, Admits
<1>3. CASE e.agent \notin BlockedAgents /\ e.agent \in KnownAgents
  BY Zenon, <1>3
<1>4. CASE e.agent \notin BlockedAgents /\ e.agent \notin KnownAgents
  <2>1. Admits(e.agent) # "allow"
    BY Zenon, <1>1, <1>4 DEF Admits
  <2>2. Answer(e, now) # "allow"
    BY Zenon, <2>1 DEF Answer
  <2> QED
    BY Zenon, <1>4, <2>2
<1> QED
  BY Zenon, <1>2, <1>3, <1>4

LEMMA PolicyStep ==
    ASSUME GateInv, NEW h \in GateHandlers, ApplyPolicy(h)
    PROVE  GateInv'
<1>0. GateTypes
  BY Zenon DEF GateInv
<1>1. handlers[h] \in Arrived /\ handlers[h] # GateIdle
  BY Zenon, <1>0, AtStep, GateIdleFields DEF ApplyPolicy
<1>2. PICK e \in GateEvents, now \in Nat : e = handlers[h].event /\ now = handlers[h].now
  BY Zenon, <1>1 DEF Arrived
<1>3. policy \in Policies /\ policy # "down"
  BY Zenon, <1>0, <1>1 DEF GateInv, HandlersCleared, GateTypes
<1>4. /\ invites' = invites /\ kept' = kept /\ ownerAsked' = ownerAsked
      /\ via' = via /\ minted' = minted /\ ruled' = ruled /\ policy' = policy
      /\ published' = published /\ gateClock' = gateClock
  BY Zenon DEF ApplyPolicy, gateEnv
<1>5. CASE Finish(h)
  <2>1. /\ handlers' \in [GateHandlers -> {GateIdle} \cup Arrived \cup Admitting]
        /\ handlers'[h] = GateIdle
        /\ \A g \in GateHandlers \ {h} : handlers'[g] = handlers[g]
    BY Zenon, <1>0, <1>5 DEF Finish, Goto, GateTypes
  <2> QED
    BY Zenon, <1>0, <1>3, <1>4, <2>1, GateQuiet DEF GateTypes
<1>6. ASSUME MayProceed(e, Answer(e, now)),
             Goto(h, [at |-> IF Answer(e, now) = "invited" THEN "claim"
                             ELSE IF e.kind = "moderation" THEN "rule" ELSE "accept",
                      event |-> e, now |-> now,
                      invited |-> Answer(e, now) = "invited",
                      as |-> AdmissionOf(Answer(e, now))])
      PROVE  GateInv'
  <2>1. PICK a \in {"allow", "invited", "hold"} : a = Answer(e, now)
    BY Zenon, <1>6 DEF MayProceed
  <2> DEFINE at == IF a = "invited" THEN "claim"
                   ELSE IF e.kind = "moderation" THEN "rule" ELSE "accept"
             x == [at |-> at, event |-> e, now |-> now, invited |-> a = "invited",
                   as |-> AdmissionOf(a)]
  <2>2. /\ x \in Admitting /\ x.at = at /\ x.event = e
        /\ x.invited = (a = "invited")
        /\ x.as = AdmissionOf(a)
    BY Zenon DEF Admitting, AdmissionOf
  <2>3. handlers' = [handlers EXCEPT ![h] = x]
    BY Zenon, <1>6, <2>1 DEF Goto
  <2>4. e.valid /\ (e.kind = "moderation" => a # "hold")
    BY Zenon, <1>6, <2>1 DEF MayProceed
  <2>5. a = "invited" => e.token \in Invites
    <3>1. Admits(e.agent) # "invited"
      BY Zenon, <1>3, GateAssumption DEF Admits
    <3> QED
      BY Zenon, <2>1, <3>1, GateAssumption DEF Answer
  <2>6. /\ at = "claim" => a = "invited"
        /\ e.kind = "moderation" => at # "accept"
        /\ at # "claim" => a # "invited"
    BY Zenon
  <2>7. /\ AdmissionOf(a) = "admitted" => a # "hold"
        /\ a # "hold" => AdmissionOf(a) = "admitted"
    BY Zenon DEF AdmissionOf
  <2> HIDE DEF x, at
  <2>8. Cleared(x)
    <3>1. "open" \notin Policies =>
            /\ e.agent \notin BlockedAgents
            /\ a = "allow" => e.agent \in KnownAgents
      BY Zenon, <1>3, <2>1, AnswerMeans
    <3> QED
      BY Zenon, <2>2, <2>4, <2>5, <2>6, <2>7, <3>1 DEF Cleared, Vouched
  <2>9. HandlersCleared' /\ x \in Admitting
    <3>1. Cleared(x)'
      BY Zenon, <1>4, <2>8 DEF Cleared, Vouched
    <3> QED
      BY Zenon, <1>1, <1>4, <2>2, <2>3, <3>1, ClearedKept
  <2>10. GateTypes'
    BY Zenon, <1>0, <1>4, <2>2, <2>3 DEF GateTypes
  <2>11. KeptRightly' /\ InviteServesValid'
    BY Zenon, <1>4 DEF GateInv, KeptRightly, InviteServesValid
  <2>12. InvitesServeOne'
    <3>1. handlers'[h] = x /\ \A g \in GateHandlers \ {h} : handlers'[g] = handlers[g]
      BY Zenon, <1>0, <2>3 DEF GateTypes
    <3>2. ~(x.at # "claim" /\ x.invited)
      BY Zenon, <2>2, <2>6
    <3>3. \A i \in Invites, d \in GateEvents : Serves(i, d)' => Serves(i, d)
      BY Zenon, <1>4, <3>1, <3>2 DEF Serves, HoldsClaim
    <3> QED
      BY Zenon, <1>4, <3>3 DEF GateInv, InvitesServeOne
  <2> QED
    BY Zenon, <2>9, <2>10, <2>11, <2>12 DEF GateInv
<1> QED
  BY Zenon, <1>2, <1>5, <1>6 DEF ApplyPolicy

\* What a claim leaves of an invite that is spendable.
LEMMA ClaimRecord ==
    ASSUME GateInv, NEW i \in Invites, NEW e \in GateEvents, NEW now \in Nat,
           Spendable(i, e, now), e.valid
    PROVE  /\ invites[i] # NoInvite
           /\ ClaimedBy(invites[i], e, now) \in InviteRecord
           /\ ClaimedBy(invites[i], e, now) # NoInvite
           /\ ClaimedBy(invites[i], e, now).event = e
           /\ ClaimedBy(invites[i], e, now).claimed < ClaimedBy(invites[i], e, now).expires
           /\ InviteFor[i] \in {NoInvite, e.agent}
           /\ i \in minted
           /\ \A d \in GateEvents : Serves(i, d) => d = e
<1>1. invites[i] # NoInvite /\ InviteFor[i] \in {NoInvite, e.agent}
  BY Zenon DEF Spendable, InvitesSender, Issued
<1>2. PICK r \in InviteRecord : r = invites[i]
  BY Zenon, <1>1 DEF GateInv, GateTypes
<1>3. CASE r.event = NoGateEvent
  <2>1. ClaimedBy(r, e, now) = [expires |-> r.expires, event |-> e, claimed |-> now]
    BY Zenon, <1>3 DEF ClaimedBy, InviteRecord
  <2>2. now < r.expires
    BY Zenon, <1>2, <1>3 DEF Spendable
  <2>3. [expires |-> r.expires, event |-> e, claimed |-> now] \in InviteRecord
    BY Zenon DEF InviteRecord
  <2>4. \A d \in GateEvents : ~Serves(i, d)
    BY Zenon, <1>1, <1>2, <1>3, GateAssumption DEF GateInv, InvitesServeOne
  <2> QED
    BY <1>1, <1>2, <2>1, <2>2, <2>3, <2>4, GateAssumption DEF InviteRecord, GateInv, InvitesServeOne
<1>4. CASE r.event # NoGateEvent
  <2>1. ClaimedBy(r, e, now) = r
    BY Zenon, <1>4 DEF ClaimedBy
  <2>2. r.event = e
    BY Zenon, <1>2, <1>4 DEF Spendable
  <2>3. \A d \in GateEvents : Serves(i, d) => d = e
    BY Zenon, <1>1, <1>2, <2>2 DEF GateInv, InvitesServeOne
  <2>4. r.claimed < r.expires
    BY Zenon, <1>1, <1>2, <1>4 DEF GateInv, InviteServesValid
  <2> QED
    BY Zenon, <1>1, <1>2, <2>1, <2>2, <2>3, <2>4, GateAssumption
       DEF InviteRecord, GateInv, InvitesServeOne
<1> QED
  BY Zenon, <1>3, <1>4

\* The invite records after a claim of i by e, whoever goes on with it.
LEMMA ClaimWritten ==
    ASSUME GateInv, NEW i \in Invites, NEW e \in GateEvents, NEW now \in Nat,
           Spendable(i, e, now), e.valid,
           invites' = [invites EXCEPT ![i] = ClaimedBy(@, e, now)],
           minted' = minted, via' = via,
           \A j \in Invites, d \in GateEvents :
               Serves(j, d)' => Serves(j, d) \/ (j = i /\ d = e)
    PROVE  /\ invites' \in [Invites -> InviteRecord \cup {NoInvite}]
           /\ InvitesServeOne' /\ InviteServesValid'
<1>1. PICK r : r = ClaimedBy(invites[i], e, now)
  BY Zenon
<1>2. /\ invites' = [invites EXCEPT ![i] = r] /\ r \in InviteRecord /\ r # NoInvite
      /\ r.event = e /\ r.claimed < r.expires /\ InviteFor[i] \in {NoInvite, e.agent}
      /\ i \in minted /\ \A d \in GateEvents : Serves(i, d) => d = e
  BY <1>1, ClaimRecord
<1>3. /\ invites' \in [Invites -> InviteRecord \cup {NoInvite}] /\ invites'[i] = r
      /\ \A j \in Invites \ {i} : invites'[j] = invites[j]
  BY Zenon, <1>2 DEF GateInv, GateTypes
<1>4. InviteServesValid'
  BY Zenon, <1>2, <1>3 DEF GateInv, InviteServesValid
<1>5. ASSUME NEW j \in Invites
      PROVE  /\ invites'[j] # NoInvite => j \in minted
             /\ \A d \in GateEvents : Serves(j, d)' =>
                   j \in minted /\ (invites'[j] # NoInvite => invites'[j].event = d)
             /\ \A c, d \in GateEvents : Serves(j, c)' /\ Serves(j, d)' => c = d
  <2>1. CASE j = i
    BY Zenon, <1>2, <1>3, <2>1
  <2>2. CASE j # i
    <3>1. \A d \in GateEvents : Serves(j, d)' => Serves(j, d)
      BY Zenon, <2>2
    <3>2. invites'[j] = invites[j]
      BY Zenon, <1>3, <2>2
    <3> QED
      BY Zenon, <3>1, <3>2 DEF GateInv, InvitesServeOne
  <2> QED
    BY Zenon, <2>1, <2>2
<1>6. InvitesServeOne'
  BY Zenon, <1>5 DEF InvitesServeOne
<1> QED
  BY Zenon, <1>3, <1>4, <1>6

LEMMA ClaimStep ==
    ASSUME GateInv, NEW h \in GateHandlers, ClaimAdmissionInvite(h)
    PROVE  GateInv'
<1>0. GateTypes
  BY Zenon DEF GateInv
<1>1. PICK x \in Admitting : x = handlers[h] /\ x.at = "claim"
  BY Zenon, <1>0, AtStep DEF ClaimAdmissionInvite
<1>2. handlers[h] # GateIdle
  BY Zenon, <1>1, GateIdleFields
<1>3. PICK e \in GateEvents, now \in Nat : e = x.event /\ now = x.now
  BY Zenon DEF Admitting
<1>4. Cleared(x)
  BY Zenon, <1>1 DEF GateInv, HandlersCleared
<1>5. e.valid /\ e.token \in Invites /\ x.invited /\ x.as = "admitted"
  BY Zenon, <1>1, <1>3, <1>4 DEF Cleared
<1>6. PICK i \in Invites : i = e.token
  BY Zenon, <1>5
<1>7. /\ kept' = kept /\ ownerAsked' = ownerAsked
      /\ via' = via /\ minted' = minted /\ ruled' = ruled /\ policy' = policy
      /\ published' = published /\ gateClock' = gateClock
  BY Zenon DEF ClaimAdmissionInvite, gateEnv
<1>8. policy \in Policies /\ policy # "down" /\ published \in Policies /\ gateClock \in Nat
  BY Zenon, <1>0, <1>2 DEF GateInv, HandlersCleared, GateTypes
<1>9. Finish(h) => /\ handlers' \in [GateHandlers -> {GateIdle} \cup Arrived \cup Admitting]
                   /\ handlers'[h] = GateIdle
                   /\ \A g \in GateHandlers \ {h} : handlers'[g] = handlers[g]
  BY Zenon, <1>0 DEF Finish, Goto, GateTypes
<1>10. ASSUME Finish(h), invites' = invites
       PROVE  GateInv'
  BY Zenon, <1>7, <1>8, <1>9, <1>10, GateQuiet
<1>11. KeptRightly'
  BY Zenon, <1>7 DEF GateInv, KeptRightly
<1>12. ASSUME Finish(h), Spendable(i, e, now),
              invites' = [invites EXCEPT ![i] = ClaimedBy(@, e, now)]
       PROVE  GateInv'
  <2>1. \A j \in Invites, d \in GateEvents : Serves(j, d)' => Serves(j, d)
    BY Zenon, <1>7, <1>9, <1>12, GateIdleFields DEF Serves, HoldsClaim
  <2>2. /\ invites' \in [Invites -> InviteRecord \cup {NoInvite}]
        /\ InvitesServeOne' /\ InviteServesValid'
    BY Zenon, <1>5, <1>7, <1>12, <2>1, ClaimWritten
  <2>3. GateTypes'
    BY Zenon, <1>0, <1>7, <1>9, <1>12, <2>2 DEF GateTypes
  <2>4. HandlersCleared'
    BY Zenon, <1>7, <1>8, <1>9, <1>12, GateIdleFields DEF GateInv, HandlersCleared, Cleared, Vouched
  <2> QED
    BY Zenon, <1>11, <2>2, <2>3, <2>4 DEF GateInv
<1>13. ASSUME Spendable(i, e, now),
              invites' = [invites EXCEPT ![i] = ClaimedBy(@, e, now)],
              Goto(h, [x EXCEPT !.at = IF e.kind = "moderation" THEN "rule" ELSE "accept"])
       PROVE  GateInv'
  <2> DEFINE at == IF e.kind = "moderation" THEN "rule" ELSE "accept"
             y == [x EXCEPT !.at = at]
  <2>1. /\ y \in Admitting /\ y.at = at /\ y.event = e /\ y.invited = x.invited /\ y.as = x.as
    BY Zenon, <1>3 DEF Admitting
  <2>2. e.kind = "moderation" => at # "accept"
    BY Zenon
  <2>3. at # "claim"
    BY Zenon
  <2>4. handlers' = [handlers EXCEPT ![h] = y]
    BY Zenon, <1>13 DEF Goto
  <2> HIDE DEF y, at
  <2>5. handlers'[h] = y /\ \A g \in GateHandlers \ {h} : handlers'[g] = handlers[g]
    BY Zenon, <1>0, <2>4 DEF GateTypes
  <2>6. Cleared(y)'
    BY Zenon, <1>1, <1>3, <1>4, <1>5, <1>7, <2>1, <2>2, <2>3 DEF Cleared, Vouched
  <2>7. HandlersCleared'
    BY Zenon, <1>2, <1>7, <2>1, <2>4, <2>6, ClearedKept
  <2>8. \A j \in Invites, d \in GateEvents :
            Serves(j, d)' => Serves(j, d) \/ (j = i /\ d = e)
    BY Zenon, <1>6, <1>7, <2>1, <2>5 DEF Serves, HoldsClaim
  <2>9. /\ invites' \in [Invites -> InviteRecord \cup {NoInvite}]
        /\ InvitesServeOne' /\ InviteServesValid'
    BY Zenon, <1>5, <1>7, <1>13, <2>8, ClaimWritten
  <2>10. GateTypes'
    BY Zenon, <1>0, <1>7, <2>1, <2>4, <2>9 DEF GateTypes
  <2> QED
    BY Zenon, <1>11, <2>7, <2>9, <2>10 DEF GateInv
<1>14. \/ Finish(h) /\ invites' = invites
       \/ /\ Finish(h) /\ Spendable(i, e, now)
          /\ invites' = [invites EXCEPT ![i] = ClaimedBy(@, e, now)]
       \/ /\ Spendable(i, e, now)
          /\ invites' = [invites EXCEPT ![i] = ClaimedBy(@, e, now)]
          /\ Goto(h, [x EXCEPT !.at = IF e.kind = "moderation" THEN "rule" ELSE "accept"])
  BY Zenon, <1>1, <1>3, <1>6 DEF ClaimAdmissionInvite
<1> QED
  BY Zenon, <1>10, <1>12, <1>13, <1>14

LEMMA RuleStep ==
    ASSUME GateInv, NEW h \in GateHandlers, Rule(h)
    PROVE  GateInv'
<1>0. GateTypes
  BY Zenon DEF GateInv
<1>1. PICK x \in Admitting : x = handlers[h] /\ x.at = "rule"
  BY Zenon, <1>0, AtStep DEF Rule
<1>2. handlers[h] # GateIdle
  BY Zenon, <1>1, GateIdleFields
<1>3. PICK e \in GateEvents : e = x.event
  BY Zenon DEF Admitting
<1>4. Cleared(x)
  BY Zenon, <1>1 DEF GateInv, HandlersCleared
<1>5. /\ kept' = kept /\ ownerAsked' = ownerAsked /\ invites' = invites
      /\ via' = via /\ minted' = minted /\ policy' = policy
      /\ published' = published /\ gateClock' = gateClock
  BY Zenon DEF Rule, gateEnv
<1>6. policy \in Policies /\ policy # "down" /\ published \in Policies /\ gateClock \in Nat
  BY Zenon, <1>0, <1>2 DEF GateInv, HandlersCleared, GateTypes
<1>7. CASE Finish(h) /\ ruled' = ruled
  <2>1. /\ handlers' \in [GateHandlers -> {GateIdle} \cup Arrived \cup Admitting]
        /\ handlers'[h] = GateIdle
        /\ \A g \in GateHandlers \ {h} : handlers'[g] = handlers[g]
    BY Zenon, <1>0, <1>7 DEF Finish, Goto, GateTypes
  <2> QED
    BY Zenon, <1>5, <1>6, <1>7, <2>1, GateQuiet
<1>8. CASE Goto(h, [x EXCEPT !.at = "accept"]) /\ ruled' = ruled \cup {e}
  <2> DEFINE y == [x EXCEPT !.at = "accept"]
  <2>1. /\ y \in Admitting /\ y.at = "accept" /\ y.event = e
        /\ y.invited = x.invited /\ y.as = x.as
    BY Zenon, <1>3 DEF Admitting
  <2>2. handlers' = [handlers EXCEPT ![h] = y]
    BY Zenon, <1>8 DEF Goto
  <2> HIDE DEF y
  <2>3. handlers'[h] = y /\ \A g \in GateHandlers \ {h} : handlers'[g] = handlers[g]
    BY Zenon, <1>0, <2>2 DEF GateTypes
  <2>4. Cleared(y)'
    BY Zenon, <1>1, <1>3, <1>4, <1>8, <2>1 DEF Cleared, Vouched
  <2>5. HandlersCleared'
    BY Zenon, <1>2, <1>5, <1>8, <2>1, <2>2, <2>4, ClearedKept
  <2>6. \A j \in Invites, d \in GateEvents : Serves(j, d)' => Serves(j, d)
    BY <1>1, <1>3, <1>5, <2>1, <2>3 DEF Serves, HoldsClaim
  <2>7. GateTypes'
    BY Zenon, <1>0, <1>5, <1>8, <2>1, <2>2 DEF GateTypes
  <2>8. KeptRightly' /\ InviteServesValid'
    BY Zenon, <1>5, <1>8 DEF GateInv, KeptRightly, InviteServesValid
  <2>9. InvitesServeOne'
    BY Zenon, <1>5, <2>6 DEF GateInv, InvitesServeOne
  <2> QED
    BY Zenon, <2>5, <2>7, <2>8, <2>9 DEF GateInv
<1> QED
  BY Zenon, <1>1, <1>3, <1>7, <1>8 DEF Rule

LEMMA AcceptStep ==
    ASSUME GateInv, NEW h \in GateHandlers, AcceptEvent(h)
    PROVE  GateInv'
<1>0. GateTypes
  BY Zenon DEF GateInv
<1>1. PICK x \in Admitting : x = handlers[h] /\ x.at = "accept"
  BY Zenon, <1>0, AtStep DEF AcceptEvent
<1>2. handlers[h] # GateIdle
  BY Zenon, <1>1, GateIdleFields
<1>3. PICK e \in GateEvents, as \in {"admitted", "pending"} : e = x.event /\ as = x.as
  BY Zenon DEF Admitting
<1>4. Cleared(x)
  BY Zenon, <1>1 DEF GateInv, HandlersCleared
<1>5. /\ invites' = invites /\ minted' = minted /\ policy' = policy /\ ruled' = ruled
      /\ published' = published /\ gateClock' = gateClock
  BY Zenon DEF AcceptEvent, gateEnv
<1>6. policy \in Policies /\ policy # "down" /\ published \in Policies /\ gateClock \in Nat
  BY Zenon, <1>0, <1>2 DEF GateInv, HandlersCleared, GateTypes
<1>7. /\ handlers' \in [GateHandlers -> {GateIdle} \cup Arrived \cup Admitting]
      /\ handlers'[h] = GateIdle
      /\ \A g \in GateHandlers \ {h} : handlers'[g] = handlers[g]
  BY Zenon, <1>0 DEF AcceptEvent, Finish, Goto, GateTypes
<1>8. CASE kept' = kept /\ ownerAsked' = ownerAsked /\ via' = via
  BY Zenon, <1>5, <1>6, <1>7, <1>8, GateQuiet
<1>9. ASSUME kept[e] = "none", kept' = [kept EXCEPT ![e] = as],
             ownerAsked' = IF as = "pending" THEN [ownerAsked EXCEPT ![e] = @ + 1] ELSE ownerAsked,
             via' = IF x.invited THEN [via EXCEPT ![e] = e.token] ELSE via
      PROVE  GateInv'
  <2>1. /\ x.invited => e.token \in Invites /\ as = "admitted"
        /\ e.kind = "moderation" => as = "admitted" /\ e \in ruled
        /\ "open" \notin Policies => e.agent \notin BlockedAgents
        /\ as = "admitted" /\ "open" \notin Policies => e.agent \in KnownAgents \/ x.invited
    BY Zenon, <1>1, <1>3, <1>4 DEF Cleared, Vouched
  <2>2. ownerAsked[e] = 0 /\ via[e] = NoInvite
    BY Zenon, <1>9 DEF GateInv, KeptRightly
  <2>3. /\ kept' \in [GateEvents -> {"none", "pending", "admitted", "denied"}]
        /\ kept'[e] = as /\ \A d \in GateEvents \ {e} : kept'[d] = kept[d]
    BY Zenon, <1>0, <1>9 DEF GateTypes
  <2>4. /\ ownerAsked' \in [GateEvents -> Nat]
        /\ ownerAsked'[e] = IF as = "pending" THEN 1 ELSE 0
        /\ \A d \in GateEvents \ {e} : ownerAsked'[d] = ownerAsked[d]
    <3>1. CASE as = "pending"
      <4>1. ownerAsked' = [ownerAsked EXCEPT ![e] = 1]
        BY <1>0, <1>9, <2>2, <3>1 DEF GateTypes
      <4> QED
        BY Zenon, <1>0, <3>1, <4>1 DEF GateTypes
    <3>2. CASE as # "pending"
      BY Zenon, <1>0, <1>9, <2>2, <3>2 DEF GateTypes
    <3> QED
      BY Zenon, <3>1, <3>2
  <2>5. /\ via' \in [GateEvents -> Invites \cup {NoInvite}]
        /\ via'[e] = IF x.invited THEN e.token ELSE NoInvite
        /\ \A d \in GateEvents \ {e} : via'[d] = via[d]
    <3>1. CASE x.invited
      BY Zenon, <1>0, <1>9, <2>1, <3>1 DEF GateTypes
    <3>2. CASE ~x.invited
      BY Zenon, <1>0, <1>9, <2>2, <3>2 DEF GateTypes
    <3> QED
      BY Zenon, <3>1, <3>2
  <2>6. GateTypes'
    BY Zenon, <1>0, <1>5, <1>7, <2>3, <2>4, <2>5 DEF GateTypes
  <2>7. HandlersCleared'
    BY Zenon, <1>5, <1>6, <1>7, GateIdleFields DEF GateInv, HandlersCleared, Cleared, Vouched
  <2>8. ASSUME NEW d \in GateEvents
        PROVE  /\ kept'[d] = "none" => ownerAsked'[d] = 0 /\ via'[d] = NoInvite
               /\ ownerAsked'[d] <= 1
               /\ kept'[d] = "pending" => ownerAsked'[d] > 0
               /\ d.kind = "moderation" /\ kept'[d] # "none" =>
                     kept'[d] = "admitted" /\ d \in ruled'
               /\ "open" \notin Policies =>
                     /\ kept'[d] = "admitted" =>
                          d.agent \in KnownAgents \/ via'[d] # NoInvite \/ ownerAsked'[d] > 0
                     /\ d.agent \in BlockedAgents => kept'[d] = "none"
    <3>1. CASE d = e
      <4>1. kept'[d] = as /\ as \in {"admitted", "pending"} /\ ruled' = ruled
        BY Zenon, <1>5, <2>3, <3>1
      <4>2. ownerAsked'[d] <= 1 /\ (as = "pending" => ownerAsked'[d] > 0)
        <5>1. ownerAsked'[d] = (IF as = "pending" THEN 1 ELSE 0)
          BY Zenon, <2>4, <3>1
        <5>2. CASE as = "pending"
          <6>1. ownerAsked'[d] = 1
            BY Zenon, <5>1, <5>2
          <6> QED
            BY <6>1
        <5>3. CASE as # "pending"
          <6>1. ownerAsked'[d] = 0
            BY Zenon, <5>1, <5>3
          <6>2. ownerAsked'[d] <= 1
            BY <6>1
          <6> QED
            BY Zenon, <5>3, <6>2
        <5> QED
          BY Zenon, <5>2, <5>3
      <4>3. x.invited => via'[d] # NoInvite
        BY Zenon, <2>1, <2>5, <3>1, GateAssumption
      <4>4. kept'[d] # "none" /\ (d.agent \in BlockedAgents => "open" \in Policies)
        BY Zenon, <2>1, <3>1, <4>1
      <4>5. d.kind = "moderation" => kept'[d] = "admitted" /\ d \in ruled'
        BY Zenon, <2>1, <3>1, <4>1
      <4>6. "open" \notin Policies /\ kept'[d] = "admitted" =>
              d.agent \in KnownAgents \/ via'[d] # NoInvite
        BY Zenon, <2>1, <3>1, <4>1, <4>3
      <4>7. kept'[d] = "pending" => ownerAsked'[d] > 0
        BY Zenon, <4>1, <4>2
      <4> QED
        BY <4>2, <4>4, <4>5, <4>6, <4>7, Zenon
    <3>2. CASE d # e
      BY <1>5, <2>3, <2>4, <2>5, <3>2 DEF GateInv, KeptRightly
    <3> QED
      BY Zenon, <3>1, <3>2
  <2>9. KeptRightly'
    BY Zenon, <2>8 DEF KeptRightly
  <2>10. InviteServesValid'
    BY Zenon, <1>5 DEF GateInv, InviteServesValid
  <2>11. ASSUME NEW j \in Invites, NEW d \in GateEvents, Serves(j, d)'
         PROVE  Serves(j, d)
    <3>1. CASE via'[d] = j /\ d # e
      BY Zenon, <2>5, <3>1 DEF Serves
    <3>2. CASE via'[d] = j /\ d = e
      <4>1. x.invited /\ e.token = j
        BY Zenon, <2>5, <3>2, GateAssumption
      <4>2. HoldsClaim(h, j, e)
        BY Zenon, <1>1, <1>3, <4>1 DEF HoldsClaim
      <4> QED
        BY Zenon, <3>2, <4>2 DEF Serves
    <3>3. CASE \E g \in GateHandlers : HoldsClaim(g, j, d)'
      BY Zenon, <1>7, <3>3, GateIdleFields DEF Serves, HoldsClaim
    <3> QED
      BY Zenon, <2>11, <3>1, <3>2, <3>3 DEF Serves
  <2>12. InvitesServeOne'
    BY Zenon, <1>5, <2>11 DEF GateInv, InvitesServeOne
  <2> QED
    BY Zenon, <2>6, <2>7, <2>9, <2>10, <2>12 DEF GateInv
<1> QED
  BY Zenon, <1>1, <1>3, <1>8, <1>9 DEF AcceptEvent, FreshEntry

LEMMA CreateStep ==
    ASSUME GateInv, NEW i \in Invites, CreateAdmissionInvite(i)
    PROVE  GateInv'
<1>0. GateTypes
  BY Zenon DEF GateInv
<1>1. /\ kept' = kept /\ ownerAsked' = ownerAsked /\ via' = via /\ ruled' = ruled
      /\ policy' = policy /\ published' = published /\ gateClock' = gateClock
      /\ handlers' = handlers
  BY Zenon DEF CreateAdmissionInvite, gateEnv
<1>2. /\ Swept \in [Invites -> InviteRecord \cup {NoInvite}]
      /\ \A j \in Invites : Swept[j] \in {NoInvite, invites[j]}
  BY Zenon, <1>0 DEF Swept, GateTypes
<1>3. PICK r : r = [expires |-> gateClock + InviteLifetime, event |-> NoGateEvent, claimed |-> 0]
  BY Zenon
<1>4. r \in InviteRecord /\ r.event = NoGateEvent
  BY <1>0, <1>3, GateAssumption DEF GateTypes, InviteRecord
<1>5. i \notin minted
  BY Zenon DEF CreateAdmissionInvite
<1>6. \/ invites' = [Swept EXCEPT ![i] = r] /\ minted' = minted \cup {i}
      \/ invites' = Swept /\ minted' = minted
  BY Zenon, <1>3 DEF CreateAdmissionInvite
<1>7. /\ invites' \in [Invites -> InviteRecord \cup {NoInvite}]
      /\ minted \subseteq minted' /\ minted' \subseteq Invites
      /\ \A j \in Invites : \/ invites'[j] \in {NoInvite, invites[j]}
                            \/ j = i /\ j \in minted' /\ invites'[j].event = NoGateEvent
  BY Zenon, <1>0, <1>2, <1>4, <1>6 DEF GateTypes
<1>8. GateTypes'
  BY Zenon, <1>0, <1>1, <1>7 DEF GateTypes
<1>9. HandlersCleared' /\ KeptRightly'
  BY Zenon, <1>1 DEF GateInv, HandlersCleared, KeptRightly, Cleared, Vouched
<1>10. InviteServesValid'
  BY Zenon, <1>7 DEF GateInv, InviteServesValid
<1>11. \A j \in Invites, d \in GateEvents : Serves(j, d)' => Serves(j, d)
  BY Zenon, <1>1 DEF Serves, HoldsClaim
<1>12. \A d \in GateEvents : ~Serves(i, d)
  BY Zenon, <1>5 DEF GateInv, InvitesServeOne
<1>13. ASSUME NEW j \in Invites
       PROVE  /\ invites'[j] # NoInvite => j \in minted'
              /\ \A d \in GateEvents : Serves(j, d)' =>
                    j \in minted' /\ (invites'[j] # NoInvite => invites'[j].event = d)
              /\ \A c, d \in GateEvents : Serves(j, c)' /\ Serves(j, d)' => c = d
  <2>1. CASE invites'[j] \in {NoInvite, invites[j]}
    BY Zenon, <1>7, <1>11, <2>1 DEF GateInv, InvitesServeOne
  <2>2. CASE j = i /\ j \in minted'
    BY Zenon, <1>11, <1>12, <2>2
  <2> QED
    BY Zenon, <1>7, <2>1, <2>2
<1>14. InvitesServeOne'
  BY Zenon, <1>13 DEF InvitesServeOne
<1> QED
  BY Zenon, <1>8, <1>9, <1>10, <1>14 DEF GateInv

LEMMA DecideStep ==
    ASSUME GateInv, NEW e \in GateEvents, OwnerDecides(e)
    PROVE  GateInv'
<1>0. GateTypes
  BY Zenon DEF GateInv
<1>1. /\ invites' = invites /\ ownerAsked' = ownerAsked /\ via' = via /\ ruled' = ruled
      /\ policy' = policy /\ published' = published /\ gateClock' = gateClock
      /\ handlers' = handlers /\ minted' = minted
  BY Zenon DEF OwnerDecides, gateEnv
<1>2. PICK v \in {"admitted", "denied"} : kept' = [kept EXCEPT ![e] = v]
  BY Zenon DEF OwnerDecides
<1>3. kept[e] = "pending" /\ ownerAsked[e] > 0 /\ e.kind # "moderation"
      /\ ("open" \notin Policies => e.agent \notin BlockedAgents)
  BY Zenon DEF OwnerDecides, GateInv, KeptRightly
<1>4. /\ kept' \in [GateEvents -> {"none", "pending", "admitted", "denied"}]
      /\ kept'[e] = v /\ \A d \in GateEvents \ {e} : kept'[d] = kept[d]
  BY Zenon, <1>0, <1>2 DEF GateTypes
<1>5. GateTypes' /\ HandlersCleared' /\ InviteServesValid'
  BY Zenon, <1>0, <1>1, <1>4
  DEF GateInv, GateTypes, HandlersCleared, InviteServesValid, Cleared, Vouched
<1>6. KeptRightly'
  BY Zenon, <1>1, <1>3, <1>4 DEF GateInv, KeptRightly
<1>7. InvitesServeOne'
  <2>1. \A j \in Invites, d \in GateEvents : Serves(j, d)' => Serves(j, d)
    BY Zenon, <1>1 DEF Serves, HoldsClaim
  <2> QED
    BY Zenon, <1>1, <2>1 DEF GateInv, InvitesServeOne
<1> QED
  BY Zenon, <1>5, <1>6, <1>7 DEF GateInv

\* What arrives, what the world does, and the process going down and coming back.
LEMMA GateOtherSteps ==
    ASSUME GateInv,
           \/ \E h \in GateHandlers, e \in GateEvents : Arrive(h, e)
           \/ WorldMoves \/ GateCrash \/ GateStart \/ GateTick
    PROVE  GateInv'
<1>0. GateTypes
  BY Zenon DEF GateInv
<1>1. ASSUME NEW h \in GateHandlers, NEW e \in GateEvents, Arrive(h, e)
      PROVE  GateInv'
  <2> DEFINE x == [at |-> "policy", event |-> e, now |-> gateClock]
  <2>1. x \in Arrived
    BY Zenon, <1>0 DEF Arrived, GateTypes
  <2>2. handlers' = [handlers EXCEPT ![h] = x]
    BY Zenon, <1>1 DEF Arrive, Goto
  <2> HIDE DEF x
  <2>3. /\ handlers' \in [GateHandlers -> {GateIdle} \cup Arrived \cup Admitting]
        /\ handlers'[h] \in Arrived
        /\ \A g \in GateHandlers \ {h} : handlers'[g] = handlers[g]
    BY Zenon, <1>0, <2>1, <2>2 DEF GateTypes
  <2> QED
    BY Zenon, <1>0, <1>1, <2>3, GateQuiet DEF Arrive, gateEnv, GateRunning, GateTypes
<1>2. CASE WorldMoves
  <2>1. published' \in Policies
    BY Zenon, <1>0, <1>2 DEF WorldMoves, GateTypes
  <2> QED
    BY Zenon, <1>0, <1>2, <2>1, GateQuiet DEF WorldMoves, GateTypes, GateInv, HandlersCleared
<1>3. CASE GateCrash
  BY Zenon, <1>0, <1>3, GateQuiet DEF GateCrash, gateEnv, GateTypes
<1>4. CASE GateStart
  <2>1. policy' \in Policies /\ policy' # "down"
    BY Zenon, <1>4, GateAssumption DEF GateStart
  <2> QED
    BY Zenon, <1>0, <1>4, <2>1, GateQuiet DEF GateStart, gateEnv, GateTypes
<1>5. CASE GateTick
  BY <1>0, <1>5, GateQuiet DEF GateTick, gateEnv, GateTypes, GateInv, HandlersCleared
<1> QED
  BY Zenon, <1>1, <1>2, <1>3, <1>4, <1>5

LEMMA GateInitially == GateInit => GateInv
<1> SUFFICES ASSUME GateInit PROVE GateInv
  BY Zenon
<1>1. GateTypes
  BY Zenon DEF GateInit, GateTypes
<1>2. HandlersCleared
  BY Zenon, GateIdleFields DEF GateInit, HandlersCleared
<1>3. KeptRightly /\ InviteServesValid
  BY DEF GateInit, KeptRightly, InviteServesValid
<1>4. \A i \in Invites, e \in GateEvents : ~Serves(i, e)
  BY Zenon, GateIdleFields, GateAssumption DEF GateInit, Serves, HoldsClaim
<1>5. InvitesServeOne
  BY Zenon, <1>4 DEF GateInit, InvitesServeOne
<1> QED
  BY Zenon, <1>1, <1>2, <1>3, <1>5 DEF GateInv

\* Everything the gate relies on, in every reachable state.
THEOREM GateInvariant == GateSpec => []GateInv
<1>1. GateInv /\ [GateNext]_gateVars => GateInv'
  <2> SUFFICES ASSUME GateInv, [GateNext]_gateVars PROVE GateInv'
    BY Zenon
  <2>1. CASE UNCHANGED gateVars
    BY Zenon, <2>1, GateQuiet DEF gateVars, gateEnv, GateInv, GateTypes, HandlersCleared
  <2>2. ASSUME NEW h \in GateHandlers, HandlerMoves(h) PROVE GateInv'
    BY Zenon, <2>2, GateOtherSteps, PolicyStep, ClaimStep, RuleStep, AcceptStep DEF HandlerMoves
  <2> QED
    BY Zenon, <2>1, <2>2, CreateStep, DecideStep, GateOtherSteps DEF GateNext
<1> QED
  BY <1>1, GateInitially, PTL DEF GateSpec

\* Nothing passes the gate unasked, for any events, invites, handlers, policies and
\* bounds: an invite serves one valid event of a sender it names however handlers
\* interleave, a write fails or the process dies between the claim and the
\* acceptance; a stranger's event needs an invite or the owner, who is asked about
\* it once; and a moderation decision is in force before it is accepted.
THEOREM PassedWasAsked == GateSpec => []NothingPassesUnasked
<1>1. ASSUME GateInv PROVE NothingPassesUnasked
  <2>1. InviteAdmitsOne
    <3> SUFFICES ASSUME NEW d \in GateEvents, NEW e \in GateEvents,
                        via[d] # NoInvite, via[d] = via[e]
                 PROVE  d = e
      BY Zenon DEF InviteAdmitsOne
    <3>1. PICK i \in Invites : i = via[d] /\ i = via[e]
      BY Zenon, <1>1 DEF GateInv, GateTypes
    <3> QED
      BY Zenon, <1>1, <3>1 DEF GateInv, InvitesServeOne, Serves
  <2>2. InviteServesValid /\ StrangersAreVouchedFor /\ OwnerAskedOnce /\ ModerationIsRuled
    BY Zenon, <1>1
       DEF GateInv, KeptRightly, StrangersAreVouchedFor, OwnerAskedOnce, ModerationIsRuled
  <2> QED
    BY SMTT(40), <2>1, <2>2 DEF NothingPassesUnasked
<1> QED
  BY <1>1, GateInvariant, PTL

-----------------------------------------------------------------------------
(***************************************************************************)
(* The tunnel relay. For any sessions, clients, addresses and clocks: an   *)
(* address is bound to one endpoint of a live session, and the relay       *)
(* forwards only to the other one. TunnelInv ties the sessions and the     *)
(* bindings to each other (MapsAgree), and both to who was told to be      *)
(* registered (AllTold).                                                   *)
(***************************************************************************)

TunnelRecords ==
    [live : BOOLEAN, endpoints : [TunnelRoles -> TunnelEndpoints \cup {NoEndpoint}],
     forwarded : Nat, touched : Nat]
TunnelAnswers ==
    [kind : {"challenge", "status"}, session : Tunnels, role : TunnelRoles, token : Nat,
     peerReady : BOOLEAN, to : Tuples]

\* The sessions and the bindings agree, and a proven endpoint's session is live.
MapsAgree(sessions, bound) ==
    /\ sessions \in [Tunnels -> TunnelRecords]
    /\ bound \in [Tuples -> TunnelBindings \cup {NoBinding}]
    /\ \A t \in Tuples : bound[t] # NoBinding =>
          LET e == sessions[bound[t].session].endpoints[bound[t].role]
          IN  Registered(e) /\ e.tuple = t
    /\ \A s \in Tunnels, r \in TunnelRoles :
          LET e == sessions[s].endpoints[r]
          IN  /\ Registered(e) => bound[e.tuple] = [session |-> s, role |-> r]
              /\ e # NoEndpoint => sessions[s].live

\* The endpoint of a session has been told at an address that it is registered there.
Told(sent, s, r, t) ==
    \E a \in sent : a.kind = "status" /\ a.session = s /\ a.role = r /\ a.to = t
ToldSomewhere(sent, s, r) == \E a \in sent : a.kind = "status" /\ a.session = s /\ a.role = r

\* Whoever is proven was told, and nobody is told of a peer who was not.
AllTold(sessions, sent) ==
    /\ sent \subseteq TunnelAnswers
    /\ \A s \in Tunnels, r \in TunnelRoles :
          LET e == sessions[s].endpoints[r] IN  Registered(e) => Told(sent, s, r, e.tuple)
    /\ \A a \in sent : a.kind = "status" /\ a.peerReady => ToldSomewhere(sent, a.session, OtherRole(a.role))

TunnelInv ==
    /\ MapsAgree(tunnels, byTuple) /\ AllTold(tunnels, answers)
    /\ tuple \in [TunnelClients -> Tuples]
    /\ held \in [TunnelClients -> Nat]
    /\ tokens \in Nat /\ tunnelClock \in Nat
    /\ \A f \in forwards : Told(answers, f.session, OtherRole(f.role), f.to)
    /\ ready \subseteq TunnelClients
    /\ \A c \in ready : ToldSomewhere(answers, SessionOf[c], OtherRole(RoleOf[c]))

LEMMA TwoRoles == \A r \in TunnelRoles : OtherRole(r) \in TunnelRoles /\ OtherRole(r) # r
BY Zenon DEF TunnelRoles, OtherRole

LEMMA Clients ==
    \A c \in TunnelClients : SessionOf[c] \in Tunnels /\ RoleOf[c] \in TunnelRoles
BY Zenon, TunnelAssumption DEF Tunnels

\* What expireLocked leaves of the sessions and the bindings agrees too.
LEMMA SweptAgree ==
    ASSUME TunnelInv
    PROVE  MapsAgree(SweptTunnels, SweptBindings) /\ AllTold(SweptTunnels, answers)
<1>0. NoTunnel \in TunnelRecords /\ \A r \in TunnelRoles : NoTunnel.endpoints[r] = NoEndpoint
  BY Zenon DEF NoTunnel, TunnelRecords
<1>1. /\ SweptTunnels \in [Tunnels -> TunnelRecords]
      /\ \A s \in Tunnels : SweptTunnels[s] = IF Expired(s) THEN NoTunnel ELSE tunnels[s]
  BY Zenon, <1>0 DEF SweptTunnels, TunnelInv, MapsAgree
<1>2. \A s \in Tunnels, r \in TunnelRoles : Registered(SweptTunnels[s].endpoints[r]) =>
         ~Expired(s) /\ SweptTunnels[s] = tunnels[s]
  BY Zenon, <1>0, <1>1 DEF Registered
<1> DEFINE Gone(t) ==
        \E s \in Tunnels, r \in TunnelRoles :
            /\ Expired(s) /\ tunnels[s].endpoints[r] # NoEndpoint
            /\ tunnels[s].endpoints[r].tuple = t /\ tunnels[s].endpoints[r].registered
<1>3. /\ SweptBindings \in [Tuples -> TunnelBindings \cup {NoBinding}]
      /\ \A t \in Tuples : SweptBindings[t] = IF Gone(t) THEN NoBinding ELSE byTuple[t]
  BY Zenon DEF SweptBindings, TunnelInv, MapsAgree
<1> HIDE DEF Gone
<1>4. ASSUME NEW t \in Tuples, SweptBindings[t] # NoBinding
      PROVE  LET e == SweptTunnels[SweptBindings[t].session].endpoints[SweptBindings[t].role]
             IN  Registered(e) /\ e.tuple = t
  <2>1. ~Gone(t) /\ SweptBindings[t] = byTuple[t] /\ byTuple[t] \in TunnelBindings
    BY <1>3, <1>4 DEF TunnelInv, MapsAgree
  <2> DEFINE s == byTuple[t].session
             r == byTuple[t].role
  <2>2. s \in Tunnels /\ r \in TunnelRoles
    BY Zenon, <2>1 DEF TunnelBindings
  <2>3. Registered(tunnels[s].endpoints[r]) /\ tunnels[s].endpoints[r].tuple = t
    BY Zenon, <1>4, <2>1 DEF TunnelInv, MapsAgree
  <2>4. ~Expired(s)
    BY Zenon, <2>1, <2>2, <2>3 DEF Gone, Registered
  <2> QED
    BY Zenon, <1>1, <2>1, <2>2, <2>3, <2>4
<1>5. ASSUME NEW s \in Tunnels, NEW r \in TunnelRoles, Registered(SweptTunnels[s].endpoints[r])
      PROVE  /\ SweptBindings[SweptTunnels[s].endpoints[r].tuple] = [session |-> s, role |-> r]
             /\ SweptTunnels[s].live
             /\ Told(answers, s, r, SweptTunnels[s].endpoints[r].tuple)
  <2> DEFINE e == tunnels[s].endpoints[r]
  <2>1. SweptTunnels[s] = tunnels[s] /\ ~Expired(s) /\ Registered(e)
    BY Zenon, <1>2, <1>5
  <2>2. e \in TunnelEndpoints /\ e.tuple \in Tuples
    BY <2>1 DEF TunnelInv, MapsAgree, TunnelRecords, TunnelEndpoints, Registered
  <2>3. byTuple[e.tuple] = [session |-> s, role |-> r] /\ tunnels[s].live
        /\ Told(answers, s, r, e.tuple)
    BY <2>1 DEF TunnelInv, MapsAgree, AllTold, Registered
  <2>4. ~Gone(e.tuple)
    <3> SUFFICES ASSUME NEW x \in Tunnels, NEW q \in TunnelRoles, Expired(x),
                        Registered(tunnels[x].endpoints[q]), tunnels[x].endpoints[q].tuple = e.tuple
                 PROVE  FALSE
      BY Zenon DEF Gone, Registered
    <3>1. byTuple[e.tuple] = [session |-> x, role |-> q]
      BY DEF TunnelInv, MapsAgree
    <3> QED
      BY <2>1, <2>3, <3>1
  <2> QED
    BY Zenon, <1>3, <2>1, <2>2, <2>3, <2>4
<1>6. \A s \in Tunnels, r \in TunnelRoles :
         SweptTunnels[s].endpoints[r] # NoEndpoint => SweptTunnels[s].live
  <2>1. \A s \in Tunnels, r \in TunnelRoles : tunnels[s].endpoints[r] # NoEndpoint => tunnels[s].live
    BY Zenon DEF TunnelInv, MapsAgree
  <2> QED
    BY Zenon, <1>0, <1>1, <2>1
<1> QED
  <2>1. MapsAgree(SweptTunnels, SweptBindings)
    BY Zenon, <1>1, <1>3, <1>4, <1>5, <1>6 DEF MapsAgree
  <2>2. AllTold(SweptTunnels, answers)
    BY Zenon, <1>5 DEF AllTold, TunnelInv
  <2> QED
    BY Zenon, <2>1, <2>2

LEMMA SameEndpoints ==
    ASSUME NEW old, NEW new \in [Tunnels -> TunnelRecords], NEW bound, NEW sent,
           MapsAgree(old, bound), AllTold(old, sent),
           \A s \in Tunnels : new[s].endpoints = old[s].endpoints /\ (old[s].live => new[s].live)
    PROVE  MapsAgree(new, bound) /\ AllTold(new, sent)
<1>1. \A t \in Tuples : bound[t] # NoBinding => bound[t].session \in Tunnels
  BY DEF MapsAgree, TunnelBindings
<1> QED
  BY <1>1 DEF MapsAgree, AllTold

LEMMA AnswerSent ==
    ASSUME NEW sessions, NEW sent, AllTold(sessions, sent), NEW a \in TunnelAnswers,
           a.kind = "status" /\ a.peerReady => ToldSomewhere(sent, a.session, OtherRole(a.role))
    PROVE  AllTold(sessions, sent \cup {a})
BY DEF AllTold, Told, ToldSomewhere

\* A step of the relay that leaves its maps in agreement and everybody told.
LEMMA RelayStep ==
    ASSUME TunnelInv, UNCHANGED <<tuple, held, ready, tunnelClock>>, tokens' \in Nat,
           MapsAgree(tunnels', byTuple'), AllTold(tunnels', answers'), answers \subseteq answers',
           \A f \in forwards' : f \in forwards \/ Told(answers', f.session, OtherRole(f.role), f.to)
    PROVE  TunnelInv'
BY Zenon DEF TunnelInv, Told, ToldSomewhere

LEMMA KeepsStep ==
    ASSUME TunnelInv, RelayKeeps(SweptTunnels),
           UNCHANGED <<forwards, tuple, held, ready, tunnelClock>>
    PROVE  TunnelInv'
BY Zenon, SweptAgree, RelayStep DEF RelayKeeps, TunnelInv

\* An answer to a client, about its peer in the sessions that are left.
LEMMA AnswerOK ==
    ASSUME TunnelInv, NEW c \in TunnelClients, NEW token \in Nat,
           NEW kind \in {"challenge", "status"}, NEW peer \in BOOLEAN,
           kind = "status" /\ peer => PeerReady(PeerOf(SweptTunnels, c))
    PROVE  LET a == TunnelAnswer(kind, c, token, peer)
           IN  /\ a \in TunnelAnswers
               /\ a.kind = kind /\ a.session = SessionOf[c] /\ a.role = RoleOf[c] /\ a.to = tuple[c]
               /\ a.kind = "status" /\ a.peerReady =>
                     ToldSomewhere(answers, a.session, OtherRole(a.role))
<1> DEFINE a == TunnelAnswer(kind, c, token, peer)
<1>1. a \in TunnelAnswers /\ a.kind = kind /\ a.peerReady = peer
      /\ a.session = SessionOf[c] /\ a.role = RoleOf[c] /\ a.to = tuple[c]
  BY Zenon, Clients DEF TunnelInv, TunnelAnswer, TunnelAnswers
<1>2. ASSUME kind = "status", peer PROVE ToldSomewhere(answers, SessionOf[c], OtherRole(RoleOf[c]))
  <2>1. Registered(SweptTunnels[SessionOf[c]].endpoints[OtherRole(RoleOf[c])])
    BY Zenon, <1>2 DEF PeerReady, PeerOf
  <2> QED
    BY <2>1, Clients, TwoRoles, SweptAgree DEF AllTold, Told, ToldSomewhere
<1> QED
  BY Zenon, <1>1, <1>2

\* The sessions with other times, and perhaps another one live.
TouchedSession(new, old) ==
    /\ new \in [Tunnels -> TunnelRecords]
    /\ \A s \in Tunnels : new[s].endpoints = old[s].endpoints /\ (old[s].live => new[s].live)

LEMMA TouchedOK ==
    ASSUME NEW sessions \in [Tunnels -> TunnelRecords], NEW c \in TunnelClients,
           tunnelClock \in Nat
    PROVE  TouchedSession(Touched(sessions, c), sessions)
BY Zenon, Clients DEF Touched, TouchedSession, TunnelRecords

Put(sessions, s0, r0, e) == [sessions EXCEPT ![s0].endpoints[r0] = e]
IsPut(new, sessions, s0, r0, e) ==
    /\ new \in [Tunnels -> TunnelRecords]
    /\ \A s \in Tunnels :
          /\ new[s].live = sessions[s].live
          /\ \A r \in TunnelRoles : new[s].endpoints[r] =
                IF s = s0 /\ r = r0 THEN e ELSE sessions[s].endpoints[r]

LEMMA EndpointPut ==
    ASSUME NEW sessions \in [Tunnels -> TunnelRecords], NEW s0 \in Tunnels, NEW r0 \in TunnelRoles,
           NEW e \in TunnelEndpoints
    PROVE  IsPut(Put(sessions, s0, r0, e), sessions, s0, r0, e)
<1>1. sessions[s0] \in TunnelRecords
  BY Zenon
<1>2. [sessions[s0].endpoints EXCEPT ![r0] = e] \in [TunnelRoles -> TunnelEndpoints \cup {NoEndpoint}]
  BY Zenon, <1>1 DEF TunnelRecords
<1>3. [sessions[s0] EXCEPT !.endpoints[r0] = e] \in TunnelRecords
  BY Zenon, <1>1, <1>2 DEF TunnelRecords
<1> QED
  BY Zenon, <1>1, <1>3 DEF TunnelRecords, Put, IsPut

LEMMA RegisterStep ==
    ASSUME TunnelInv, NEW c \in TunnelClients, RegisterLocked(SweptTunnels, c),
           UNCHANGED <<forwards, tuple, held, ready, tunnelClock>>
    PROVE  TunnelInv'
<1> DEFINE swept == SweptTunnels
           s0 == SessionOf[c]
           r0 == RoleOf[c]
           a == TunnelAnswer("challenge", c, tokens', FALSE)
           e0 == [tuple |-> tuple[c], token |-> tokens', registered |-> FALSE]
<1>1. CASE ~MayRegister(swept, c)
  BY Zenon, <1>1, KeepsStep DEF RegisterLocked
<1>2. CASE MayRegister(swept, c)
  <2>0. s0 \in Tunnels /\ r0 \in TunnelRoles /\ tuple[c] \in Tuples
    BY Zenon, Clients DEF TunnelInv
  <2>1. /\ tokens' = tokens + 1 /\ tokens' \in Nat
        /\ byTuple' = SweptBindings /\ answers' = answers \cup {a}
    BY <1>2 DEF RegisterLocked, TunnelInv, TunnelAnswer
  <2>2. MapsAgree(swept, SweptBindings) /\ AllTold(swept, answers)
    BY Zenon, SweptAgree
  <2>3. e0 \in TunnelEndpoints /\ ~Registered(e0) /\ ~Registered(swept[s0].endpoints[r0])
    BY Zenon, <1>2, <2>0, <2>1 DEF TunnelEndpoints, Registered, MayRegister
  <2>4. tunnels' = [Touched(swept, c) EXCEPT ![s0].live = TRUE, ![s0].endpoints[r0] = e0]
    BY Zenon, <1>2 DEF RegisterLocked
  <2> HIDE DEF e0
  <2>5. /\ tunnels' \in [Tunnels -> TunnelRecords]
        /\ tunnels'[s0].live
        /\ \A s \in Tunnels : /\ swept[s].live => tunnels'[s].live
                              /\ \A r \in TunnelRoles : tunnels'[s].endpoints[r] =
                                    IF s = s0 /\ r = r0 THEN e0 ELSE swept[s].endpoints[r]
    <3>1. swept \in [Tunnels -> TunnelRecords] /\ tunnelClock \in Nat
      BY Zenon, <2>2 DEF MapsAgree, TunnelInv
    <3>2. TouchedSession(Touched(swept, c), swept)
      BY Zenon, <2>0, <3>1, TouchedOK
    <3> DEFINE mid == [Touched(swept, c) EXCEPT ![s0].live = TRUE]
    <3>3. TouchedSession(mid, swept) /\ mid[s0].live
      BY Zenon, <2>0, <3>2 DEF TouchedSession, TunnelRecords
    <3>4. tunnels' = Put(mid, s0, r0, e0)
      BY Zenon, <2>0, <2>4 DEF Put
    <3> HIDE DEF mid, swept, s0, r0, a
    <3>5. mid \in [Tunnels -> TunnelRecords] /\ e0 \in TunnelEndpoints
      BY Zenon, <2>3, <3>3 DEF TouchedSession
    <3>6. IsPut(tunnels', mid, s0, r0, e0)
      BY <2>0, <3>4, <3>5, EndpointPut, Zenon
    <3> QED
      BY <2>0, <3>3, <3>6 DEF TouchedSession, IsPut
  <2> HIDE DEF swept
  <2>6. MapsAgree(tunnels', SweptBindings) /\ AllTold(tunnels', answers)
    <3>1. \A t \in Tuples : SweptBindings[t] # NoBinding => SweptBindings[t] \in TunnelBindings
      BY <2>2 DEF MapsAgree
    <3>2. \A s \in Tunnels, r \in TunnelRoles :
            Registered(tunnels'[s].endpoints[r]) <=>
            Registered(swept[s].endpoints[r]) /\ tunnels'[s].endpoints[r] = swept[s].endpoints[r]
      BY Zenon, <2>3, <2>5
    <3>3. \A s \in Tunnels, r \in TunnelRoles : Registered(swept[s].endpoints[r]) =>
            tunnels'[s].endpoints[r] = swept[s].endpoints[r]
      BY Zenon, <2>3, <2>5
    <3>4. \A s \in Tunnels, r \in TunnelRoles :
            tunnels'[s].endpoints[r] # NoEndpoint => tunnels'[s].live
      <4>1. \A s \in Tunnels, r \in TunnelRoles : swept[s].endpoints[r] # NoEndpoint => swept[s].live
        BY Zenon, <2>2 DEF MapsAgree
      <4> QED
        BY Zenon, <2>5, <4>1
    <3>5. AllTold(tunnels', answers)
      BY Zenon, <2>2, <3>2 DEF AllTold
    <3>6. ASSUME NEW t \in Tuples, SweptBindings[t] # NoBinding
          PROVE  LET e == tunnels'[SweptBindings[t].session].endpoints[SweptBindings[t].role]
                 IN  Registered(e) /\ e.tuple = t
      BY <2>2, <3>1, <3>3, <3>6 DEF MapsAgree, TunnelBindings
    <3>7. \A s \in Tunnels, r \in TunnelRoles : LET e == tunnels'[s].endpoints[r] IN
            Registered(e) => SweptBindings[e.tuple] = [session |-> s, role |-> r]
      BY <2>2, <3>2 DEF MapsAgree
    <3> QED
      BY <2>2, <2>5, <3>4, <3>5, <3>6, <3>7 DEF MapsAgree
  <2>7. AllTold(tunnels', answers')
    <3>1. a \in TunnelAnswers /\ a.kind = "challenge"
      BY Zenon, <2>1, AnswerOK
    <3> QED
      BY Zenon, <2>1, <2>6, <3>1, AnswerSent
  <2> QED
    BY Zenon, <2>1, <2>6, <2>7, RelayStep
<1> QED
  BY Zenon, <1>1, <1>2

LEMMA EchoStep ==
    ASSUME TunnelInv, NEW c \in TunnelClients, SweptBindings[tuple[c]] = NoBinding,
           EchoLocked(SweptTunnels, c), UNCHANGED <<forwards, tuple, held, ready, tunnelClock>>
    PROVE  TunnelInv'
<1> DEFINE swept == SweptTunnels
           s0 == SessionOf[c]
           r0 == RoleOf[c]
           old == swept[s0].endpoints[r0]
           e0 == [old EXCEPT !.registered = TRUE]
           peer == PeerReady(PeerOf(swept, c))
           a == TunnelAnswer("status", c, held[c], peer)
           b0 == [session |-> s0, role |-> r0]
<1>1. CASE ~EchoMatches(old, c)
  BY Zenon, <1>1, KeepsStep DEF EchoLocked
<1>2. CASE EchoMatches(old, c)
  <2>0. /\ s0 \in Tunnels /\ r0 \in TunnelRoles /\ tuple[c] \in Tuples
        /\ held[c] \in Nat /\ tokens \in Nat /\ tunnelClock \in Nat
    BY Zenon, Clients DEF TunnelInv
  <2>1. /\ tokens' = tokens /\ answers' = answers \cup {a}
        /\ byTuple' = [SweptBindings EXCEPT ![tuple[c]] = b0]
        /\ tunnels' = [Touched(swept, c) EXCEPT ![s0].endpoints[r0].registered = TRUE]
    BY Zenon, <1>2 DEF EchoLocked
  <2>2. MapsAgree(swept, SweptBindings) /\ AllTold(swept, answers) /\ SweptBindings[tuple[c]] = NoBinding
    BY Zenon, SweptAgree
  <2>3. /\ old \in TunnelEndpoints /\ old.tuple = tuple[c] /\ swept[s0].live
        /\ e0 \in TunnelEndpoints /\ Registered(e0) /\ e0.tuple = tuple[c]
    <3>1. old \in TunnelEndpoints /\ old.tuple = tuple[c] /\ swept[s0].live
      <4>1. swept[s0] \in TunnelRecords /\ (old # NoEndpoint => swept[s0].live)
        BY Zenon, <2>0, <2>2 DEF MapsAgree
      <4>2. old \in TunnelEndpoints \cup {NoEndpoint}
        BY Zenon, <2>0, <4>1 DEF TunnelRecords
      <4> QED
        BY Zenon, <1>2, <4>1, <4>2 DEF EchoMatches
    <3> HIDE DEF old
    <3> QED
      BY Zenon, <3>1, TunnelAssumption DEF TunnelEndpoints, Registered
  <2>4. a \in TunnelAnswers /\ a.kind = "status" /\ a.session = s0 /\ a.role = r0 /\ a.to = tuple[c]
        /\ (a.peerReady => ToldSomewhere(answers, a.session, OtherRole(a.role)))
    BY ZenonT(40), <2>0, AnswerOK DEF PeerReady, Registered
  <2>5. IsPut(tunnels', Touched(swept, c), s0, r0, e0) /\ TouchedSession(Touched(swept, c), swept)
    <3>1. TouchedSession(Touched(swept, c), swept)
      BY Zenon, <2>0, <2>2, TouchedOK DEF MapsAgree
    <3>2. Touched(swept, c)[s0].endpoints[r0] = old
      BY Zenon, <2>0, <3>1 DEF TouchedSession
    <3> DEFINE mid == Touched(swept, c)
    <3> HIDE DEF mid, swept, s0, r0, old
    <3>3. tunnels' = Put(mid, s0, r0, e0)
      BY Zenon, <2>1, <3>2 DEF Put, mid
    <3>4. mid \in [Tunnels -> TunnelRecords]
      BY Zenon, <3>1 DEF TouchedSession, mid
    <3> HIDE DEF e0
    <3>5. IsPut(tunnels', mid, s0, r0, e0)
      BY Zenon, <2>0, <2>3, <3>3, <3>4, EndpointPut
    <3> QED
      BY Zenon, <3>1, <3>5 DEF mid
  <2> HIDE DEF swept, s0, r0, a, old, e0
  <2>6. /\ tunnels' \in [Tunnels -> TunnelRecords]
        /\ \A s \in Tunnels : /\ swept[s].live => tunnels'[s].live
                              /\ \A r \in TunnelRoles : tunnels'[s].endpoints[r] =
                                    IF s = s0 /\ r = r0 THEN e0 ELSE swept[s].endpoints[r]
    BY <2>5 DEF IsPut, TouchedSession
  <2>7. /\ byTuple' \in [Tuples -> TunnelBindings \cup {NoBinding}]
        /\ \A t \in Tuples : byTuple'[t] = IF t = tuple[c] THEN b0 ELSE SweptBindings[t]
    BY <2>0, <2>1, <2>2 DEF MapsAgree, TunnelBindings
  <2>8. MapsAgree(tunnels', byTuple')
    <3>1. ASSUME NEW t \in Tuples, byTuple'[t] # NoBinding
          PROVE  LET e == tunnels'[byTuple'[t].session].endpoints[byTuple'[t].role]
                 IN  Registered(e) /\ e.tuple = t
      <4>1. CASE t = tuple[c]
        BY SMTT(40), <2>0, <2>3, <2>6, <2>7, <4>1
      <4>2. CASE t # tuple[c]
        <5>1. byTuple'[t] = SweptBindings[t] /\ SweptBindings[t] \in TunnelBindings
          BY <2>2, <2>7, <3>1, <4>2 DEF MapsAgree
        <5> DEFINE s == SweptBindings[t].session
                   r == SweptBindings[t].role
        <5>2. s \in Tunnels /\ r \in TunnelRoles
          BY Zenon, <5>1 DEF TunnelBindings
        <5>3. Registered(swept[s].endpoints[r]) /\ swept[s].endpoints[r].tuple = t
          BY Zenon, <2>2, <3>1, <5>1 DEF MapsAgree
        <5>4. ~(s = s0 /\ r = r0)
          BY Zenon, <2>3, <4>2, <5>3 DEF old
        <5> QED
          BY <2>6, <5>1, <5>2, <5>3, <5>4
      <4> QED
        BY Zenon, <4>1, <4>2
    <3>2. ASSUME NEW s \in Tunnels, NEW r \in TunnelRoles
          PROVE  LET e == tunnels'[s].endpoints[r]
                 IN  /\ Registered(e) => byTuple'[e.tuple] = [session |-> s, role |-> r]
                     /\ e # NoEndpoint => tunnels'[s].live
      <4>1. CASE s = s0 /\ r = r0
        BY <2>0, <2>3, <2>6, <2>7, <4>1
      <4>2. CASE ~(s = s0 /\ r = r0)
        <5>1. tunnels'[s].endpoints[r] = swept[s].endpoints[r]
          BY Zenon, <2>6, <4>2
        <5> DEFINE e == swept[s].endpoints[r]
        <5>2. e # NoEndpoint => e.tuple \in Tuples /\ tunnels'[s].live
          <6>1. swept[s] \in TunnelRecords /\ (e # NoEndpoint => swept[s].live)
            BY Zenon, <2>2 DEF MapsAgree
          <6>2. e \in TunnelEndpoints \cup {NoEndpoint}
            BY Zenon, <6>1 DEF TunnelRecords
          <6> QED
            BY Zenon, <2>6, <6>1, <6>2 DEF TunnelEndpoints
        <5>3. Registered(e) => SweptBindings[e.tuple] = [session |-> s, role |-> r]
          BY Zenon, <2>2 DEF MapsAgree
        <5>4. [session |-> s, role |-> r] # NoBinding
          BY TunnelAssumption DEF TunnelBindings
        <5> QED
          BY Zenon, <2>2, <2>7, <5>1, <5>2, <5>3, <5>4 DEF Registered
      <4> QED
        BY Zenon, <4>1, <4>2
    <3> QED
      BY Zenon, <2>6, <2>7, <3>1, <3>2 DEF MapsAgree
  <2>9. AllTold(tunnels', answers')
    <3>1. AllTold(swept, answers')
      BY Zenon, <2>1, <2>2, <2>4, AnswerSent
    <3>2. Told(answers', s0, r0, tuple[c])
      BY Zenon, <2>1, <2>4 DEF Told
    <3>3. ASSUME NEW s \in Tunnels, NEW r \in TunnelRoles, Registered(tunnels'[s].endpoints[r])
          PROVE  Told(answers', s, r, tunnels'[s].endpoints[r].tuple)
      BY Zenon, <2>3, <2>6, <3>1, <3>2, <3>3 DEF AllTold
    <3> QED
      BY Zenon, <3>1, <3>3 DEF AllTold
  <2> QED
    BY Zenon, <2>0, <2>1, <2>8, <2>9, RelayStep
<1> QED
  BY Zenon, <1>1, <1>2

\* The sessions of a forward: only counts and times of one of them change.
LEMMA ForwardStep ==
    ASSUME TunnelInv, NEW t \in Tuples, SweptBindings[t] # NoBinding,
           Forward(SweptTunnels, SweptBindings[t]),
           UNCHANGED <<tuple, held, ready, tunnelClock>>
    PROVE  TunnelInv'
<1> DEFINE swept == SweptTunnels
           b == SweptBindings[t]
           s0 == b.session
           peer == swept[s0].endpoints[OtherRole(b.role)]
<1>1. CASE ~PeerReady(peer) \/ swept[s0].forwarded + 1 > TunnelBudget
  BY Zenon, <1>1, KeepsStep DEF Forward
<1>2. CASE ~(~PeerReady(peer) \/ swept[s0].forwarded + 1 > TunnelBudget)
  <2>0. MapsAgree(swept, SweptBindings) /\ AllTold(swept, answers)
    BY Zenon, SweptAgree
  <2>1. s0 \in Tunnels /\ b.role \in TunnelRoles /\ tunnelClock \in Nat /\ tokens \in Nat
    BY SMTT(40), <2>0 DEF MapsAgree, TunnelBindings, TunnelInv
  <2>2. /\ tunnels' = [swept EXCEPT ![s0].forwarded = @ + 1, ![s0].touched = tunnelClock]
        /\ forwards' = forwards \cup {[session |-> s0, role |-> b.role, to |-> peer.tuple]}
        /\ byTuple' = SweptBindings /\ UNCHANGED <<tokens, answers>>
    BY Zenon, <1>2 DEF Forward
  <2>3. Told(answers, s0, OtherRole(b.role), peer.tuple)
    BY Zenon, <1>2, <2>0, <2>1, TwoRoles DEF AllTold, PeerReady
  <2>4. TouchedSession(tunnels', swept)
    <3>1. swept \in [Tunnels -> TunnelRecords]
      BY Zenon, <2>0 DEF MapsAgree
    <3> HIDE DEF swept, s0
    <3>2. swept[s0].forwarded + 1 \in Nat
      BY <2>1, <3>1 DEF TunnelRecords
    <3> DEFINE r1 == [swept[s0] EXCEPT !.forwarded = @ + 1, !.touched = tunnelClock]
    <3>3. r1 \in TunnelRecords /\ r1.endpoints = swept[s0].endpoints /\ r1.live = swept[s0].live
      BY Zenon, <2>1, <3>1, <3>2 DEF TunnelRecords
    <3>4. tunnels' = [swept EXCEPT ![s0] = r1]
      BY Zenon, <2>1, <2>2, <3>1
    <3> HIDE DEF r1
    <3> QED
      BY Zenon, <2>1, <3>1, <3>3, <3>4 DEF TouchedSession
  <2>5. MapsAgree(tunnels', byTuple') /\ AllTold(tunnels', answers)
    <3> HIDE DEF swept, s0
    <3>1. byTuple' = SweptBindings /\ tunnels' \in [Tunnels -> TunnelRecords]
      BY Zenon, <2>2, <2>4 DEF TouchedSession
    <3> QED
      BY Zenon, <2>0, <2>4, <3>1, SameEndpoints DEF TouchedSession
  <2> HIDE DEF swept, s0, b, peer
  <2>6. \A f \in forwards' : f \in forwards \/ Told(answers', f.session, OtherRole(f.role), f.to)
    BY <2>2, <2>3
  <2> QED
    BY Zenon, <2>1, <2>2, <2>5, <2>6, RelayStep
<1> QED
  BY Zenon, <1>1, <1>2

LEMMA FromRegisteredStep ==
    ASSUME TunnelInv, NEW c \in TunnelClients, NEW echo,
           SweptBindings[tuple[c]] # NoBinding,
           FromRegistered(SweptTunnels, c, SweptBindings[tuple[c]], echo),
           UNCHANGED <<tuple, held, ready, tunnelClock>>
    PROVE  TunnelInv'
<1> DEFINE swept == SweptTunnels
           b == SweptBindings[tuple[c]]
           self == swept[b.session].endpoints[b.role]
           peer == PeerReady(PeerOf(swept, c))
           a == TunnelAnswer("status", c, held[c], peer)
<1>0. /\ MapsAgree(swept, SweptBindings) /\ AllTold(swept, answers)
      /\ tuple[c] \in Tuples /\ held[c] \in Nat /\ tunnelClock \in Nat /\ tokens \in Nat
  BY Zenon, SweptAgree DEF TunnelInv
<1>1. Registered(self) /\ self.tuple = tuple[c] /\ swept[b.session].live
  <2>1. b.session \in Tunnels /\ b.role \in TunnelRoles
    BY SMTT(40), <1>0 DEF MapsAgree, TunnelBindings
  <2>2. Registered(self) /\ self.tuple = tuple[c]
    BY Zenon, <1>0 DEF MapsAgree
  <2> QED
    BY Zenon, <1>0, <2>1, <2>2 DEF MapsAgree, Registered
<1>2. \/ Forward(swept, b)
      \/ /\ tunnels' = Touched(swept, c) /\ byTuple' = SweptBindings
         /\ answers' = answers \cup {a} /\ UNCHANGED <<tokens, forwards>>
  BY Zenon, <1>1 DEF FromRegistered
<1>3. CASE Forward(swept, b)
  BY Zenon, <1>0, <1>3, ForwardStep
<1>4. CASE /\ tunnels' = Touched(swept, c) /\ byTuple' = SweptBindings
           /\ answers' = answers \cup {a} /\ UNCHANGED <<tokens, forwards>>
  <2>1. TouchedSession(tunnels', swept)
    BY Zenon, <1>0, <1>4, TouchedOK DEF MapsAgree
  <2>2. MapsAgree(tunnels', byTuple') /\ AllTold(tunnels', answers)
    BY <1>0, <1>4, <2>1, SameEndpoints DEF TouchedSession
  <2>3. a \in TunnelAnswers
        /\ (a.peerReady => ToldSomewhere(answers, a.session, OtherRole(a.role)))
    BY Zenon, <1>0, AnswerOK DEF PeerReady, Registered
  <2> HIDE DEF a, swept
  <2>4. AllTold(tunnels', answers')
    BY Zenon, <1>4, <2>2, <2>3, AnswerSent
  <2> QED
    BY Zenon, <1>0, <1>4, <2>2, <2>4, RelayStep
<1> QED
  BY Zenon, <1>2, <1>3, <1>4

LEMMA HandleStep ==
    ASSUME TunnelInv, NEW c \in TunnelClients, Handle(c)
    PROVE  TunnelInv'
<1> DEFINE b == SweptBindings[tuple[c]]
           echo == held[c] # NoToken
<1>1. UNCHANGED <<tuple, held, ready, tunnelClock>>
  BY Zenon DEF Handle
<1>2. CASE b # NoBinding
  BY Zenon, <1>1, <1>2, FromRegisteredStep DEF Handle
<1>3. CASE b = NoBinding
  <2>1. UNCHANGED forwards
    BY Zenon, <1>3 DEF Handle
  <2>2. CASE c \in ready
    BY Zenon, <1>1, <1>3, <2>1, <2>2, KeepsStep DEF Handle
  <2>3. CASE c \notin ready /\ echo
    BY Zenon, <1>1, <1>3, <2>1, <2>3, EchoStep DEF Handle
  <2>4. CASE c \notin ready /\ ~echo
    BY Zenon, <1>1, <1>3, <2>1, <2>4, RegisterStep DEF Handle
  <2> QED
    BY Zenon, <2>2, <2>3, <2>4
<1> QED
  BY Zenon, <1>2, <1>3

LEMMA ReadAnswerStep ==
    ASSUME TunnelInv, NEW c \in TunnelClients, NEW a \in answers, ReadAnswer(c, a)
    PROVE  TunnelInv'
<1>1. a \in TunnelAnswers /\ a.token \in Nat
  BY Zenon DEF TunnelInv, AllTold, TunnelAnswers
<1>2. UNCHANGED <<tunnels, byTuple, tokens, tuple, answers, forwards, tunnelClock>>
  BY Zenon DEF ReadAnswer
<1>3. held' \in [TunnelClients -> Nat]
  BY Zenon, <1>1 DEF ReadAnswer, TunnelInv
<1>4. \A d \in ready' : d \in ready \/
         (d = c /\ ToldSomewhere(answers, SessionOf[c], OtherRole(RoleOf[c])))
  <2>1. CASE a.kind = "challenge"
    BY Zenon, <2>1 DEF ReadAnswer
  <2>2. CASE a.kind # "challenge"
    <3>1. a.kind = "status" /\ a.peerReady /\ a.session = SessionOf[c] /\ a.role = RoleOf[c]
          /\ ready' = ready \cup {c}
      BY Zenon, <1>1, <2>2 DEF ReadAnswer, TunnelAnswers
    <3>2. ToldSomewhere(answers, SessionOf[c], OtherRole(RoleOf[c]))
      BY Zenon, <3>1 DEF TunnelInv, AllTold
    <3> QED
      BY Zenon, <3>1, <3>2
  <2> QED
    BY Zenon, <2>1, <2>2
<1> QED
  BY Zenon, <1>2, <1>3, <1>4 DEF TunnelInv

LEMMA RebindStep ==
    ASSUME TunnelInv, NEW c \in TunnelClients, NEW t \in SpareTuples, NEW again \in BOOLEAN,
           Rebind(c, t, again)
    PROVE  TunnelInv'
<1>1. UNCHANGED <<tunnels, byTuple, tokens, answers, forwards, tunnelClock>>
  BY Zenon DEF Rebind
<1>2. tuple' \in [TunnelClients -> Tuples] /\ held' \in [TunnelClients -> Nat] /\ ready' \subseteq ready
  BY Zenon, TunnelAssumption DEF Rebind, Tuples, TunnelInv
<1> QED
  BY Zenon, <1>1, <1>2 DEF TunnelInv

LEMMA TunnelInitially ==
    ASSUME TunnelInit
    PROVE  TunnelInv
<1>0. NoTunnel \in TunnelRecords /\ \A r \in TunnelRoles : NoTunnel.endpoints[r] = NoEndpoint
  BY Zenon DEF NoTunnel, TunnelRecords
<1>1. MapsAgree(tunnels, byTuple)
  BY Zenon, <1>0 DEF MapsAgree, TunnelInit, Registered
<1>2. AllTold(tunnels, answers)
  BY Zenon, <1>0 DEF AllTold, TunnelInit, Registered
<1> QED
  BY Zenon, <1>1, <1>2, TunnelAssumption DEF TunnelInv, TunnelInit

LEMMA TunnelStep ==
    ASSUME TunnelInv, [TunnelNext]_tunnelVars
    PROVE  TunnelInv'
<1>1. CASE UNCHANGED tunnelVars
  BY Zenon, <1>1 DEF TunnelInv, tunnelVars
<1>2. CASE TunnelTick
  BY <1>2 DEF TunnelInv, TunnelTick
<1> QED
  BY Zenon, <1>1, <1>2, HandleStep, ReadAnswerStep, RebindStep DEF TunnelNext

\* The relay forwards between the two proven endpoints of a live session and for nobody
\* else (TunnelsAreExclusive), for every number of clients, sessions and addresses.
THEOREM TunnelExclusion == TunnelSpec => []TunnelsAreExclusive
<1>1. TunnelInv => TunnelsAreExclusive
  BY
     DEF TunnelInv, MapsAgree, Told, ToldSomewhere, TunnelsAreExclusive, BindingsMatch,
         ForwardsToPeer, ReadyMeansBoth
<1> QED
  BY <1>1, TunnelInitially, TunnelStep, PTL DEF TunnelSpec

-----------------------------------------------------------------------------
(***************************************************************************)
(* The ratchet. For any bounds and deliveries: no message key seals two    *)
(* messages. A turn of the sender draws a new key pair, so the root it     *)
(* derives ends in a secret that no earlier root can contain               *)
(* (MadeOfDrawn), and a sending chain is one party's and past everything   *)
(* sealed on it (ChainIsOwn, ChainIsAhead).                                *)
(***************************************************************************)

\* The key pairs that have been generated, and roots that end in a secret of two of them.
Drawn == ({"initiator", "acceptor"} \X {"identity", "prekey"}) \cup ({"fresh"} \X (0..freshKeys))
OfDrawn(root) == Len(root) >= 2 => root[Len(root)] \subseteq Drawn

Sends(p) == session[p] # Refused /\ session[p].send # NoChain

RatchetTypes ==
    /\ freshKeys \in Nat /\ session \in [Parties -> Sessions \cup {Refused}]
    /\ initial \in Drawn \cup {NoChain} /\ wire \subseteq Messages

\* Nothing happens before the initiator has a session.
InitiatorFirst ==
    session["initiator"] = Refused => wire = {} /\ initial = NoChain /\ session["acceptor"] = Refused

\* Sessions, chains and messages are made of key pairs that have been generated.
MadeOfDrawn ==
    /\ \A p \in Parties : session[p] # Refused =>
          Len(session[p].root) >= 1 /\ session[p].self \in Drawn /\ session[p].peer \in Drawn
    /\ \A p \in Parties : Sends(p) => OfDrawn(session[p].send.root)
    /\ \A m \in wire : OfDrawn(m.key.root) /\ m.public \in Drawn

\* A sending chain is past every message that was sealed on it, and it is one party's.
ChainIsAhead ==
    \A p \in Parties, m \in wire :
        Sends(p) /\ m.key.root = session[p].send.root => m.key.at < session[p].send.at
ChainIsOwn ==
    \A p, q \in Parties : Sends(p) /\ Sends(q) /\ p # q => session[p].send.root # session[q].send.root

RatchetInv ==
    RatchetTypes /\ InitiatorFirst /\ MadeOfDrawn /\ ChainIsAhead /\ ChainIsOwn /\ SealedUnderOwnKey

-----------------------------------------------------------------------------
LEMMA NewSessionIs ==
    ASSUME NEW r \in Roots, NEW f \in KeyPairs, NEW p \in KeyPairs, NEW x \in Chains \cup {NoChain},
           NEW y \in Chains \cup {NoChain}
    PROVE  /\ NewSession(r, f, p, x, y) \in Sessions
           /\ NewSession(r, f, p, x, y).root = r /\ NewSession(r, f, p, x, y).send = x
           /\ NewSession(r, f, p, x, y).self = f /\ NewSession(r, f, p, x, y).peer = p
BY DEF NewSession, Sessions

LEMMA KeyAtIs ==
    ASSUME NEW c \in Chains, NEW n \in Nat
    PROVE  KeyAt(c, n) \in Chains /\ KeyAt(c, n).root = c.root /\ KeyAt(c, n).at = c.at + n
BY DEF KeyAt, Chains

LEMMA ChainOfIs ==
    ASSUME NEW r \in Roots
    PROVE  ChainOf(r) \in Chains /\ ChainOf(r).root = r /\ ChainOf(r).at = 0
BY Zenon DEF ChainOf, Chains

LEMMA RootIs ==
    ASSUME NEW r \in Roots, NEW x \in KeyPairs, NEW y \in KeyPairs
    PROVE  /\ deriveRoot(r, ECDH(x, y)) \in Roots
           /\ Len(deriveRoot(r, ECDH(x, y))) = Len(r) + 1
           /\ deriveRoot(r, ECDH(x, y))[Len(r) + 1] = {x, y}
<1>1. ECDH(x, y) = {x, y} /\ ECDH(x, y) \in RootItems
  BY Zenon DEF ECDH, RootItems, Secrets
<1> QED
  BY <1>1 DEF deriveRoot, Roots

LEMMA RootLength == \A r \in Roots : Len(r) \in Nat
BY DEF Roots

LEMMA FirstRoot ==
    ASSUME NEW a \in KeyPairs, NEW b \in KeyPairs, NEW c \in KeyPairs, NEW d \in KeyPairs,
           NEW e \in KeyPairs, NEW f \in KeyPairs
    PROVE  LET r == deriveInitial(<<ECDH(a, b), ECDH(c, d), ECDH(e, f)>>)
           IN  r \in Roots /\ Len(r) = 1
<1>1. ECDH(a, b) \in Secrets /\ ECDH(c, d) \in Secrets /\ ECDH(e, f) \in Secrets
  BY Zenon DEF ECDH, Secrets
<1>2. PICK t : t = <<ECDH(a, b), ECDH(c, d), ECDH(e, f)>>
  BY Zenon
<1>3. t \in Seq(Secrets)
  BY <1>1, <1>2
<1>4. t \in RootItems
  BY Zenon, <1>3 DEF RootItems
<1>5. <<t>> \in Seq(RootItems) /\ Len(<<t>>) = 1
  BY <1>4
<1> QED
  BY Zenon, <1>2, <1>5 DEF deriveInitial, Roots

-----------------------------------------------------------------------------
(* What opening a message does to the side that sends: nothing, or it ends *)
(* the chain; the receiving side takes at most the sender's key.           *)
Opens(s, t, m) ==
    /\ t \in Sessions /\ t.self = s.self /\ t.peer \in {s.peer, m.public}
    /\ t.send \in {s.send, NoChain} /\ Len(t.root) >= 1

LEMMA SkipToIs ==
    ASSUME NEW s \in Sessions, NEW n \in Nat, skipTo(s, n) # Refused
    PROVE  /\ skipTo(s, n) \in Sessions
           /\ skipTo(s, n).self = s.self /\ skipTo(s, n).peer = s.peer
           /\ skipTo(s, n).send = s.send /\ skipTo(s, n).root = s.root
<1>1. /\ s.received \in Nat /\ s.peer \in KeyPairs /\ s.receive \in Chains \cup {NoChain}
      /\ s.skipped \in SUBSET [public : KeyPairs, number : Nat, key : Chains]
  BY Zenon DEF Sessions
<1>2. ~(n < s.received)
  BY Zenon DEF skipTo
<1>3. PICK gap : gap = n - s.received
  BY Zenon
<1>4. gap \in Nat
  BY <1>1, <1>2, <1>3
<1>5. CASE gap = 0
  BY Zenon, <1>2, <1>3, <1>5 DEF skipTo
<1>6. CASE gap # 0
  <2>1. s.receive \in Chains
    BY <1>1, <1>2, <1>3, <1>4, <1>6 DEF skipTo
  <2>2. PICK new : new = {[public |-> s.peer, number |-> s.received + j,
                           key |-> KeyAt(s.receive, j)] : j \in 0..gap - 1}
    BY Zenon
  <2>3. new \in SUBSET [public : KeyPairs, number : Nat, key : Chains]
    <3>1. ASSUME NEW j \in 0..gap - 1
          PROVE  [public |-> s.peer, number |-> s.received + j, key |-> KeyAt(s.receive, j)]
                    \in [public : KeyPairs, number : Nat, key : Chains]
      <4>1. j \in Nat /\ s.received + j \in Nat
        BY <1>1, <1>4
      <4> QED
        BY Zenon, <1>1, <2>1, <4>1, KeyAtIs
    <3> QED
      BY Zenon, <2>2, <3>1
  <2>4. skipTo(s, n) = [s EXCEPT !.skipped = @ \cup new, !.receive = KeyAt(@, gap), !.received = n]
    BY Zenon, <1>2, <1>3, <1>4, <1>6, <2>2 DEF skipTo
  <2>5. /\ KeyAt(s.receive, gap) \in Chains
        /\ s.skipped \cup new \in SUBSET [public : KeyPairs, number : Nat, key : Chains]
    BY Zenon, <1>1, <1>4, <2>1, <2>3, KeyAtIs
  <2> QED
    BY Zenon, <2>4, <2>5 DEF Sessions
<1> QED
  BY Zenon, <1>5, <1>6

Turn(t, root, chain, public) ==
    [t EXCEPT !.root = root, !.receive = chain, !.peer = public, !.received = 0, !.send = NoChain]
LEMMA TurnIs ==
    ASSUME NEW t \in Sessions, NEW r \in Roots, NEW c \in Chains, NEW k \in KeyPairs
    PROVE  /\ Turn(t, r, c, k) \in Sessions /\ Turn(t, r, c, k).self = t.self
           /\ Turn(t, r, c, k).peer = k /\ Turn(t, r, c, k).send = NoChain /\ Turn(t, r, c, k).root = r
BY Zenon DEF Sessions, Turn

LEMMA TurnedIs ==
    ASSUME NEW s \in Sessions, Len(s.root) >= 1, NEW m \in Messages, Turned(s, m) # Refused
    PROVE  Opens(s, Turned(s, m), m)
<1>1. CASE m.public = s.peer
  BY Zenon, <1>1 DEF Turned, Opens
<1>2. CASE m.public # s.peer
  <2>1. m.previous \in Nat /\ m.public \in KeyPairs
    BY Zenon DEF Messages
  <2>2. skipTo(s, m.previous) # Refused
    BY Zenon, <1>2 DEF Turned
  <2>3. PICK t : t = skipTo(s, m.previous)
    BY Zenon
  <2>4. t \in Sessions /\ t.self = s.self /\ t.peer = s.peer /\ t.root = s.root
    BY Zenon, <2>1, <2>2, <2>3, SkipToIs
  <2>5. PICK r : r = deriveRoot(t.root, ECDH(t.self, m.public))
    BY Zenon
  <2>6. t.root \in Roots /\ t.self \in KeyPairs
    BY Zenon, <2>4 DEF Sessions
  <2>7. r \in Roots /\ Len(r) = Len(s.root) + 1 /\ Len(s.root) \in Nat
    <3>1. r \in Roots /\ Len(r) = Len(t.root) + 1
      BY Zenon, <2>1, <2>5, <2>6, RootIs
    <3> QED
      BY Zenon, <2>4, <2>6, <3>1, RootLength
  <2>8. ChainOf(r) \in Chains
    BY Zenon, <2>7, ChainOfIs
  <2>9. Turned(s, m) = Turn(t, r, ChainOf(r), m.public)
    BY Zenon, <1>2, <2>2, <2>3, <2>5 DEF Turned, advanceReceivingRatchet, Turn
  <2>10. PICK u : u = Turned(s, m)
    BY Zenon
  <2>11. u \in Sessions /\ u.self = t.self /\ u.peer = m.public /\ u.send = NoChain /\ u.root = r
    BY SMTT(40), <2>1, <2>4, <2>7, <2>8, <2>9, <2>10, TurnIs
  <2>12. Len(u.root) >= 1
    BY <2>7, <2>11
  <2> QED
    BY Zenon, <2>4, <2>10, <2>11, <2>12 DEF Opens
<1> QED
  BY Zenon, <1>1, <1>2

LEMMA RememberIs ==
    ASSUME NEW s \in Sessions, NEW m \in Messages
    PROVE  /\ remember(s, m) \in Sessions
           /\ remember(s, m).self = s.self /\ remember(s, m).peer = s.peer
           /\ remember(s, m).send = s.send /\ remember(s, m).root = s.root
<1>1. s.seen \in Seq(Messages)
  BY Zenon DEF Sessions
<1>2. PICK old : old = IF Len(s.seen) = MaxSeenMessages THEN Tail(s.seen) ELSE s.seen
  BY Zenon
<1> HIDE DEF Messages
<1>3. old \in Seq(Messages)
  <2>1. CASE s.seen = <<>>
    BY <1>2, <2>1
  <2>2. CASE s.seen # <<>>
    BY <1>1, <1>2, <2>2
  <2> QED
    BY Zenon, <2>1, <2>2
<1>4. Append(old, m) \in Seq(Messages)
  BY <1>3
<1>5. remember(s, m) = [s EXCEPT !.seen = Append(old, m)]
  BY Zenon, <1>2 DEF remember
<1> QED
  BY Zenon, <1>4, <1>5 DEF Sessions

LEMMA OpenIs ==
    ASSUME NEW s \in Sessions, Len(s.root) >= 1, NEW m \in Messages, Open(s, m) # Refused
    PROVE  Opens(s, Open(s, m), m)
<1> DEFINE found == {k \in s.skipped : k.public = m.public /\ k.number = m.number}
           turned == Turned(s, m)
           there == IF turned = Refused THEN Refused ELSE skipTo(turned, m.number)
<1>0. m.number \in Nat
  BY Zenon DEF Messages
<1>1. ~(\E i \in DOMAIN s.seen : s.seen[i] = m)
  BY Zenon DEF Open
<1>2. CASE found # {}
  <2>1. PICK k : k = CHOOSE x \in found : TRUE
    BY Zenon
  <2>2. Open(s, m) = remember(takeSkipped(s, k), m)
    BY Zenon, <1>1, <1>2, <2>1 DEF Open
  <2>3. PICK t : t = takeSkipped(s, k)
    BY Zenon
  <2>4. s.skipped \in SUBSET [public : KeyPairs, number : Nat, key : Chains]
    BY Zenon DEF Sessions
  <2>5. s.skipped \ {k} \in SUBSET [public : KeyPairs, number : Nat, key : Chains]
    BY Zenon, <2>4
  <2>6. t = [s EXCEPT !.skipped = s.skipped \ {k}]
    BY Zenon, <2>3 DEF takeSkipped
  <2>7. t \in Sessions /\ t.self = s.self /\ t.peer = s.peer /\ t.send = s.send /\ t.root = s.root
    BY Zenon, <2>5, <2>6 DEF Sessions
  <2> QED
    BY <2>2, <2>3, <2>7, RememberIs DEF Opens
<1>3. CASE found = {}
  <2>1. turned # Refused /\ there # Refused /\ there.receive # NoChain
    BY Zenon, <1>1, <1>3 DEF Open
  <2>2. PICK t : t = Turned(s, m)
    BY Zenon
  <2>3. Opens(s, t, m) /\ t \in Sessions
    BY Zenon, <2>1, <2>2, TurnedIs DEF Opens
  <2>4. PICK u : u = skipTo(t, m.number)
    BY Zenon
  <2>5. u = there /\ u # Refused
    BY Zenon, <2>1, <2>2, <2>4
  <2>6. u \in Sessions /\ u.self = t.self /\ u.peer = t.peer /\ u.send = t.send /\ u.root = t.root
    <3>1. PICK n \in Nat : n = m.number
      BY Zenon, <1>0
    <3>2. u = skipTo(t, n) /\ skipTo(t, n) # Refused
      BY Zenon, <2>4, <2>5, <3>1
    <3> HIDE DEF found, turned, there
    <3> QED
      BY Zenon, <2>3, <3>1, <3>2, SkipToIs
  <2>7. u.receive \in Chains /\ u.received \in Nat
    BY Zenon, <2>1, <2>5, <2>6 DEF Sessions
  <2>8. PICK v : v = [u EXCEPT !.receive = KeyAt(@, 1), !.received = @ + 1]
    BY Zenon
  <2>9. KeyAt(u.receive, 1) \in Chains /\ u.received + 1 \in Nat
    <3>1. PICK c \in Chains : c = u.receive
      BY Zenon, <2>7
    <3> HIDE DEF found, turned, there
    <3>2. KeyAt(c, 1) \in Chains
      BY Zenon, <3>1, KeyAtIs
    <3>3. u.received + 1 \in Nat
      BY <2>7
    <3> QED
      BY Zenon, <3>1, <3>2, <3>3
  <2>10. v \in Sessions /\ v.self = u.self /\ v.peer = u.peer /\ v.send = u.send /\ v.root = u.root
    BY Zenon, <2>6, <2>8, <2>9 DEF Sessions
  <2>11. Open(s, m) = remember(v, m)
    <3>1. /\ ~(\E i \in DOMAIN s.seen : s.seen[i] = m) /\ ~(found # {})
          /\ ~(there = Refused) /\ ~(there.receive = NoChain)
      BY Zenon, <1>1, <1>3, <2>1
    <3>2. ~(KeyAt(there.receive, 0) # m.key)
      BY Zenon, <3>1 DEF Open
    <3>3. v = [there EXCEPT !.receive = KeyAt(@, 1), !.received = @ + 1]
      BY Zenon, <2>5, <2>8
    <3> QED
      BY Zenon, <3>1, <3>2, <3>3 DEF Open
  <2> QED
    BY <2>3, <2>6, <2>10, <2>11, RememberIs DEF Opens
<1> QED
  BY Zenon, <1>2, <1>3

-----------------------------------------------------------------------------
(* The steps. *)

\* Key pairs stay generated.
LEMMA DrawnGrows ==
    ASSUME freshKeys \in Nat, freshKeys' \in {freshKeys, freshKeys + 1}
    PROVE  /\ freshKeys' \in Nat /\ Drawn \subseteq Drawn' /\ Drawn \subseteq KeyPairs
           /\ freshKeys' = freshKeys + 1 => Fresh \in Drawn' /\ Fresh \notin Drawn
           /\ Fresh \in KeyPairs
<1>1. freshKeys' \in Nat /\ 0..freshKeys \subseteq 0..freshKeys' /\ 0..freshKeys \subseteq Nat
  OBVIOUS
<1>2. /\ freshKeys + 1 \in Nat /\ freshKeys + 1 \notin 0..freshKeys
      /\ freshKeys' = freshKeys + 1 => freshKeys + 1 \in 0..freshKeys'
  OBVIOUS
<1>3. Drawn \subseteq Drawn' /\ Drawn \subseteq KeyPairs
  BY Zenon, <1>1 DEF Drawn, KeyPairs
<1>4. Fresh \in KeyPairs
  BY Zenon, <1>2 DEF Fresh, KeyPairs
<1>5. Fresh \notin Drawn
  <2>1. Fresh[1] = "fresh" /\ Fresh[2] = freshKeys + 1
    BY Zenon DEF Fresh
  <2>2. \A x \in {"initiator", "acceptor"} \X {"identity", "prekey"} : x[1] # "fresh"
    BY Zenon
  <2>3. \A x \in {"fresh"} \X (0..freshKeys) : x[2] \in 0..freshKeys
    BY Zenon
  <2> QED
    BY Zenon, <1>2, <2>1, <2>2, <2>3 DEF Drawn
<1>6. freshKeys' = freshKeys + 1 => Fresh \in Drawn'
  BY Zenon, <1>2 DEF Fresh, Drawn
<1> QED
  BY Zenon, <1>1, <1>3, <1>4, <1>5, <1>6

LEMMA KeyPairFacts ==
    /\ \A p \in Parties : Identity(p) \in Drawn /\ Prekey(p) \in Drawn
    /\ \A p \in Parties : Identity(p) \in KeyPairs /\ Prekey(p) \in KeyPairs
BY Zenon DEF Parties, Identity, Prekey, Drawn, KeyPairs

\* Whatever leaves the wire alone and a party's sending chain where it is, or ends it.
LEMMA WireQuiet ==
    ASSUME RatchetInv, wire' = wire, freshKeys' = freshKeys, initial' \in Drawn \cup {NoChain},
           NEW p \in Parties, NEW t \in Sessions, session' = [session EXCEPT ![p] = t],
           Len(t.root) >= 1, t.self \in Drawn, t.peer \in Drawn,
           t.send = NoChain \/ (session[p] # Refused /\ t.send = session[p].send),
           session["initiator"] # Refused
    PROVE  RatchetInv'
<1>1. Drawn' = Drawn /\ \A r : OfDrawn(r)' <=> OfDrawn(r)
  BY Zenon DEF Drawn, OfDrawn
<1>2. /\ session' \in [Parties -> Sessions \cup {Refused}] /\ session'[p] = t /\ t # Refused
      /\ \A q \in Parties : q # p => session'[q] = session[q]
      /\ session'["initiator"] # Refused
  BY Zenon, RatchetAssumption DEF RatchetInv, RatchetTypes, Parties
<1>3. \A q \in Parties : Sends(q)' => Sends(q) /\ session'[q].send = session[q].send
  BY Zenon, <1>2 DEF Sends
<1>4. RatchetTypes'
  BY Zenon, <1>1, <1>2 DEF RatchetInv, RatchetTypes
<1>5. InitiatorFirst'
  BY Zenon, <1>2 DEF InitiatorFirst
<1>6. MadeOfDrawn'
  BY Zenon, <1>1, <1>2, <1>3 DEF RatchetInv, MadeOfDrawn, OfDrawn
<1>7. ChainIsAhead' /\ ChainIsOwn'
  BY <1>3 DEF RatchetInv, ChainIsAhead, ChainIsOwn
<1>8. SealedUnderOwnKey'
  BY Zenon DEF RatchetInv, SealedUnderOwnKey
<1> QED
  BY Zenon, <1>4, <1>5, <1>6, <1>7, <1>8 DEF RatchetInv

LEMMA DeliverStep ==
    ASSUME RatchetInv, NEW m \in wire, Deliver(m)
    PROVE  RatchetInv'
<1>1. m \in Messages /\ m.to \in Parties
  BY Zenon DEF RatchetInv, RatchetTypes, Messages, Parties
<1>2. PICK p \in Parties : p = m.to
  BY Zenon, <1>1
<1>3. session[p] # Refused /\ Open(session[p], m) # Refused
  BY Zenon, <1>2 DEF Deliver
<1>4. PICK s \in Sessions : s = session[p]
  BY Zenon, <1>3 DEF RatchetInv, RatchetTypes
<1>5. PICK t : t = Open(s, m)
  BY Zenon
<1>6. session' = [session EXCEPT ![p] = t]
  BY Zenon, <1>2, <1>4, <1>5 DEF Deliver
<1>7. Len(s.root) >= 1 /\ s.self \in Drawn /\ s.peer \in Drawn /\ m.public \in Drawn
  BY Zenon, <1>3, <1>4 DEF RatchetInv, MadeOfDrawn
<1>8. Opens(s, t, m)
  BY Zenon, <1>1, <1>3, <1>4, <1>5, <1>7, OpenIs
<1>9. /\ wire' = wire /\ freshKeys' = freshKeys /\ initial' \in Drawn \cup {NoChain}
      /\ session["initiator"] # Refused
  BY Zenon DEF Deliver, RatchetInv, RatchetTypes, InitiatorFirst
<1>10. /\ t \in Sessions /\ Len(t.root) >= 1 /\ t.self \in Drawn /\ t.peer \in Drawn
       /\ t.send = NoChain \/ t.send = session[p].send
  BY Zenon, <1>4, <1>7, <1>8 DEF Opens
<1> QED
  BY Zenon, <1>3, <1>6, <1>9, <1>10, WireQuiet

LEMMA AcceptSessionStep ==
    ASSUME RatchetInv, Accept
    PROVE  RatchetInv'
<1>1. /\ initial \in Drawn /\ initial' = initial /\ wire' = wire /\ freshKeys' = freshKeys
      /\ session["initiator"] # Refused /\ freshKeys \in Nat
  BY Zenon DEF Accept, RatchetInv, RatchetTypes, InitiatorFirst
<1>2. PICK e \in Drawn : e = initial
  BY Zenon, <1>1
<1>3. e \in KeyPairs
  BY Zenon, <1>1, DrawnGrows
<1>4. PICK r : r = deriveInitial(AcceptedSecrets(e))
  BY Zenon
<1>5. r \in Roots /\ Len(r) = 1
  <2>1. "initiator" \in Parties /\ "acceptor" \in Parties
    BY Zenon DEF Parties
  <2> QED
    BY <1>3, <1>4, <2>1, KeyPairFacts, FirstRoot DEF AcceptedSecrets
<1>6. PICK t : t = NewSession(r, Prekey("acceptor"), e, NoChain, ChainOf(r))
  BY Zenon
<1>7. Prekey("acceptor") \in Drawn /\ Prekey("acceptor") \in KeyPairs /\ "acceptor" \in Parties
  BY Zenon, KeyPairFacts DEF Parties
<1>8. t \in Sessions /\ t.root = r /\ t.send = NoChain /\ t.self = Prekey("acceptor") /\ t.peer = e
  BY SMTT(40), <1>3, <1>5, <1>6, <1>7, NewSessionIs, ChainOfIs
<1>9. session' = [session EXCEPT !["acceptor"] = t]
  BY Zenon, <1>2, <1>4, <1>6 DEF Accept
<1>10. /\ Len(t.root) >= 1 /\ t.self \in Drawn /\ t.peer \in Drawn /\ t \in Sessions
       /\ initial' \in Drawn \cup {NoChain} /\ t.send = NoChain
  <2>1. Len(t.root) = 1
    BY Zenon, <1>5, <1>8
  <2>2. t.self \in Drawn /\ t.peer \in Drawn
    BY Zenon, <1>2, <1>7, <1>8
  <2> QED
    BY <1>1, <1>8, <2>1, <2>2
<1>11. PICK p \in Parties : p = "acceptor"
  BY Zenon, <1>7
<1>12. session' = [session EXCEPT ![p] = t]
  BY Zenon, <1>9, <1>11
<1> QED
  BY Zenon, <1>1, <1>10, <1>12, WireQuiet

LEMMA InitiateStep ==
    ASSUME RatchetInv, Initiate
    PROVE  RatchetInv'
<1>1. /\ freshKeys' = freshKeys + 1 /\ freshKeys \in Nat /\ wire' = {} /\ initial' = Fresh
      /\ session["acceptor"] = Refused /\ session["initiator"] = Refused
  BY Zenon DEF Initiate, RatchetInv, RatchetTypes, InitiatorFirst
<1>2. freshKeys' \in Nat /\ Drawn \subseteq Drawn' /\ Fresh \in Drawn' /\ Fresh \in KeyPairs
  BY Zenon, <1>1, DrawnGrows
<1>3. PICK f : f = Fresh
  BY Zenon
<1>4. PICK r : r = deriveInitial(<<ECDH(Identity("initiator"), Prekey("acceptor")),
                                   ECDH(f, Identity("acceptor")), ECDH(f, Prekey("acceptor"))>>)
  BY Zenon
<1>5. /\ Identity("initiator") \in KeyPairs /\ Identity("acceptor") \in KeyPairs
      /\ Prekey("acceptor") \in KeyPairs /\ Prekey("acceptor") \in Drawn
  <2>1. "initiator" \in Parties /\ "acceptor" \in Parties
    BY Zenon DEF Parties
  <2> QED
    BY Zenon, <2>1, KeyPairFacts
<1>6. r \in Roots /\ Len(r) = 1
  BY <1>2, <1>3, <1>4, <1>5, FirstRoot
<1>7. PICK t : t = NewSession(r, f, Prekey("acceptor"), ChainOf(r), NoChain)
  BY Zenon
<1>8. ChainOf(r) \in Chains /\ ChainOf(r).root = r
  BY Zenon, <1>6, ChainOfIs
<1>9. t \in Sessions /\ t.root = r /\ t.send = ChainOf(r) /\ t.self = f /\ t.peer = Prekey("acceptor")
  BY SMTT(40), <1>2, <1>3, <1>5, <1>6, <1>7, <1>8, NewSessionIs
<1>10. session' = [session EXCEPT !["initiator"] = t]
  BY Zenon, <1>3, <1>4, <1>7 DEF Initiate
<1>11. /\ session' \in [Parties -> Sessions \cup {Refused}] /\ session'["initiator"] = t
       /\ session'["acceptor"] = Refused /\ t # Refused
  BY Zenon, <1>1, <1>9, <1>10, RatchetAssumption DEF RatchetInv, RatchetTypes, Parties
<1>12. \A q \in Parties : session'[q] # Refused => q = "initiator"
  BY Zenon, <1>11 DEF Parties
<1>13. RatchetTypes'
  BY Zenon, <1>1, <1>2, <1>11 DEF RatchetTypes
<1>14. InitiatorFirst'
  BY Zenon, <1>11 DEF InitiatorFirst
<1>15. MadeOfDrawn'
  <2>1. Len(t.root) >= 1 /\ t.self \in Drawn' /\ t.peer \in Drawn' /\ t.send.root = r /\ ~(Len(r) >= 2)
    <3>1. Len(t.root) = 1
      BY Zenon, <1>6, <1>9
    <3>2. t.self \in Drawn' /\ t.peer \in Drawn' /\ t.send.root = r
      BY Zenon, <1>2, <1>3, <1>5, <1>8, <1>9
    <3> QED
      BY <1>6, <3>1, <3>2
  <2>2. \A q \in Parties : session'[q] # Refused => session'[q] = t
    BY Zenon, <1>11, <1>12
  <2> QED
    BY Zenon, <1>1, <2>1, <2>2 DEF MadeOfDrawn, Sends, OfDrawn
<1>16. ChainIsAhead' /\ ChainIsOwn' /\ SealedUnderOwnKey'
  BY Zenon, <1>1, <1>12 DEF ChainIsAhead, ChainIsOwn, SealedUnderOwnKey, Sends
<1> QED
  BY Zenon, <1>13, <1>14, <1>15, <1>16 DEF RatchetInv

\* A message is sealed on a chain that is past the wire and is no one else's; the chain
\* moves past it.
LEMMA SealedOn ==
    ASSUME RatchetInv, freshKeys' \in {freshKeys, freshKeys + 1}, initial' = initial,
           NEW p \in Parties, NEW s \in Sessions, NEW t \in Sessions, NEW x \in Messages,
           session[p] # Refused,
           session' = [session EXCEPT ![p] = t], wire' = wire \cup {x},
           s.send \in Chains, x.key = s.send, x.public = s.self,
           Len(s.root) >= 1, s.self \in Drawn', s.peer \in Drawn,
           t.root = s.root, t.self = s.self, t.peer = s.peer,
           t.send \in Chains, t.send.root = s.send.root, t.send.at = s.send.at + 1,
           OfDrawn(s.send.root)',
           \A m \in wire : m.key.root = s.send.root => m.key.at < s.send.at,
           \A q \in Parties : q # p /\ Sends(q) => session[q].send.root # s.send.root
    PROVE  RatchetInv'
<1>0. freshKeys \in Nat /\ s.send.at \in Nat
  BY Zenon DEF RatchetInv, RatchetTypes, Chains
<1>1. Drawn \subseteq Drawn' /\ freshKeys' \in Nat
  BY Zenon, <1>0, DrawnGrows
<1>2. /\ session' \in [Parties -> Sessions \cup {Refused}] /\ session'[p] = t
      /\ t # Refused /\ t.send # NoChain
      /\ \A q \in Parties : q # p => session'[q] = session[q]
  BY Zenon, RatchetAssumption DEF RatchetInv, RatchetTypes
<1>3. \A q \in Parties : q # p => (Sends(q)' <=> Sends(q)) /\ (Sends(q) => session'[q].send = session[q].send)
  BY Zenon, <1>2 DEF Sends
<1>4. \A r : OfDrawn(r) => OfDrawn(r)'
  BY Zenon, <1>1 DEF OfDrawn
<1>5. RatchetTypes'
  BY Zenon, <1>1, <1>2 DEF RatchetInv, RatchetTypes
<1>6. InitiatorFirst'
  BY Zenon, <1>2 DEF RatchetInv, InitiatorFirst, Parties
<1>7. MadeOfDrawn'
  <2>1. ASSUME NEW q \in Parties, session'[q] # Refused
        PROVE  Len(session'[q].root) >= 1 /\ session'[q].self \in Drawn' /\ session'[q].peer \in Drawn'
    BY Zenon, <1>1, <1>2, <2>1 DEF RatchetInv, MadeOfDrawn
  <2>2. ASSUME NEW q \in Parties, Sends(q)'
        PROVE  OfDrawn(session[q].send.root)'
    <3>1. CASE q = p
      BY Zenon, <1>2, <3>1 DEF OfDrawn
    <3>2. CASE q # p
      BY SMTT(40), <1>1, <1>2, <1>3, <2>2, <3>2 DEF RatchetInv, MadeOfDrawn, OfDrawn
    <3> QED
      BY Zenon, <3>1, <3>2
  <2>3. ASSUME NEW m \in wire'
        PROVE  OfDrawn(m.key.root)' /\ m.public \in Drawn'
    <3>1. CASE m = x
      BY Zenon, <3>1 DEF OfDrawn
    <3>2. CASE m \in wire
      BY Zenon, <1>1, <3>2 DEF RatchetInv, MadeOfDrawn, OfDrawn
    <3> QED
      BY Zenon, <3>1, <3>2
  <2> QED
    BY Zenon, <2>1, <2>2, <2>3 DEF MadeOfDrawn, OfDrawn
<1>8. ChainIsAhead'
  <2> SUFFICES ASSUME NEW q \in Parties, NEW m \in wire', Sends(q)', m.key.root = session'[q].send.root
               PROVE  m.key.at < session'[q].send.at
    BY Zenon DEF ChainIsAhead
  <2>1. CASE q = p
    <3>1. session'[q].send.root = s.send.root /\ session'[q].send.at = s.send.at + 1
      BY Zenon, <1>2, <2>1
    <3>2. CASE m = x
      BY <1>0, <3>1, <3>2
    <3>3. CASE m \in wire
      <4>1. m.key.at < s.send.at /\ m.key.at \in Nat
        BY Zenon, <3>1, <3>3 DEF RatchetInv, RatchetTypes, Messages, Chains
      <4> QED
        BY <1>0, <3>1, <4>1
    <3> QED
      BY Zenon, <3>2, <3>3
  <2>2. CASE q # p
    <3>1. Sends(q) /\ session'[q].send = session[q].send
      BY Zenon, <1>3, <2>2
    <3>2. m # x
      BY Zenon, <2>2, <3>1
    <3> QED
      BY Zenon, <3>1, <3>2 DEF RatchetInv, ChainIsAhead
  <2> QED
    BY Zenon, <2>1, <2>2
<1>9. ChainIsOwn'
  <2> SUFFICES ASSUME NEW q \in Parties, NEW v \in Parties, Sends(q)', Sends(v)', q # v
               PROVE  session'[q].send.root # session'[v].send.root
    BY Zenon DEF ChainIsOwn
  <2>1. CASE q = p
    BY Zenon, <1>2, <1>3, <2>1
  <2>2. CASE v = p
    BY Zenon, <1>2, <1>3, <2>2
  <2>3. CASE q # p /\ v # p
    BY <1>3, <2>3 DEF RatchetInv, ChainIsOwn
  <2> QED
    BY Zenon, <2>1, <2>2, <2>3
<1>10. SealedUnderOwnKey'
  <2>1. ASSUME NEW m \in wire PROVE m.key # s.send
    <3>1. m.key.root = s.send.root => m.key.at < s.send.at
      BY Zenon
    <3> QED
      BY <1>0, <3>1
  <2> QED
    BY <2>1 DEF RatchetInv, SealedUnderOwnKey
<1> QED
  BY Zenon, <1>5, <1>6, <1>7, <1>8, <1>9, <1>10 DEF RatchetInv

LEMMA SealedIs ==
    ASSUME NEW s \in Sessions, s.send \in Chains
    PROVE  /\ Sealed(s) \in Sessions /\ Sealed(s).root = s.root /\ Sealed(s).self = s.self
           /\ Sealed(s).peer = s.peer /\ Sealed(s).send \in Chains
           /\ Sealed(s).send.root = s.send.root /\ Sealed(s).send.at = s.send.at + 1
<1>1. PICK c : c = KeyAt(s.send, 1)
  BY Zenon
<1>2. c \in Chains /\ c.root = s.send.root /\ c.at = s.send.at + 1
  BY Zenon, <1>1, KeyAtIs
<1>3. s.sent + 1 \in Nat
  BY DEF Sessions
<1>4. Sealed(s) = [s EXCEPT !.send = c, !.sent = s.sent + 1]
  BY Zenon, <1>1 DEF Sealed
<1> QED
  BY Zenon, <1>2, <1>3, <1>4 DEF Sessions

Advance(s, root, chain, self) ==
    [s EXCEPT !.previous = s.sent, !.sent = 0, !.root = root, !.send = chain, !.self = self]
LEMMA AdvanceIs ==
    ASSUME NEW s \in Sessions, NEW r \in Roots, NEW c \in Chains, NEW k \in KeyPairs
    PROVE  /\ Advance(s, r, c, k) \in Sessions /\ Advance(s, r, c, k).root = r
           /\ Advance(s, r, c, k).send = c /\ Advance(s, r, c, k).self = k
           /\ Advance(s, r, c, k).peer = s.peer
BY Zenon DEF Advance, Sessions

LEMMA SealStep ==
    ASSUME RatchetInv, NEW p \in Parties, Seal(p)
    PROVE  RatchetInv'
<1>0. freshKeys \in Nat /\ session[p] # Refused /\ session[p] \in Sessions /\ initial' = initial
  BY Zenon DEF Seal, RatchetInv, RatchetTypes
<1>1. PICK o \in Sessions : o = session[p]
  BY Zenon, <1>0
<1>2. Len(o.root) >= 1 /\ o.self \in Drawn /\ o.peer \in Drawn /\ o.root \in Roots /\ Len(o.root) \in Nat
  BY Zenon, <1>0, <1>1, RootLength DEF RatchetInv, MadeOfDrawn, Sessions
<1>3. PICK s : s = IF o.send = NoChain THEN advanceSendingRatchet(o) ELSE o
  BY Zenon
<1>4. PICK x : x = [to |-> Peer(p), public |-> s.self, previous |-> s.previous,
                    number |-> s.sent, key |-> KeyAt(s.send, 0)]
  BY Zenon
<1>5. /\ wire' = wire \cup {x} /\ session' = [session EXCEPT ![p] = Sealed(s)]
      /\ freshKeys' = IF o.send = NoChain THEN freshKeys + 1 ELSE freshKeys
  BY Zenon, <1>1, <1>3, <1>4 DEF Seal
<1>6. ASSUME s \in Sessions, s.send \in Chains
      PROVE  x \in Messages /\ x.key = s.send /\ x.public = s.self
  <2>1. KeyAt(s.send, 0) = s.send
    BY <1>6 DEF KeyAt, Chains
  <2>2. Peer(p) \in {"initiator", "acceptor"}
    BY Zenon DEF Peer
  <2>3. s.self \in KeyPairs /\ s.previous \in Nat /\ s.sent \in Nat
    BY SMTT(40), <1>6 DEF Sessions
  <2> QED
    BY Zenon, <1>4, <1>6, <2>1, <2>2, <2>3 DEF Messages
<1>7. CASE o.send # NoChain
  <2>1. s = o /\ s \in Sessions /\ s.send \in Chains /\ freshKeys' = freshKeys /\ Sends(p)
    BY Zenon, <1>0, <1>1, <1>3, <1>5, <1>7 DEF Sessions, Sends
  <2>2. Drawn' = Drawn
    BY Zenon, <2>1 DEF Drawn
  <2>3. OfDrawn(s.send.root)'
    BY Zenon, <1>1, <2>1, <2>2 DEF RatchetInv, MadeOfDrawn, OfDrawn
  <2>4. \A m \in wire : m.key.root = s.send.root => m.key.at < s.send.at
    BY Zenon, <1>1, <2>1 DEF RatchetInv, ChainIsAhead
  <2>5. \A q \in Parties : q # p /\ Sends(q) => session[q].send.root # s.send.root
    BY Zenon, <1>1, <2>1 DEF RatchetInv, ChainIsOwn
  <2>6. PICK t : t = Sealed(s)
    BY Zenon
  <2>7. /\ t \in Sessions /\ t.root = s.root /\ t.self = s.self /\ t.peer = s.peer
        /\ t.send \in Chains /\ t.send.root = s.send.root /\ t.send.at = s.send.at + 1
    BY Zenon, <2>1, <2>6, SealedIs
  <2>8. session' = [session EXCEPT ![p] = t]
    BY SMTT(40), <1>5, <2>6
  <2> QED
    BY ZenonT(40), <1>0, <1>2, <1>5, <1>6, <2>1, <2>2, <2>3, <2>4, <2>5, <2>7, <2>8, SealedOn
<1>8. CASE o.send = NoChain
  <2>1. freshKeys' = freshKeys + 1
    BY Zenon, <1>5, <1>8
  <2>2. /\ Fresh \in KeyPairs /\ Fresh \in Drawn' /\ Fresh \notin Drawn
        /\ Drawn \subseteq Drawn' /\ o.peer \in KeyPairs
    BY Zenon, <1>0, <1>2, <2>1, DrawnGrows
  <2>3. PICK f \in KeyPairs : f = Fresh
    BY Zenon, <2>2
  <2>4. PICK r : r = deriveRoot(o.root, ECDH(f, o.peer))
    BY Zenon
  <2>5. r \in Roots /\ Len(r) = Len(o.root) + 1 /\ r[Len(r)] = {f, o.peer}
    <3>1. PICK b \in Roots, k \in KeyPairs : b = o.root /\ k = o.peer
      BY Zenon, <1>2, <2>2
    <3>2. r = deriveRoot(b, ECDH(f, k))
      BY Zenon, <2>4, <3>1
    <3>3. r \in Roots /\ Len(r) = Len(b) + 1 /\ r[Len(b) + 1] = {f, k}
      BY Zenon, <3>2, RootIs
    <3> QED
      BY Zenon, <3>1, <3>3
  <2>6. PICK c : c = ChainOf(r)
    BY Zenon
  <2>7. c \in Chains /\ c.root = r
    BY Zenon, <2>5, <2>6, ChainOfIs
  <2>8. s = Advance(o, r, c, f)
    BY ZenonT(30), <1>3, <1>8, <2>3, <2>4, <2>6 DEF advanceSendingRatchet, Advance
  <2>9. s \in Sessions /\ s.root = r /\ s.send = c /\ s.self = f /\ s.peer = o.peer
    BY <2>5, <2>7, <2>8, AdvanceIs
  <2>10. Len(r) >= 2
    BY <1>2, <2>5
  <2>11. ~OfDrawn(r) /\ OfDrawn(r)'
    BY ZenonT(30), <1>2, <2>2, <2>3, <2>5, <2>10 DEF OfDrawn
  <2>12. \A m \in wire : m.key.root # r
    BY Zenon, <2>11 DEF RatchetInv, MadeOfDrawn
  <2>13. \A q \in Parties : q # p /\ Sends(q) => session[q].send.root # r
    BY Zenon, <2>11 DEF RatchetInv, MadeOfDrawn
  <2>14. PICK t : t = Sealed(s)
    BY Zenon
  <2>15. /\ t \in Sessions /\ t.root = s.root /\ t.self = s.self /\ t.peer = s.peer
         /\ t.send \in Chains /\ t.send.root = s.send.root /\ t.send.at = s.send.at + 1
    BY Zenon, <2>7, <2>9, <2>14, SealedIs
  <2>16. session' = [session EXCEPT ![p] = t]
    BY Zenon, <1>5, <2>14
  <2>17. /\ s.send.root = r /\ Len(s.root) >= 1 /\ s.self \in Drawn' /\ s.peer \in Drawn
         /\ x \in Messages /\ x.key = s.send /\ x.public = s.self /\ OfDrawn(s.send.root)'
    BY SMTT(40), <1>2, <1>6, <2>2, <2>3, <2>5, <2>7, <2>9, <2>10, <2>11 DEF OfDrawn
  <2>18. /\ \A m \in wire : m.key.root = s.send.root => m.key.at < s.send.at
         /\ \A q \in Parties : q # p /\ Sends(q) => session[q].send.root # s.send.root
    BY Zenon, <2>12, <2>13, <2>17
  <2>19. freshKeys' \in {freshKeys, freshKeys + 1} /\ s \in Sessions /\ s.send \in Chains
    BY Zenon, <2>1, <2>7, <2>9
  <2>20. wire' = wire \cup {x} /\ initial' = initial /\ session[p] # Refused
    BY Zenon, <1>0, <1>5
  <2> QED
    BY Zenon, <2>15, <2>16, <2>17, <2>18, <2>19, <2>20, SealedOn
<1> QED
  BY Zenon, <1>7, <1>8

LEMMA RatchetInitially == RatchetInit => RatchetInv
<1> SUFFICES ASSUME RatchetInit PROVE RatchetInv
  BY Zenon
<1>1. \A p \in Parties : session[p] = Refused
  BY Zenon DEF RatchetInit
<1>2. RatchetTypes /\ InitiatorFirst
  BY Zenon DEF RatchetInit, RatchetTypes, InitiatorFirst, Parties
<1>3. MadeOfDrawn /\ ChainIsAhead /\ ChainIsOwn /\ SealedUnderOwnKey
  BY Zenon, <1>1 DEF RatchetInit, MadeOfDrawn, ChainIsAhead, ChainIsOwn, SealedUnderOwnKey, Sends
<1> QED
  BY Zenon, <1>2, <1>3 DEF RatchetInv

LEMMA RatchetStep == RatchetInv /\ [RatchetNext]_ratchetVars => RatchetInv'
<1> SUFFICES ASSUME RatchetInv, [RatchetNext]_ratchetVars PROVE RatchetInv'
  BY Zenon
<1>1. CASE UNCHANGED ratchetVars \/ (\E p \in Parties : Leak(p))
  <2>1. UNCHANGED <<session, initial, wire, freshKeys>>
    BY Zenon, <1>1 DEF ratchetVars, Leak
  <2>2. Drawn' = Drawn
    BY Zenon, <2>1 DEF Drawn
  <2> QED
    BY Zenon, <2>1, <2>2 DEF RatchetInv, RatchetTypes, InitiatorFirst, MadeOfDrawn, ChainIsAhead,
                      ChainIsOwn, SealedUnderOwnKey, Sends, OfDrawn
<1> QED
  BY Zenon, <1>1, InitiateStep, AcceptSessionStep, SealStep, DeliverStep DEF RatchetNext

\* No message key seals two messages, in either direction or across turns, for any bounds
\* on the keys that are found, whatever is delivered, in whatever order.
THEOREM KeySealsOnce == RatchetSpec => []SealedUnderOwnKey
<1>1. RatchetInv => SealedUnderOwnKey
  BY Zenon DEF RatchetInv
<1> QED
  BY <1>1, RatchetInitially, RatchetStep, PTL DEF RatchetSpec
=============================================================================
