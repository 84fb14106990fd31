---------------------------- MODULE AdmissionGate ----------------------------
(***************************************************************************)
(* The admission gate (pkg/admission) with the one-time invites of the     *)
(* journal (pkg/eventlog/admission_invite.go), the finalized authority it  *)
(* consults (pkg/identity) and the inbox policy it publishes.              *)
(*                                                                         *)
(* The handlers of several connections run admit concurrently.  A handler  *)
(* first authenticates the sender against finalized state and the device   *)
(* and room ledgers, then applies the inbox policy, then claims the invite *)
(* it relies on, then applies a moderation decision, then accepts the      *)
(* event into the journal; other handlers, the owner, the chain and the    *)
(* clock move between any two of these steps, and the process may die.     *)
(***************************************************************************)
EXTENDS FiniteSets, Naturals

CONSTANTS
    GateEvents,       \* records: what the event says and carries (see below)
    Invites,          \* the invites that may be created
    InviteFor,        \* invite -> the invited Agent, or NoInvite for anyone
    GateHandlers,
    KnownAgents, BlockedAgents,
    Policies,         \* the policies the owner may publish: "open", "tell", "ask", "invite"
    MaxClockSkew, ClaimRetention, InviteLifetime, MaxInvites, MaxHeld,
    MaxGateClock, MaxGateFaults,   \* bounds of the model
    NoInvite, NoGateEvent

(***************************************************************************)
(* An event: agent and device of its sender, kind ("text", "moderation",   *)
(* "local" or "unknown"), created and expires (0: never), wellFormed       *)
(* (ValidateEvent, its network, its size), scoped (its class and sender    *)
(* are the delegation's), room (in the room or not), valid (its payload),  *)
(* token (the invite it carries) and, of a moderation, epoch and revision. *)
(***************************************************************************)
ASSUME GateAssumption ==
    /\ \A e \in GateEvents : e.token \in Invites \cup {NoInvite}
    /\ Policies \subseteq {"open", "tell", "ask", "invite"}
    /\ ClaimRetention \in Nat /\ InviteLifetime \in Nat
    /\ NoInvite \notin Invites /\ NoGateEvent \notin GateEvents
    /\ NoInvite \notin [expires : Nat, event : GateEvents \cup {NoGateEvent}, claimed : Nat]

Agents == {e.agent : e \in GateEvents}
Devices == {e.device : e \in GateEvents}

VARIABLES
    policy,      \* the policy the gate enforces, or "down"
    published,   \* the policy the endpoint's delegation publishes
    committed,   \* Agents whose finalized account is live and commits their delegation
    revoked,     \* devices retired from their endpoint's published set
    members,     \* Agents held as members of the room
    epoch,       \* the room's membership epoch
    decided,     \* the last moderation decision: its event and revision
    invites,     \* invite -> its record, or NoInvite
    kept,        \* event -> "none", "pending", "admitted" or "denied"
    handlers,    \* handler -> what it does
    gateClock, gateFaults,
    ownerAsked,       \* events the owner was asked about, once per question
    via,         \* event -> the invite that admitted it
    ruled,       \* moderation events whose decision was applied
    minted       \* invites that were created

gateEnv == <<published, committed, revoked, members, epoch>>
gateVars == <<policy, gateEnv, decided, invites, kept, handlers, gateClock, gateFaults,
              ownerAsked, via, ruled, minted>>

GateIdle == [at |-> "idle"]

GateInit ==
    /\ published \in Policies /\ policy = published
    /\ committed = Agents /\ revoked = {} /\ members = Agents /\ epoch = 1
    /\ decided = [event |-> NoGateEvent, revision |-> 0]
    /\ invites = [i \in Invites |-> NoInvite]
    /\ kept = [e \in GateEvents |-> "none"]
    /\ handlers = [h \in GateHandlers |-> GateIdle]
    /\ gateClock = 1 /\ gateFaults = 0 /\ ownerAsked = [e \in GateEvents |-> 0]
    /\ via = [e \in GateEvents |-> NoInvite] /\ ruled = {} /\ minted = {}

-----------------------------------------------------------------------------
\* ChainPolicy.CheckState: the account is finalized, live, and of the accepted registry.
CheckState(agent) == agent \in committed
\* identity.Verify: that state commits the delegation.  A delegation outlives the
\* run, so its window is the chain's commitment.
Verify(agent) == CheckState(agent)
\* Gate.authority: the window the delegation states, then what is finalized.
authority(e) == Verify(e.agent)

\* ValidateEvent with the kinds the wire may carry, the network and the size.
Expressible(e) == e.wellFormed /\ e.kind \notin {"unknown", "local"}

\* The delegation names the sender and the class of its event.
Delegated(e) == e.scoped

withinWindow(e, now) == e.created <= now + MaxClockSkew /\ (e.expires # 0 => e.expires > now)

\* DeviceLedger.Judge, RoomLedger.JudgeMember: only who is known to be out is refused.
Judge(device) == device \notin revoked
JudgeMember(agent) == agent \in members

\* Everything that is refused before the inbox policy is asked.
Authentic(e, now) ==
    /\ Expressible(e) /\ withinWindow(e, now)
    /\ authority(e) /\ Delegated(e)
    /\ Judge(e.device) /\ (e.room => JudgeMember(e.agent))

\* ContactPolicy.Admits.
Admits(agent) ==
    CASE policy = "open" -> "allow"
      [] policy # "open" /\ agent \in BlockedAgents -> "deny"
      [] policy # "open" /\ agent \notin BlockedAgents /\ agent \in KnownAgents -> "allow"
      [] policy = "tell" /\ agent \notin BlockedAgents \cup KnownAgents -> "require"
      [] policy = "ask" /\ agent \notin BlockedAgents \cup KnownAgents -> "hold"
      [] policy = "invite" /\ agent \notin BlockedAgents \cup KnownAgents -> "invite"

\* readAdmissionInvite, of the token's digest; an invite may name who is invited.
Issued(i) == invites[i] # NoInvite
InvitesSender(i, e) == Issued(i) /\ InviteFor[i] \in {NoInvite, e.agent}

\* Faulty variant: an invite serves until it expires.
SpendableAlways(i, e, now) == InvitesSender(i, e) /\ now < invites[i].expires
\* CheckAdmissionInvite, which ClaimAdmissionInvite repeats under its lock.
Spendable(i, e, now) ==
    /\ InvitesSender(i, e)
    /\ IF invites[i].event # NoGateEvent THEN invites[i].event = e ELSE now < invites[i].expires

\* The policy's answer once an invite was looked at.
Answer(e, now) ==
    LET says == Admits(e.agent)
        invited == says \in {"require", "invite"} /\ e.token # NoInvite /\ Spendable(e.token, e, now)
    IN  IF invited THEN "invited" ELSE IF says = "invite" THEN "hold" ELSE says

-----------------------------------------------------------------------------
GateRunning == policy # "down"
Goto(h, step) == handlers' = [handlers EXCEPT ![h] = step]
Finish(h) == Goto(h, GateIdle)

\* An event arrives: admit's checks of the event and of its sender's authority.
Arrive(h, e) ==
    /\ GateRunning /\ handlers[h] = GateIdle /\ Authentic(e, gateClock)
    /\ Goto(h, [at |-> "policy", event |-> e, now |-> gateClock])
    /\ UNCHANGED <<policy, gateEnv, decided, invites, kept, gateClock, gateFaults, ownerAsked, via, ruled, minted>>

\* Faulty variant: the payload is not looked at before the invite is claimed.
MayProceedUnread(e, answer) ==
    answer \in {"allow", "invited", "hold"} /\ (e.kind = "moderation" => answer # "hold")
\* Moderation is never held, and the payload is looked at once the sender is admitted.
MayProceed(e, answer) ==
    /\ answer \in {"allow", "invited", "hold"}
    /\ e.kind = "moderation" => answer # "hold"
    /\ e.valid

\* Faulty variant: an unknown sender whose invite was refused is let in.
AdmissionOfLenient(answer) == "admitted"
AdmissionOf(answer) == IF answer = "hold" THEN "pending" ELSE "admitted"

ApplyPolicy(h) ==
    /\ handlers[h].at = "policy"
    /\ LET e == handlers[h].event
           answer == Answer(e, handlers[h].now)
       IN  IF ~MayProceed(e, answer) THEN Finish(h)
           ELSE Goto(h, [at |-> IF answer = "invited" THEN "claim"
                                ELSE IF e.kind = "moderation" THEN "rule" ELSE "accept",
                         event |-> e, now |-> handlers[h].now, invited |-> answer = "invited",
                         as |-> AdmissionOf(answer)])
    /\ UNCHANGED <<policy, gateEnv, decided, invites, kept, gateClock, gateFaults, ownerAsked, via, ruled, minted>>

\* The record a claim leaves: the first event's, and a retry's the same.
ClaimedBy(record, e, now) ==
    IF record.event = NoGateEvent THEN [record EXCEPT !.event = e, !.claimed = now] ELSE record

ClaimAdmissionInvite(h) ==
    /\ handlers[h].at = "claim"
    /\ LET e == handlers[h].event
           i == e.token
           next == IF e.kind = "moderation" THEN "rule" ELSE "accept"
       IN  \/ /\ ~Spendable(i, e, handlers[h].now) /\ Finish(h)
              /\ UNCHANGED <<invites, gateFaults>>
           \/ /\ Spendable(i, e, handlers[h].now)
              /\ invites' = [invites EXCEPT ![i] = ClaimedBy(@, e, handlers[h].now)]
              /\ Goto(h, [handlers[h] EXCEPT !.at = next])
              /\ UNCHANGED gateFaults
           \/ \* the write fails: the record may be there all the same
              /\ Spendable(i, e, handlers[h].now) /\ gateFaults < MaxGateFaults
              /\ \/ invites' = [invites EXCEPT ![i] = ClaimedBy(@, e, handlers[h].now)]
                 \/ UNCHANGED invites
              /\ Finish(h) /\ gateFaults' = gateFaults + 1
    /\ UNCHANGED <<policy, gateEnv, decided, kept, gateClock, ownerAsked, via, ruled, minted>>

\* ModerationLedger.Apply with the authority verified again: the current epoch, and
\* the next revision or the decision that is already there.
Rules(e) ==
    /\ e.epoch = epoch /\ e.agent \in members
    /\ decided.event = e \/ e.revision = decided.revision + 1

\* Faulty variant: a decision that cannot be applied is accepted as a message.
RuleAnyway(h) ==
    /\ handlers[h].at = "rule"
    /\ Goto(h, [handlers[h] EXCEPT !.at = "accept"])
    /\ UNCHANGED <<policy, gateEnv, decided, invites, kept, gateClock, gateFaults, ownerAsked, via, ruled, minted>>
Rule(h) ==
    /\ handlers[h].at = "rule"
    /\ LET e == handlers[h].event
       IN  \/ /\ ~Rules(e) /\ Finish(h) /\ UNCHANGED <<decided, ruled>>
           \/ /\ Rules(e)
              /\ decided' = [event |-> e, revision |-> e.revision]
              /\ ruled' = ruled \cup {e}
              /\ Goto(h, [handlers[h] EXCEPT !.at = "accept"])
    /\ UNCHANGED <<policy, gateEnv, invites, kept, gateClock, gateFaults, ownerAsked, via, minted>>

\* pendingCapacity counts what waits for the owner and has not expired.
HeldEvents(now) == {e \in GateEvents : kept[e] = "pending" /\ (e.expires # 0 => now < e.expires)}

\* Faulty variant: a resend of an event the owner denied is a fresh question.
FreshEntryAgain(e) == kept[e] \in {"none", "denied"}
FreshEntry(e) == kept[e] = "none"

\* Journal.Accept: a duplicate is acknowledged, a full owner's queue refuses.
AcceptEvent(h) ==
    /\ handlers[h].at = "accept"
    /\ LET e == handlers[h].event
           as == handlers[h].as
           fresh == FreshEntry(e)
           full == as = "pending" /\ Cardinality(HeldEvents(handlers[h].now)) >= MaxHeld
       IN  \/ /\ fresh /\ ~full
              /\ kept' = [kept EXCEPT ![e] = as]
              /\ ownerAsked' = IF as = "pending" THEN [ownerAsked EXCEPT ![e] = @ + 1] ELSE ownerAsked
              /\ via' = IF handlers[h].invited THEN [via EXCEPT ![e] = e.token] ELSE via
           \/ ~fresh /\ UNCHANGED <<kept, ownerAsked, via>>
           \/ fresh /\ full /\ UNCHANGED <<kept, ownerAsked, via>>
    /\ Finish(h)
    /\ UNCHANGED <<policy, gateEnv, decided, invites, gateClock, gateFaults, ruled, minted>>

-----------------------------------------------------------------------------
\* sweepAdmissionInvites: a spent invite is kept as long as its event may be replayed.
RetainUntil(record) ==
    IF record.event # NoGateEvent /\ record.claimed + ClaimRetention > record.expires
    THEN record.claimed + ClaimRetention ELSE record.expires
Swept == [i \in Invites |-> IF invites[i] # NoInvite /\ RetainUntil(invites[i]) <= gateClock
                            THEN NoInvite ELSE invites[i]]

\* CreateAdmissionInvite: sweep, then a new invite, of fresh entropy, within the bound.
CreateAdmissionInvite(i) ==
    /\ GateRunning /\ i \notin minted
    /\ IF Cardinality({j \in Invites : Swept[j] # NoInvite}) < MaxInvites
       THEN /\ invites' = [Swept EXCEPT ![i] = [expires |-> gateClock + InviteLifetime,
                                               event |-> NoGateEvent, claimed |-> 0]]
            /\ minted' = minted \cup {i}
       ELSE invites' = Swept /\ UNCHANGED minted
    /\ UNCHANGED <<policy, gateEnv, decided, kept, handlers, gateClock, gateFaults, ownerAsked, via, ruled>>

\* decideAdmission.
OwnerDecides(e) ==
    /\ GateRunning /\ kept[e] = "pending"
    /\ \E verdict \in {"admitted", "denied"} : kept' = [kept EXCEPT ![e] = verdict]
    /\ UNCHANGED <<policy, gateEnv, decided, invites, handlers, gateClock, gateFaults, ownerAsked, via, ruled, minted>>

\* What moves without this process: the chain, the peers' devices, the room.
WorldMoves ==
    /\ \/ \E a \in Agents : committed' = committed \ {a} /\ UNCHANGED <<published, revoked, members, epoch>>
       \/ \E d \in Devices : revoked' = revoked \cup {d} /\ UNCHANGED <<published, committed, members, epoch>>
       \/ \E a \in Agents : /\ members' = members \ {a} /\ epoch' = epoch + 1
                            /\ UNCHANGED <<published, committed, revoked>>
       \/ \E p \in Policies : published' = p /\ UNCHANGED <<committed, revoked, members, epoch>>
    /\ gateFaults < MaxGateFaults /\ gateFaults' = gateFaults + 1
    /\ UNCHANGED <<policy, decided, invites, kept, handlers, gateClock, ownerAsked, via, ruled, minted>>

\* The process dies; the journal, the invites and the decisions are durable.
GateCrash ==
    /\ GateRunning /\ gateFaults < MaxGateFaults
    /\ policy' = "down" /\ handlers' = [h \in GateHandlers |-> GateIdle]
    /\ gateFaults' = gateFaults + 1
    /\ UNCHANGED <<gateEnv, decided, invites, kept, gateClock, ownerAsked, via, ruled, minted>>

\* New: the endpoint's own delegation publishes the policy it is to enforce.
StartsWith(p) == p = published
GateStart ==
    /\ ~GateRunning /\ \E p \in Policies : StartsWith(p) /\ policy' = p
    /\ UNCHANGED <<gateEnv, decided, invites, kept, handlers, gateClock, gateFaults, ownerAsked, via, ruled, minted>>

GateTick ==
    /\ gateClock < MaxGateClock /\ gateClock' = gateClock + 1
    /\ UNCHANGED <<policy, gateEnv, decided, invites, kept, handlers, gateFaults, ownerAsked, via, ruled, minted>>

HandlerMoves(h) ==
    \/ \E e \in GateEvents : Arrive(h, e)
    \/ ApplyPolicy(h) \/ ClaimAdmissionInvite(h) \/ Rule(h) \/ AcceptEvent(h)

GateNext ==
    \/ \E h \in GateHandlers : HandlerMoves(h)
    \/ \E i \in Invites : CreateAdmissionInvite(i)
    \/ \E e \in GateEvents : OwnerDecides(e)
    \/ WorldMoves \/ GateCrash \/ GateStart \/ GateTick

GateSpec == GateInit /\ [][GateNext]_gateVars

-----------------------------------------------------------------------------
\* The shape of the state.
GateTypeOK ==
    /\ policy \in Policies \cup {"down"} /\ published \in Policies
    /\ \A e \in GateEvents : kept[e] \in {"none", "pending", "admitted", "denied"}
    /\ \A i \in Invites : invites[i] # NoInvite =>
         (invites[i].event = NoGateEvent) = (invites[i].claimed = 0)
    /\ Cardinality({i \in Invites : invites[i] # NoInvite}) <= MaxInvites

\* ClaimAdmissionInvite: an invite lets one event of one sender in, whatever
\* handlers hold it at the same time, across failed writes and restarts.
InviteAdmitsOne ==
    \A d, e \in GateEvents : via[d] # NoInvite /\ via[d] = via[e] => d = e

\* A claimed invite was claimed in time, by a sender it names, for an event whose
\* payload is what its kind says ("a malformed event does not burn a real invitation").
InviteServesValid ==
    \A i \in Invites : invites[i] # NoInvite /\ invites[i].event # NoGateEvent =>
        /\ invites[i].event.valid /\ invites[i].claimed < invites[i].expires
        /\ InviteFor[i] \in {NoInvite, invites[i].event.agent}

\* While the inbox is never published open, whatever a runtime may see is a contact's,
\* was let in by an invite, or was asked of the owner; a blocked sender's is never kept.
StrangersAreVouchedFor ==
    "open" \notin Policies => \A e \in GateEvents :
        /\ kept[e] = "admitted" => e.agent \in KnownAgents \/ via[e] # NoInvite \/ ownerAsked[e] > 0
        /\ e.agent \in BlockedAgents => kept[e] = "none"

\* A decision about a room message is accepted only once it is in the moderation
\* ledger, and never waits in the owner's queue, whose approval would bypass it.
ModerationIsRuled ==
    \A e \in GateEvents : e.kind = "moderation" /\ kept[e] # "none" =>
        kept[e] = "admitted" /\ e \in ruled

\* A hold is claimed like an accepted event: the owner is asked about it once.
OwnerAskedOnce == \A e \in GateEvents : ownerAsked[e] <= 1

\* Nothing passes the gate unasked: an invite serves one valid event, a stranger's
\* event needs an invite or the owner, who is asked once, and a moderation decision
\* is in force before it is accepted.
NothingPassesUnasked ==
    /\ InviteAdmitsOne /\ InviteServesValid
    /\ StrangersAreVouchedFor /\ OwnerAskedOnce /\ ModerationIsRuled
=============================================================================
