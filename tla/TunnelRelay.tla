----------------------------- MODULE TunnelRelay -----------------------------
(***************************************************************************)
(* The tunnel relay of the reachability study (pkg/probe/tunnel.go) and    *)
(* the endpoints that register with it: a relay that forwards between the  *)
(* two endpoints of a session once each has echoed a token that was sent   *)
(* to the address it registers from.                                       *)
(*                                                                         *)
(* Requests may be lost (one that the rate limiter refuses is lost too);   *)
(* answers stay in flight, so they may be late, repeated, reordered or     *)
(* never read.  A NAT may rebind an endpoint to another address.           *)
(***************************************************************************)
EXTENDS FiniteSets, Integers

CONSTANTS
    TunnelClients,     \* the endpoints that register
    SessionOf, RoleOf, \* what each of them registers as
    HomeTuple,         \* the address each of them sends from at first
    SpareTuples,       \* addresses a NAT may rebind one of them to
    TunnelTTL, MaxTunnels, TunnelBudget,
    MaxTunnelClock, MaxTokens, MaxRebinds,
    NoToken, NoEndpoint, NoBinding

TunnelRoles == {"A", "B"}
OtherRole(r) == CHOOSE p \in TunnelRoles : p # r
Tunnels == {SessionOf[c] : c \in TunnelClients}
Tuples == {HomeTuple[c] : c \in TunnelClients} \cup SpareTuples
TunnelEndpoints == [tuple : Tuples, token : Nat, registered : BOOLEAN]
TunnelBindings == [session : Tunnels, role : TunnelRoles]

ASSUME TunnelAssumption ==
    /\ RoleOf \in [TunnelClients -> TunnelRoles]
    /\ HomeTuple \in [TunnelClients -> Tuples]
    /\ NoToken \in Nat
    /\ NoEndpoint \notin TunnelEndpoints /\ NoBinding \notin TunnelBindings

VARIABLES
    tunnels,      \* the relay's sessions: endpoints, forwarded, touchedAt
    byTuple,      \* the relay's bindings: the session and role a tuple speaks for
    tokens,       \* the tokens drawn so far, and the client and address each was sent to
    tuple,        \* the address each client sends from
    held,         \* the token each client has, if it has one
    ready,        \* the clients that handed their socket to the gateway
    answers,      \* the answers in flight
    forwards,     \* what was forwarded: session, sender's role, destination
    tunnelClock, rebinds
tunnelVars == <<tunnels, byTuple, tokens, tuple, held, ready, answers, forwards, tunnelClock, rebinds>>

NoTunnel == [live |-> FALSE, endpoints |-> [r \in TunnelRoles |-> NoEndpoint],
             forwarded |-> 0, touched |-> 0]

TunnelInit ==
    /\ tunnels = [s \in Tunnels |-> NoTunnel]
    /\ byTuple = [t \in Tuples |-> NoBinding]
    /\ tokens = 0 /\ tuple = HomeTuple
    /\ held = [c \in TunnelClients |-> NoToken] /\ ready = {}
    /\ answers = {} /\ forwards = {}
    /\ tunnelClock = 0 /\ rebinds = 0

\* expireLocked: sessions past their lifetime, with the bindings of their endpoints.
Expired(s) == tunnels[s].live /\ tunnelClock - tunnels[s].touched > TunnelTTL
\* Faulty variant: the bindings of a session outlive it.
SweptBindingsKept == byTuple
SweptBindings ==
    [t \in Tuples |->
        IF \E s \in Tunnels, r \in TunnelRoles :
               /\ Expired(s) /\ tunnels[s].endpoints[r] # NoEndpoint
               /\ tunnels[s].endpoints[r].tuple = t /\ tunnels[s].endpoints[r].registered
        THEN NoBinding ELSE byTuple[t]]
SweptTunnels == [s \in Tunnels |-> IF Expired(s) THEN NoTunnel ELSE tunnels[s]]

TunnelAnswer(kind, c, token, peerReady) ==
    [kind |-> kind, session |-> SessionOf[c], role |-> RoleOf[c], token |-> token,
     peerReady |-> peerReady, to |-> tuple[c]]
Registered(endpoint) == endpoint # NoEndpoint /\ endpoint.registered
\* Faulty variant: a peer that has only asked counts as registered.
PeerReadyPending(peer) == peer # NoEndpoint
\* statusLocked, and the condition for forwarding.
PeerReady(peer) == Registered(peer)
PeerOf(swept, c) == swept[SessionOf[c]].endpoints[OtherRole(RoleOf[c])]
Touched(swept, c) == [swept EXCEPT ![SessionOf[c]].touched = tunnelClock]
RelayKeeps(swept) == tunnels' = swept /\ byTuple' = SweptBindings /\ UNCHANGED <<tokens, answers>>

\* registerLocked's refusals: at capacity, or the registration is completed and locked.
MayRegister(swept, c) ==
    /\ swept[SessionOf[c]].live \/ Cardinality({s \in Tunnels : swept[s].live}) < MaxTunnels
    /\ ~Registered(swept[SessionOf[c]].endpoints[RoleOf[c]])

\* registerLocked
RegisterLocked(swept, c) ==
    IF ~MayRegister(swept, c) THEN RelayKeeps(swept)
    ELSE /\ tokens < MaxTokens /\ tokens' = tokens + 1
         /\ tunnels' = [Touched(swept, c) EXCEPT
                ![SessionOf[c]].live = TRUE,
                ![SessionOf[c]].endpoints[RoleOf[c]] =
                    [tuple |-> tuple[c], token |-> tokens', registered |-> FALSE]]
         /\ byTuple' = SweptBindings
         /\ answers' = answers \cup {TunnelAnswer("challenge", c, tokens', FALSE)}

EchoMatches(endpoint, c) ==
    endpoint # NoEndpoint /\ endpoint.tuple = tuple[c] /\ endpoint.token = held[c]

\* echoLocked, statusLocked
EchoLocked(swept, c) ==
    LET endpoint == swept[SessionOf[c]].endpoints[RoleOf[c]]
    IN  IF ~EchoMatches(endpoint, c) THEN RelayKeeps(swept)
        ELSE /\ tunnels' = [Touched(swept, c) EXCEPT
                    ![SessionOf[c]].endpoints[RoleOf[c]].registered = TRUE]
             /\ byTuple' = [SweptBindings EXCEPT ![tuple[c]] =
                    [session |-> SessionOf[c], role |-> RoleOf[c]]]
             /\ answers' = answers \cup {TunnelAnswer("status", c, held[c], PeerReady(PeerOf(swept, c)))}
             /\ UNCHANGED tokens

\* Forwarding: to the proven address of the session's other endpoint, within the budget.
Forward(swept, binding) ==
    LET session == swept[binding.session]
        peer == session.endpoints[OtherRole(binding.role)]
    IN  IF ~PeerReady(peer) \/ session.forwarded + 1 > TunnelBudget
        THEN RelayKeeps(swept) /\ UNCHANGED forwards
        ELSE /\ tunnels' = [swept EXCEPT ![binding.session].forwarded = @ + 1,
                                         ![binding.session].touched = tunnelClock]
             /\ forwards' = forwards \cup {[session |-> binding.session, role |-> binding.role,
                                            to |-> peer.tuple]}
             /\ byTuple' = SweptBindings /\ UNCHANGED <<tokens, answers>>

\* fromRegisteredLocked: the endpoint's own echo is answered, anything else forwarded.
FromRegistered(swept, c, binding, echo) ==
    LET session == swept[binding.session]
        self == session.endpoints[binding.role]
    IN  IF ~session.live
        THEN /\ byTuple' = [SweptBindings EXCEPT ![tuple[c]] = NoBinding]
             /\ tunnels' = swept /\ UNCHANGED <<tokens, answers, forwards>>
        ELSE IF ~Registered(self) \/ self.tuple # tuple[c]
        THEN RelayKeeps(swept) /\ UNCHANGED forwards
        ELSE IF /\ echo /\ binding = [session |-> SessionOf[c], role |-> RoleOf[c]]
                /\ self.token = held[c]
        THEN /\ tunnels' = Touched(swept, c) /\ byTuple' = SweptBindings
             /\ answers' = answers \cup {TunnelAnswer("status", c, held[c], PeerReady(PeerOf(swept, c)))}
             /\ UNCHANGED <<tokens, forwards>>
        ELSE Forward(swept, binding)

\* Handle, of the next request of a registering client, or of a datagram of its session.
Handle(c) ==
    /\ LET swept == SweptTunnels
           binding == SweptBindings[tuple[c]]
           echo == held[c] # NoToken
       IN  IF binding # NoBinding
           THEN FromRegistered(swept, c, binding, echo /\ c \notin ready)
           ELSE /\ UNCHANGED forwards
                /\ IF c \in ready THEN RelayKeeps(swept)
                   ELSE IF echo THEN EchoLocked(swept, c) ELSE RegisterLocked(swept, c)
    /\ UNCHANGED <<tuple, held, ready, tunnelClock, rebinds>>

\* registerWithTunnel reads an answer: it takes a challenge's token, and is ready on a status.
ReadAnswer(c, a) ==
    /\ c \notin ready /\ a.to = tuple[c] /\ a.session = SessionOf[c] /\ a.role = RoleOf[c]
    /\ IF a.kind = "challenge"
       THEN held' = [held EXCEPT ![c] = a.token] /\ UNCHANGED ready
       ELSE held[c] = a.token /\ a.peerReady /\ ready' = ready \cup {c} /\ UNCHANGED held
    /\ UNCHANGED <<tunnels, byTuple, tokens, tuple, answers, forwards, tunnelClock, rebinds>>

\* The client's NAT rebinds it; or its run is started again, over a new socket.
Rebind(c, t, again) ==
    /\ rebinds < MaxRebinds /\ \A d \in TunnelClients : tuple[d] # t
    /\ tuple' = [tuple EXCEPT ![c] = t] /\ rebinds' = rebinds + 1
    /\ held' = IF again THEN [held EXCEPT ![c] = NoToken] ELSE held
    /\ ready' = IF again THEN ready \ {c} ELSE ready
    /\ UNCHANGED <<tunnels, byTuple, tokens, answers, forwards, tunnelClock>>
TunnelTick ==
    /\ tunnelClock < MaxTunnelClock /\ tunnelClock' = tunnelClock + 1
    /\ UNCHANGED <<tunnels, byTuple, tokens, tuple, held, ready, answers, forwards, rebinds>>

TunnelNext ==
    \/ \E c \in TunnelClients : Handle(c)
    \/ \E c \in TunnelClients, a \in answers : ReadAnswer(c, a)
    \/ \E c \in TunnelClients, t \in SpareTuples, again \in BOOLEAN : Rebind(c, t, again)
    \/ TunnelTick

TunnelSpec == TunnelInit /\ [][TunnelNext]_tunnelVars

-----------------------------------------------------------------------------
\* Sessions within capacity and budget.
TunnelTypeOK ==
    /\ Cardinality({s \in Tunnels : tunnels[s].live}) <= MaxTunnels
    /\ \A s \in Tunnels : tunnels[s].forwarded <= TunnelBudget

\* The two maps of the relay agree: a bound tuple is the proven address of the live endpoint
\* it is bound to, and every proven endpoint is bound; so nothing is forwarded for a
\* session that is gone, or for an endpoint that another has displaced (expireLocked).
BindingsMatch ==
    /\ \A t \in Tuples : byTuple[t] # NoBinding =>
        LET e == tunnels[byTuple[t].session].endpoints[byTuple[t].role]
        IN  Registered(e) /\ e.tuple = t
    /\ \A s \in Tunnels, r \in TunnelRoles : Registered(tunnels[s].endpoints[r]) =>
        byTuple[tunnels[s].endpoints[r].tuple] = [session |-> s, role |-> r]

\* Every datagram goes to an address at which the other endpoint of the same session has
\* echoed its token: never back to the sender, to an address that was only claimed, or
\* into another session.
ForwardsToPeer ==
    \A f \in forwards : \E a \in answers :
        /\ a.kind = "status" /\ a.to = f.to
        /\ a.session = f.session /\ a.role = OtherRole(f.role)

\* registerWithTunnel returns only when the peer was registered too: an endpoint hands its
\* socket to the gateway for no half-registered session (statusLocked).
ReadyMeansBoth ==
    \A c \in ready : \E a \in answers :
        /\ a.kind = "status" /\ a.session = SessionOf[c] /\ a.role = OtherRole(RoleOf[c])

\* The relay forwards between the two proven endpoints of a live session and for
\* nobody else, whatever is lost, repeated or moved by a NAT.
TunnelsAreExclusive == BindingsMatch /\ ForwardsToPeer /\ ReadyMeansBoth
=============================================================================
