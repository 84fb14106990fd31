------------------------------ MODULE Ratchet -------------------------------
(***************************************************************************)
(* The default end-to-end suite (pkg/e2ee/default_suite.go): X3DH between  *)
(* an initiator and the owner of a published prekey, then a double ratchet *)
(* whose whole state is a value that every call returns anew.              *)
(*                                                                         *)
(* Keys are symbolic: a Diffie-Hellman secret is the set of its two key    *)
(* pairs, a root is the sequence of the secrets that went into it, and a   *)
(* message key is a root and a place in its chain.  Only the key a message *)
(* was sealed with opens it.  Messages are delivered in any order, any     *)
(* number of times, or never; a refused message leaves the state alone.    *)
(***************************************************************************)
EXTENDS FiniteSets, Functions, Naturals, Sequences

CONSTANTS
    MaxSkippedKeys, MaxSeenMessages,
    MaxSealed,          \* bound of the model: messages of each party
    NoChain, Refused

VARIABLES
    session,   \* party -> its ratchetState, or Refused before it has one
    initial,   \* the initial message: the initiator's ephemeral key, or NoChain
    wire,      \* every ciphertext that was released
    read,      \* those that were opened
    freshKeys, \* how many key pairs were generated
    leak       \* key material that was taken from a device, or NoChain

\* What keys, chains, messages and ratchetStates are made of.
KeyPairs == ({"initiator", "acceptor"} \X {"identity", "prekey"}) \cup ({"fresh"} \X Nat)
Secrets == SUBSET KeyPairs
RootItems == Secrets \cup Seq(Secrets)
Roots == Seq(RootItems)
Chains == [root : Roots, at : Nat]
Messages == [to : {"initiator", "acceptor"}, public : KeyPairs, previous : Nat, number : Nat, key : Chains]
Sessions ==
    [root : Roots, self : KeyPairs, peer : KeyPairs, send : Chains \cup {NoChain},
     receive : Chains \cup {NoChain}, sent : Nat, received : Nat, previous : Nat,
     skipped : SUBSET [public : KeyPairs, number : Nat, key : Chains], seen : Seq(Messages)]

ASSUME RatchetAssumption == Refused \notin Sessions /\ NoChain \notin Chains

ratchetVars == <<session, initial, wire, read, freshKeys, leak>>

Parties == {"initiator", "acceptor"}
Peer(p) == IF p = "initiator" THEN "acceptor" ELSE "initiator"

\* NewPrekeyMaterial, of each party; generateX25519, of everything later.
Identity(p) == <<p, "identity">>
Prekey(p) == <<p, "prekey">>
Fresh == <<"fresh", freshKeys + 1>>

ECDH(x, y) == {x, y}
\* deriveInitial and deriveRoot: the root, which is also its chain at 0.
deriveInitial(secrets) == <<secrets>>
deriveRoot(root, shared) == Append(root, shared)
ChainOf(root) == [root |-> root, at |-> 0]

\* advanceChain: the message key at a place, and the chain past it.
KeyAt(chain, n) == [chain EXCEPT !.at = @ + n]

RatchetInit ==
    /\ session = [p \in Parties |-> Refused]
    /\ initial = NoChain /\ wire = {} /\ read = {} /\ freshKeys = 0 /\ leak = NoChain

NewSession(root, self, peer, send, receive) ==
    [root |-> root, self |-> self, peer |-> peer, send |-> send, receive |-> receive,
     sent |-> 0, received |-> 0, previous |-> 0, skipped |-> {}, seen |-> <<>>]

\* encodeRatchetState writes no state beyond the bounds, decodeRatchetState takes none
\* in which a message was seen twice, a place was skipped twice or a chain is half there.
Encodes(s) == Cardinality(s.skipped) <= MaxSkippedKeys /\ Len(s.seen) <= MaxSeenMessages
Decodes(s) ==
    /\ Encodes(s) /\ IsInjective(s.seen)
    /\ \A j, k \in s.skipped : j.public = k.public /\ j.number = k.number => j = k

Initiate ==
    /\ session["initiator"] = Refused
    /\ LET root == deriveInitial(<<ECDH(Identity("initiator"), Prekey("acceptor")),
                                   ECDH(Fresh, Identity("acceptor")), ECDH(Fresh, Prekey("acceptor"))>>)
       IN  session' = [session EXCEPT !["initiator"] =
             NewSession(root, Fresh, Prekey("acceptor"), ChainOf(root), NoChain)]
    /\ initial' = Fresh /\ freshKeys' = freshKeys + 1
    /\ UNCHANGED <<wire, read, leak>>

AcceptedSecrets(e) ==
    <<ECDH(Prekey("acceptor"), Identity("initiator")), ECDH(Identity("acceptor"), e),
      ECDH(Prekey("acceptor"), e)>>

Accept ==
    /\ session["acceptor"] = Refused /\ initial # NoChain
    /\ LET root == deriveInitial(AcceptedSecrets(initial))
       IN  session' = [session EXCEPT !["acceptor"] =
             NewSession(root, Prekey("acceptor"), initial, NoChain, ChainOf(root))]
    /\ UNCHANGED <<initial, wire, read, freshKeys, leak>>

\* Faulty variant: a key pair that was generated once is used for every turn.
advanceSendingRatchetStale(s) ==
    LET self == IF s.self[1] = "fresh" THEN s.self ELSE Fresh
        root == deriveRoot(s.root, ECDH(self, s.peer))
    IN  [s EXCEPT !.previous = s.sent, !.sent = 0, !.root = root, !.send = ChainOf(root),
                  !.self = self]
\* A turn of the sender: a new key pair, a new root, and the length of the chain before.
advanceSendingRatchet(s) ==
    LET root == deriveRoot(s.root, ECDH(Fresh, s.peer))
    IN  [s EXCEPT !.previous = s.sent, !.sent = 0, !.root = root, !.send = ChainOf(root),
                  !.self = Fresh]

\* Faulty variant: the number moves and the chain does not.
SealedInPlace(s) == [s EXCEPT !.sent = @ + 1]
Sealed(s) == [s EXCEPT !.send = KeyAt(@, 1), !.sent = @ + 1]

Seal(p) ==
    /\ session[p] # Refused /\ Decodes(session[p]) /\ Cardinality({m \in wire : m.to = Peer(p)}) < MaxSealed
    /\ LET s == IF session[p].send = NoChain THEN advanceSendingRatchet(session[p]) ELSE session[p]
       IN  /\ wire' = wire \cup {[to |-> Peer(p), public |-> s.self, previous |-> s.previous,
                                  number |-> s.sent, key |-> KeyAt(s.send, 0)]}
           /\ session' = [session EXCEPT ![p] = Sealed(s)] /\ Encodes(Sealed(s))
           /\ freshKeys' = IF session[p].send = NoChain THEN freshKeys + 1 ELSE freshKeys
    /\ UNCHANGED <<initial, read, leak>>

\* advanceReceivingRatchet: the peer's new key; the next send takes a turn too.
advanceReceivingRatchet(s, public) ==
    LET root == deriveRoot(s.root, ECDH(s.self, public))
    IN  [s EXCEPT !.root = root, !.receive = ChainOf(root), !.peer = public, !.received = 0,
                  !.send = NoChain]

\* Faulty variant: the keys that are passed over are not kept.
skipToForgetful(s, n) ==
    IF n < s.received THEN Refused
    ELSE [s EXCEPT !.received = n, !.receive = IF @ = NoChain THEN @ ELSE KeyAt(@, n - s.received)]
\* skipTo keeps the keys of the messages that are passed over, within the bound.
skipTo(s, n) ==
    IF n < s.received THEN Refused
    ELSE LET gap == n - s.received
         IN  IF Cardinality(s.skipped) + gap > MaxSkippedKeys \/ (gap > 0 /\ s.receive = NoChain)
             THEN Refused
             ELSE IF gap = 0 THEN s
             ELSE [s EXCEPT !.skipped = @ \cup {[public |-> s.peer, number |-> s.received + j,
                                                 key |-> KeyAt(s.receive, j)] : j \in 0..gap - 1},
                            !.receive = KeyAt(@, gap), !.received = n]

\* Faulty variant: a skipped key stays after it was used.
takeSkippedKept(s, k) == s
takeSkipped(s, k) == [s EXCEPT !.skipped = @ \ {k}]

\* remember: the oldest digest makes room.
remember(s, m) ==
    [s EXCEPT !.seen = Append(IF Len(@) = MaxSeenMessages THEN Tail(@) ELSE @, m)]

\* The chain the message is on: the current one, or the one its header begins.
Turned(s, m) ==
    IF m.public = s.peer THEN s
    ELSE LET skipped == skipTo(s, m.previous)
         IN  IF skipped = Refused THEN Refused ELSE advanceReceivingRatchet(skipped, m.public)

\* Open: the next state, or Refused.
Open(s, m) ==
    LET kept == {k \in s.skipped : k.public = m.public /\ k.number = m.number}
        turned == Turned(s, m)
        there == IF turned = Refused THEN Refused ELSE skipTo(turned, m.number)
    IN  IF \E i \in DOMAIN s.seen : s.seen[i] = m THEN Refused
        ELSE IF kept # {}
        THEN LET k == CHOOSE x \in kept : TRUE
             IN  IF k.key = m.key THEN remember(takeSkipped(s, k), m) ELSE Refused
        ELSE IF there = Refused THEN Refused
        ELSE IF there.receive = NoChain THEN Refused
        ELSE IF KeyAt(there.receive, 0) # m.key THEN Refused
        ELSE remember([there EXCEPT !.receive = KeyAt(@, 1), !.received = @ + 1], m)

Deliver(m) ==
    /\ session[m.to] # Refused /\ Decodes(session[m.to])
    /\ Open(session[m.to], m) # Refused /\ Encodes(Open(session[m.to], m))
    /\ session' = [session EXCEPT ![m.to] = Open(@, m)]
    /\ read' = read \cup {m}
    /\ UNCHANGED <<initial, wire, freshKeys, leak>>

\* KeyMaterial: what is on a device, without what it has seen.
KeyMaterial(s) == [s EXCEPT !.seen = <<>>]

\* A device is read once by someone else.
Leak(p) ==
    /\ leak = NoChain /\ session[p] # Refused
    /\ leak' = KeyMaterial(session[p])
    /\ UNCHANGED <<session, initial, wire, read, freshKeys>>

RatchetNext ==
    \/ Initiate \/ Accept
    \/ \E p \in Parties : Seal(p) \/ Leak(p)
    \/ \E m \in wire : Deliver(m)

RatchetSpec == RatchetInit /\ [][RatchetNext]_ratchetVars

-----------------------------------------------------------------------------
\* The shape of the states; the state that was written can be read back.
RatchetTypeOK ==
    \A p \in Parties : session[p] # Refused =>
        LET s == session[p]
        IN  /\ Decodes(s)
            /\ s.sent \in Nat /\ s.received \in Nat /\ s.previous \in Nat

\* No key seals two messages, in either direction or across turns.
SealedUnderOwnKey == \A m, n \in wire : m.key = n.key => m = n

\* How far a message is from where its receiver stands.
Gap(s, m) ==
    IF m.public = s.peer THEN m.number - s.received ELSE (m.previous - s.received) + m.number

\* Every message that was not read can still be read, whatever was read before
\* it or lost, within a chain and across turns: Open refuses an authentic
\* message only when the keys it would have to keep exceed the bound.
AnyOrderOpens ==
    \A m \in wire \ read : session[m.to] # Refused /\ Open(session[m.to], m) = Refused =>
        Cardinality(session[m.to].skipped) + Gap(session[m.to], m) > MaxSkippedKeys

\* checkPastTrafficSealed: the key material of a device opens nothing that the
\* device has read, even when it no longer remembers having seen it; so a
\* message is never read twice either.
PastTrafficSealed == \A m \in read : Open(KeyMaterial(session[m.to]), m) = Refused

\* What can be computed from the leaked key material: roots that extend its own
\* by secrets of the key pair it holds.
Derivable(m) ==
    /\ Len(leak.root) <= Len(m.key.root)
    /\ \A i \in 1..Len(m.key.root) :
          IF i <= Len(leak.root) THEN m.key.root[i] = leak.root[i] ELSE leak.self \in m.key.root[i]

\* checkPostCompromise: two turns after the material was taken it opens nothing.
HealsAfterTwoTurns ==
    \A m \in wire : leak # NoChain /\ Len(m.key.root) >= Len(leak.root) + 2 => ~Derivable(m)

\* A key opens one message, whatever order they come in, and is gone afterwards: every
\* unread message can be read, none seals two, none opens what was read, and none opens
\* what comes two turns after a compromise.
KeysOpenOnce == AnyOrderOpens /\ SealedUnderOwnKey /\ PastTrafficSealed /\ HealsAfterTwoTurns
=============================================================================
