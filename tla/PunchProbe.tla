------------------------------ MODULE PunchProbe -----------------------------
(***************************************************************************)
(* One datagram measurement (pkg/probe, udp.go): two endpoints that ask    *)
(* every coordinator for their reflection, let cold sources try their      *)
(* filter (filter.go), exchange candidates and punch, each behind a NAT of *)
(* its own.                                                                *)
(*                                                                         *)
(* An address is a host and a tag: <<e, "own">> is an endpoint's interface, *)
(* <<e, "nat">> a mapping that does not depend on where e sends, <<e, h>>   *)
(* the mapping for host h.  The clock counts poll intervals.  Whatever is  *)
(* sent arrives within the interval, in any order, or is lost; a request   *)
(* to a coordinator is handled when it is sent.  Nonces tell the answers   *)
(* of one interval from those of another, which here never meet.           *)
(***************************************************************************)
EXTENDS Reachability

CONSTANTS
    Coordinators,              \* a sequence of hosts
    ColdSources,               \* coordinator -> the kinds of cold source attached to it
    NATs,                      \* pairs of NATs, as functions of Sides
    BindTimeout, PeerTimeout, PunchWindow, LingerWindow,
    SilentRoundLimit,
    GrantCapacity, GrantTTL,   \* of a coordinator's table of filter grants
    MaxCandidates,
    MaxSkew,                   \* how late an endpoint starts
    MaxLost, MaxPunchClock     \* bounds of the model

Sides == {"a", "b"}
Opposite(e) == CHOOSE p \in Sides : p # e

ASSUME PunchAssumption ==
    /\ NATs \subseteq [Sides -> [mapping : {"none", "independent", "dependent"},
                                 filtering : {"independent", "address-dependent", "port-dependent"}]]
    /\ {BindTimeout, PeerTimeout, PunchWindow, LingerWindow, MaxSkew, MaxLost} \subseteq Nat

VARIABLES
    nat,          \* endpoint -> its NAT
    contacted,    \* endpoint -> addresses it has sent to: what its NAT lets answer
    side,         \* endpoint -> where its runner stands, and its Result
    grants,       \* filterGrants of the coordinators
    paired,       \* endpoints of the pairing at the first coordinator -> how they presented themselves
    air,          \* datagrams on their way to an endpoint
    punchClock, lost
punchVars == <<nat, contacted, side, grants, paired, air, punchClock, lost>>

NewSide ==
    [phase |-> "idle", asked |-> FALSE, until |-> 0, coordinator |-> 0, binds |-> {},
     rounds |-> 0, heard |-> FALSE, echoed |-> {}, collected |-> {}, receipts |-> {},
     mapping |-> "undetermined", learned |-> {}, peers |-> {}, peerPublic |-> "unknown",
     established |-> FALSE, settle |-> 0, failure |-> "internal"]

PunchInit ==
    /\ nat \in NATs
    /\ contacted = [e \in Sides |-> {}]
    /\ side = [e \in Sides |-> NewSide]
    /\ grants = {} /\ paired = << >> /\ air = {}
    /\ punchClock = 0 /\ lost = 0

-----------------------------------------------------------------------------
(* The network. *)

Own(e) == <<e, "own">>
\* Where host h sees e.
External(e, h) ==
    CASE nat[e].mapping = "none" -> Own(e)
      [] nat[e].mapping = "independent" -> <<e, "nat">>
      [] nat[e].mapping = "dependent" -> <<e, h>>

\* Whether what comes from an address passes e's NAT to one of e's addresses.
Passes(e, from, tag) ==
    LET dependent == nat[e].mapping = "dependent" IN
    /\ IF dependent THEN \E a \in contacted[e] : a[1] = tag ELSE <<e, tag>> = External(e, tag)
    /\ CASE nat[e].filtering = "independent" -> TRUE
         [] nat[e].filtering = "address-dependent" ->
                \E a \in contacted[e] : a[1] = from[1] /\ (dependent => a[1] = tag)
         [] nat[e].filtering = "port-dependent" -> from \in contacted[e] /\ (dependent => from[1] = tag)

Datagram(kind, from, to, body) == [kind |-> kind, from |-> from, to |-> to, body |-> body]
Contact(e, addresses) == contacted' = [contacted EXCEPT ![e] = @ \cup addresses]
May(arrives) == lost' = IF arrives THEN lost ELSE lost + 1

\* Faulty variant: a kind that has no socket is served from the one e talks to.
ColdAddressPrimary(c, kind) == IF kind = "other-port" THEN <<c, "own">> ELSE <<"elsewhere", c>>
\* The sockets of AttachFilterSource: another port, or an address never contacted.
ColdAddress(c, kind) == IF kind = "other-port" THEN <<c, "other">> ELSE <<"elsewhere", c>>

-----------------------------------------------------------------------------
(* The coordinators. *)

\* expireFilterGrantsLocked
LiveGrants == {g \in grants : punchClock - g.at <= GrantTTL}

\* sendFilterProbes: a fresh token from every cold source, while the table has room.
FilterProbes(e, c) ==
    LET room == GrantCapacity - Cardinality({g \in LiveGrants : g.coordinator = c})
        token(kind) == [coordinator |-> c, source |-> kind, side |-> e,
                        observed |-> External(e, c), at |-> punchClock]
        kinds == IF room < 1 THEN {}
                 ELSE IF room = 1 /\ "other-port" \in ColdSources[c] THEN {"other-port"}
                 ELSE ColdSources[c]
    IN  {token(kind) : kind \in kinds}

\* redeemFilterToken: over the flow the probe was sent to, by the party it was meant for.
Redeems(e, c, token) ==
    token \in LiveGrants /\ token.coordinator = c /\ token.side = e /\ token.observed = External(e, c)

\* pair: what an endpoint presented, and what its peer is told of it.
Presented(e, c) == [observed |-> External(e, c), candidates |-> {Own(e)}]
PeerPublic(p) == IF p.observed \in p.candidates THEN "yes" ELSE "no"
PeerAnswer(p) == [candidates |-> {p.observed} \cup p.candidates, peerPublic |-> PeerPublic(p)]

-----------------------------------------------------------------------------
(* An endpoint's phases. *)

Coordinator(e) == Coordinators[side[e].coordinator]
Binding(s, k) ==
    [s EXCEPT !.phase = "bind", !.coordinator = k, !.asked = FALSE, !.until = punchClock + BindTimeout]
Filtering(s) ==
    [s EXCEPT !.phase = "filter", !.asked = FALSE, !.until = punchClock + BindTimeout,
              !.rounds = 0, !.heard = FALSE, !.echoed = {}, !.collected = {}]
Punching(s, addresses) ==
    [s EXCEPT !.phase = "punch", !.asked = FALSE, !.until = punchClock + PunchWindow,
              !.peers = addresses, !.learned = {}]
Ended(s, failure) ==
    [s EXCEPT !.phase = "closed", !.asked = FALSE, !.until = 0, !.settle = 0, !.peers = {},
              !.learned = {}, !.failure = failure]

\* Faulty variant: one reflection is taken for all of them.
ClassifyFirst(e, binds) ==
    IF \E b \in binds : b.address = Own(e) THEN "none" ELSE "independent"
\* classifyMapping: one reflection shows no NAT or nothing, several are compared.
ClassifyMapping(e, binds) ==
    IF \E b \in binds : b.coordinator = Coordinators[1] /\ b.address = Own(e) THEN "none"
    ELSE deriveMapping(binds)

\* discover: the next coordinator, or the mapping and the exchange.
Discovered(e, s) ==
    IF s.coordinator < Len(Coordinators) THEN Binding(s, s.coordinator + 1)
    ELSE [s EXCEPT !.phase = "pair", !.asked = FALSE, !.until = punchClock + PeerTimeout,
                   !.coordinator = 1, !.rounds = 0, !.heard = FALSE, !.echoed = {}, !.collected = {},
                   !.mapping = ClassifyMapping(e, s.binds)]

Discovering == {e \in Sides : side[e].phase \in {"bind", "filter"}}

\* Run: the socket is opened.  Nobody knows an endpoint that discovers, so the two
\* discoveries may be taken one after the other.
Launch(e) ==
    /\ side[e].phase = "idle" /\ punchClock <= MaxSkew /\ Discovering = {}
    /\ side' = [side EXCEPT ![e] = Binding(@, 1)]
    /\ UNCHANGED <<nat, contacted, grants, paired, air, punchClock, lost>>

\* bind, at the top of an interval.
AskBind(e) ==
    LET c == Coordinator(e) IN
    /\ side[e].phase = "bind" /\ ~side[e].asked
    /\ IF punchClock < side[e].until
       THEN /\ side' = [side EXCEPT ![e].asked = TRUE]
            /\ Contact(e, {<<c, "own">>})
            /\ air' = air \cup {Datagram("bindOK", <<c, "own">>, External(e, c), External(e, c))}
       ELSE /\ side' = [side EXCEPT ![e] = Ended(@, "udp-blocked")]
            /\ UNCHANGED <<contacted, air>>
    /\ UNCHANGED <<nat, grants, paired, punchClock, lost>>

\* MeasureFiltering, at the top of an interval: a coordinator that never answered is
\* asked a few times.
AskFilter(e, arrives) ==
    LET s == side[e]
        c == Coordinator(e)
        tokens == IF arrives THEN FilterProbes(e, c) ELSE {}
    IN
    /\ s.phase = "filter" /\ ~s.asked
    /\ IF punchClock < s.until /\ (s.heard \/ s.rounds < SilentRoundLimit)
       THEN /\ side' = [side EXCEPT ![e].asked = TRUE,
                                    ![e].rounds = IF s.heard THEN @ ELSE @ + 1]
            /\ grants' = IF arrives THEN LiveGrants \cup tokens ELSE grants
            /\ air' = air \cup {Datagram("filterProbe", ColdAddress(c, t.source), External(e, c), t) :
                                 t \in tokens}
            /\ May(arrives)
       ELSE /\ arrives
            /\ side' = [side EXCEPT ![e] = Discovered(e, @)]
            /\ UNCHANGED <<grants, air, lost>>
    /\ UNCHANGED <<nat, contacted, paired, punchClock>>

\* Faulty variant: what the peer sent before the pairing is forgotten.
LearnedNothing(e) == {}
\* exchange: who reached this endpoint while it waited.
Learned(e) == side[e].learned

\* exchange, at the top of an interval.  An answer without candidates is not listened to.
AskPair(e, arrives) ==
    LET c == Coordinator(e)
        p == Opposite(e)
    IN
    /\ side[e].phase = "pair" /\ ~side[e].asked
    /\ IF punchClock < side[e].until
       THEN /\ side' = [side EXCEPT ![e].asked = TRUE]
            /\ paired' = IF arrives THEN (e :> Presented(e, c)) @@ paired ELSE paired
            /\ air' = IF arrives /\ p \in DOMAIN paired
                      THEN air \cup {Datagram("pairOK", <<c, "own">>, External(e, c),
                                              PeerAnswer(paired[p]))}
                      ELSE air
            /\ May(arrives)
       ELSE /\ arrives
            /\ side' = [side EXCEPT ![e] = IF Learned(e) # {} THEN Punching(@, Learned(e))
                                           ELSE Ended(@, "no-candidate")]
            /\ UNCHANGED <<paired, air, lost>>
    /\ UNCHANGED <<nat, contacted, grants, punchClock>>

\* punch, at the top of an interval: the deadline, the end of the linger window, or one
\* more probe to every candidate.
AskPunch(e) ==
    LET s == side[e] IN
    /\ s.phase = "punch" /\ ~s.asked
    /\ IF punchClock >= s.until \/ (s.established /\ punchClock >= s.settle)
       THEN /\ side' = [side EXCEPT ![e] = Ended(@, IF s.established THEN "none" ELSE "handshake-timeout")]
            /\ UNCHANGED <<contacted, air>>
       ELSE /\ side' = [side EXCEPT ![e].asked = TRUE]
            /\ Contact(e, s.peers)
            /\ air' = air \cup {Datagram("punch", External(e, a[1]), a, "") : a \in s.peers}
    /\ UNCHANGED <<nat, grants, paired, punchClock, lost>>

-----------------------------------------------------------------------------
(* What an endpoint does with a datagram that reached its socket. *)

\* The address is e's reflection; the coordinator's signature over it verifies.
Reflected(e, d) ==
    Filtering([side[e] EXCEPT !.binds = @ \cup {[coordinator |-> Coordinator(e), address |-> d.body]}])

OnBindOK(e, d) ==
    /\ d.kind = "bindOK" /\ side[e].phase = "bind"
    /\ side' = [side EXCEPT ![e] = Reflected(e, d)]
    /\ air' = air \ {d}
    /\ UNCHANGED <<contacted, lost>>

\* A token that was not echoed yet is, to the coordinator of this exchange.
OnFilterProbe(e, d, arrives) ==
    LET c == Coordinator(e)
        answered == arrives /\ Redeems(e, c, d.body)
    IN
    /\ d.kind = "filterProbe" /\ side[e].phase = "filter"
    /\ side' = [side EXCEPT ![e].heard = TRUE, ![e].echoed = @ \cup {d.body}]
    /\ IF d.body \in side[e].echoed
       THEN arrives /\ air' = air \ {d} /\ UNCHANGED lost
       ELSE /\ air' = (air \ {d}) \cup (IF answered
                        THEN {Datagram("filterOK", <<c, "own">>, External(e, c), d.body)} ELSE {})
            /\ May(arrives)
    /\ UNCHANGED contacted

\* One receipt of a kind in an exchange; with both kinds the exchange is over.
Collected(s, t) ==
    IF t.source \in s.collected THEN s
    ELSE [s EXCEPT !.collected = @ \cup {t.source},
                   !.receipts = @ \cup {[coordinator |-> t.coordinator, source |-> t.source]}]

OnFilterOK(e, d) ==
    LET s == Collected([side[e] EXCEPT !.heard = TRUE], d.body) IN
    /\ d.kind = "filterOK" /\ side[e].phase = "filter"
    /\ side' = [side EXCEPT ![e] = IF Cardinality(s.collected) = 2 THEN Discovered(e, s) ELSE s]
    /\ air' = air \ {d}
    /\ UNCHANGED <<contacted, lost>>

OnPairOK(e, d) ==
    /\ d.kind = "pairOK" /\ side[e].phase = "pair"
    /\ side' = [side EXCEPT ![e] = Punching([@ EXCEPT !.peerPublic = d.body.peerPublic],
                                            d.body.candidates \cup Learned(e))]
    /\ air' = air \ {d}
    /\ UNCHANGED <<contacted, lost>>

\* observe: the peer's probe is answered where it came from, in every phase; the source is
\* kept while the exchange may still use it.
Observe(e, d) ==
    /\ d.kind = "punch" /\ side[e].phase \in {"bind", "filter", "pair", "punch"}
    /\ side' = [side EXCEPT ![e].learned =
           IF side[e].phase # "punch" /\ Cardinality(@) < MaxCandidates THEN @ \cup {d.from} ELSE @]
    /\ Contact(e, {d.from})
    /\ air' = (air \ {d}) \cup {Datagram("punchAck", External(e, d.from[1]), d.from, "")}
    /\ UNCHANGED lost

\* Faulty variant: the socket is closed as soon as the path is there.
SettlesAtOnce(s) == punchClock
\* The endpoint keeps answering for a while.
SettlesWhen(s) == IF s.until < punchClock + LingerWindow THEN s.until ELSE punchClock + LingerWindow

OnPunchAck(e, d) ==
    LET s == side[e] IN
    /\ d.kind = "punchAck" /\ s.phase = "punch"
    /\ side' = IF s.established THEN side
               ELSE [side EXCEPT ![e].established = TRUE, ![e].failure = "none", ![e].settle = SettlesWhen(s)]
    /\ air' = air \ {d}
    /\ UNCHANGED <<contacted, lost>>

Heeded ==
    [bindOK |-> {"bind"}, filterProbe |-> {"filter"}, filterOK |-> {"filter"}, pairOK |-> {"pair"},
     punch |-> {"bind", "filter", "pair", "punch"}, punchAck |-> {"punch"}]

\* A datagram that the NAT drops, that finds no socket or that the phase does not ask for.
Ignored(e, d) ==
    /\ ~Passes(e, d.from, d.to[2]) \/ side[e].phase \notin Heeded[d.kind]
    /\ air' = air \ {d}
    /\ UNCHANGED <<side, contacted, lost>>

Reach(d, arrives) ==
    LET e == d.to[1] IN
    /\ \/ Ignored(e, d) /\ arrives
       \/ /\ Passes(e, d.from, d.to[2])
          /\ \/ OnFilterProbe(e, d, arrives)
             \/ /\ arrives
                /\ OnBindOK(e, d) \/ OnFilterOK(e, d) \/ OnPairOK(e, d) \/ Observe(e, d) \/ OnPunchAck(e, d)
    /\ UNCHANGED <<nat, grants, paired, punchClock>>

Lose(d) ==
    /\ lost < MaxLost
    /\ air' = air \ {d} /\ lost' = lost + 1
    /\ UNCHANGED <<nat, contacted, side, grants, paired, punchClock>>

\* An interval is over when everything sent in it arrived and every loop has waited.
PunchTick ==
    /\ punchClock < MaxPunchClock /\ air = {}
    /\ \A e \in Sides : \/ side[e].asked \/ side[e].phase = "closed"
                        \/ side[e].phase = "idle" /\ (punchClock < MaxSkew \/ Discovering # {})
    /\ punchClock' = punchClock + 1
    /\ side' = [e \in Sides |-> [side[e] EXCEPT !.asked = FALSE]]
    /\ UNCHANGED <<nat, contacted, grants, paired, air, lost>>

PunchNext ==
    \/ \E e \in Sides : Launch(e) \/ AskBind(e) \/ AskPunch(e)
    \/ \E arrives \in BOOLEAN :
          /\ arrives \/ lost < MaxLost
          /\ \/ \E e \in Sides : AskFilter(e, arrives) \/ AskPair(e, arrives)
             \/ \E d \in air : Reach(d, arrives)
    \/ \E d \in air : Lose(d)
    \/ PunchTick

-----------------------------------------------------------------------------
PunchTypeOK ==
    /\ \A e \in Sides : side[e].phase \in {"idle", "bind", "filter", "pair", "punch", "closed"}
    /\ \A c \in DOMAIN ColdSources :
          Cardinality({g \in grants : g.coordinator = c}) <= GrantCapacity
    /\ lost \in 0..MaxLost

\* What an endpoint says of its NAT is so, whatever was lost: the mapping class it
\* declares is its NAT's and survives the verifier's own derivation from the signed
\* reflections, and a receipt is held only for a cold source that the NAT admits ("The
\* absence of a receipt proves nothing", filtering.go).
ClassesAreMeasured ==
    \A e \in Sides :
        /\ side[e].mapping \in {nat[e].mapping, "undetermined"}
        /\ mappingConsistent(side[e].mapping, deriveMapping(side[e].binds))
        /\ DeriveFiltering({r.source : r \in side[e].receipts}) \in
               {"undetermined", nat[e].filtering, "address-dependent"}
        /\ side[e].receipts # {} => nat[e].filtering # "port-dependent"
        /\ side[e].peerPublic = "yes" => nat[Opposite(e)].mapping = "none"

\* A path that one endpoint established is established at the other: neither closes its
\* socket "under a peer that is still probing" (punch), whichever of them paired first or
\* never heard from the coordinator again.
SeenByBoth(e) ==
    (\A p \in Sides : side[p].phase = "closed") /\ side[e].established => side[Opposite(e)].established

\* "records the source as a verified candidate to punch back at" (observe), also when the
\* source is a mapping that nobody could have paired.
LearnedIsPunched == \A e \in Sides : SeenByBoth(e)

\* A measurement is as true as its evidence: what it says of the NATs, and of a path where
\* no mapping depends on the destination.
MeasuredAsItIs ==
    /\ ClassesAreMeasured
    /\ (\A e \in Sides : nat[e].mapping # "dependent") => LearnedIsPunched
=============================================================================
