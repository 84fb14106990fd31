---------------------------- MODULE ProbeSession -----------------------------
(***************************************************************************)
(* One reachability measurement (pkg/probe): two endpoints that bind, pair *)
(* through the coordinator, establish directly or through the tunnel       *)
(* relay, hold, reconnect and transfer, and keep their gateway open until  *)
(* the coordinator says that the peer is done.                             *)
(*                                                                         *)
(* Time is a shared clock.  A poll of the coordinator is one step: the     *)
(* request is lost, or it is handled and the reply is lost or delivered (a *)
(* late reply has an old nonce and is ignored).  What an endpoint measured *)
(* becomes a trial of module Reachability.                                 *)
(***************************************************************************)
EXTENDS FiniteSets, Integers, Reachability

CONSTANTS
    PairTimeout, PunchTimeout, HoldWindow,
    PingTimeout,        \* keepalivePingTimeout
    DoneSignalGrace,
    RLDPPlans,          \* the number of RLDP transfers each endpoint is to make
    MeasureReconnect, TunnelConfigured,
    SessionTTL,         \* of the coordinator's pairing
    MaxProbeClock, MaxPollLosses

ASSUME ProbeAssumption ==
    /\ PairTimeout \in Nat /\ PunchTimeout \in Nat /\ HoldWindow \in Nat /\ PingTimeout \in Nat
    /\ DoneSignalGrace \in Nat /\ RLDPPlans \in Nat

Roles == {"A", "B"}
PeerRole(e) == CHOOSE p \in Roles : p # e

VARIABLES
    runner,      \* each endpoint's phase, its limits in time and its Result
    pairing,     \* the coordinator's pairing: who is in it, who is done, when it was touched
    link,        \* whether a direct path exists, and whether the relay can be reached
    probeClock, pollLosses
probeVars == <<runner, pairing, link, probeClock, pollLosses>>

NoPairing == [present |-> FALSE, endpoints |-> {}, done |-> {}, touched |-> 0]
NewRunner ==
    [phase |-> "exchange", until |-> PairTimeout, deadline |-> 0, paired |-> FALSE,
     established |-> FALSE, tunneled |-> FALSE, failure |-> "internal",
     hold |-> "none", tunnel |-> "none", reconnect |-> "none", transfer |-> "none"]

ProbeInit ==
    /\ runner = [e \in Roles |-> NewRunner]
    /\ pairing = NoPairing
    /\ link \in [direct : BOOLEAN, relay : BOOLEAN]
    /\ probeClock = 0 /\ pollLosses = 0

DirectPhases == {"direct", "hold", "reconnect", "slot", "transfer", "await"}
TunnelPhases == {"tunnel", "tunnelHold", "tunnelAwait"}
Measuring == {"hold", "reconnect", "slot", "transfer", "tunnelHold"}
\* The peer answers over the path that e's session takes.
Answers(e) ==
    LET p == runner[PeerRole(e)].phase
    IN  \/ runner[e].phase \in DirectPhases /\ p \in DirectPhases /\ link.direct
        \/ runner[e].phase \in TunnelPhases /\ p \in TunnelPhases /\ link.relay

Becomes(e, r) == runner' = [runner EXCEPT ![e] = r] /\ UNCHANGED <<link, probeClock>>
Polls(lost) == pollLosses' = IF lost THEN pollLosses + 1 ELSE pollLosses
MayLose(lost) == lost => pollLosses < MaxPollLosses
NoPoll == UNCHANGED <<pairing, pollLosses>>
InPhase(e, phase) == runner[e].phase = phase
AtLimit(e) == probeClock >= runner[e].until

\* rldpBudget, measurementBudget (with no echoes configured), tunnelMeasurementBudget
rldpBudget == RLDPPlans * PunchTimeout
\* Faulty variant: only establishment is waited for.
measurementBudgetNone == 0
measurementBudget ==
    rldpBudget + IF HoldWindow = 0
                 THEN (IF RLDPPlans > 0 THEN DoneSignalGrace ELSE 0)
                 ELSE HoldWindow + PingTimeout + PunchTimeout + DoneSignalGrace
tunnelMeasurementBudget ==
    DoneSignalGrace + IF HoldWindow = 0 THEN 0 ELSE HoldWindow + PingTimeout

-----------------------------------------------------------------------------
(* The coordinator. *)

\* expireLocked
Alive == IF probeClock - pairing.touched > SessionTTL THEN NoPairing ELSE pairing

\* pair: the pairing after e presented itself.
PairedBy(e) ==
    [present |-> TRUE, endpoints |-> Alive.endpoints \cup {e}, done |-> Alive.done,
     touched |-> probeClock]

\* markDone: an expired pairing is answered as if the peer were done.
MarkedBy(e) ==
    IF ~Alive.present THEN Alive
    ELSE [Alive EXCEPT !.done = @ \cup {e}, !.touched = probeClock]
PeerDone(e) == ~Alive.present \/ PeerRole(e) \in Alive.done

-----------------------------------------------------------------------------
(* The endpoints: discover, exchange, establishADNL, tunnelEstablish. *)

Failed(e, class) == [runner[e] EXCEPT !.phase = "ended", !.failure = class]

\* discover: no coordinator answers.
Blocked(e) ==
    /\ InPhase(e, "exchange") /\ ~runner[e].paired /\ e \notin pairing.endpoints
    /\ Becomes(e, Failed(e, "udp-blocked")) /\ NoPoll

\* One poll of exchange; the gateway starts when the reply names the peer.
Exchange(e, lost) ==
    /\ InPhase(e, "exchange") /\ ~AtLimit(e) /\ MayLose(lost)
    /\ pairing' = PairedBy(e) /\ Polls(lost)
    /\ LET told == PeerRole(e) \in Alive.endpoints /\ ~lost
           limit == probeClock + PunchTimeout
       IN  Becomes(e, IF told THEN [runner[e] EXCEPT !.phase = "direct", !.paired = TRUE,
                                       !.until = limit, !.deadline = limit, !.failure = "handshake"]
                      ELSE runner[e])

\* The pairing was never completed; a peer that reached us anyway presented no key.
ExchangeEnds(e) ==
    /\ InPhase(e, "exchange") /\ AtLimit(e)
    /\ \E class \in {"no-candidate", "peer-unreachable"} : Becomes(e, Failed(e, class))
    /\ NoPoll

\* What follows the hold: reconnect, on the side that dials; then the transfers.
AfterReconnect(e, r) ==
    IF RLDPPlans = 0
    THEN [r EXCEPT !.phase = "await", !.until = r.deadline + measurementBudget]
    ELSE [r EXCEPT !.phase = IF e = "A" THEN "transfer" ELSE "slot",
                   !.until = probeClock + rldpBudget]
AfterHold(e, r) ==
    IF EndedWell(r.hold) /\ MeasureReconnect /\ e = "A"
    THEN [r EXCEPT !.phase = "reconnect", !.until = probeClock + PunchTimeout]
    ELSE AfterReconnect(e, r)

\* dial, awaitInbound: a confirmed round trip, before the deadline.
Establish(e) ==
    /\ InPhase(e, "direct") /\ ~AtLimit(e) /\ Answers(e)
    /\ LET r == [runner[e] EXCEPT !.established = TRUE, !.failure = "none"]
       IN  Becomes(e, IF HoldWindow > 0
                      THEN [r EXCEPT !.phase = "hold", !.until = probeClock + HoldWindow]
                      ELSE AfterReconnect(e, r))
    /\ NoPoll

\* Faulty variant: the fallback also follows a session that was established.
FallsBackAlways(r) == TunnelConfigured
FallsBack(r) == ~r.established /\ TunnelConfigured
\* The direct phase is over: end, or fall back to the tunnel.
AfterDirect(e, r) ==
    IF FallsBack(r)
    THEN [r EXCEPT !.phase = "tunnel", !.until = probeClock + PunchTimeout,
                   !.deadline = probeClock + PunchTimeout]
    ELSE [r EXCEPT !.phase = "ended"]
DirectFails(e) ==
    /\ InPhase(e, "direct") /\ AtLimit(e)
    /\ Becomes(e, AfterDirect(e, runner[e])) /\ NoPoll

\* holdSession: the window ended; or the peer has not answered for long enough.
HoldEnds(e) ==
    /\ InPhase(e, "hold")
    /\ \/ AtLimit(e) /\ Becomes(e, AfterHold(e, [runner[e] EXCEPT !.hold = "done"]))
       \/ ~Answers(e) /\ Becomes(e, AfterHold(e, [runner[e] EXCEPT !.hold = "failed"]))
    /\ NoPoll

\* measureReconnect
ReconnectEnds(e) ==
    /\ InPhase(e, "reconnect")
    /\ \/ Answers(e) /\ Becomes(e, AfterReconnect(e, [runner[e] EXCEPT !.reconnect = "done"]))
       \/ AtLimit(e) /\ Becomes(e, AfterReconnect(e, [runner[e] EXCEPT !.reconnect = "failed"]))
    /\ NoPoll

\* runRLDPPhase: the responder waits through the initiator's slot, then has its own.
SlotBegins(e) ==
    /\ InPhase(e, "slot") /\ AtLimit(e)
    /\ Becomes(e, [runner[e] EXCEPT !.phase = "transfer", !.until = probeClock + rldpBudget])
    /\ NoPoll
TransferEnds(e) ==
    /\ InPhase(e, "transfer")
    /\ \E result \in {"done", "failed"} :
        /\ (result = "done" => Answers(e)) /\ (result = "failed" => AtLimit(e))
        /\ Becomes(e, [runner[e] EXCEPT !.transfer = result, !.phase = "await",
                          !.until = runner[e].deadline + measurementBudget])
    /\ NoPoll

\* registerWithTunnel, then dial or awaitInbound, through the relay.
TunnelEstablish(e) ==
    /\ InPhase(e, "tunnel") /\ ~AtLimit(e) /\ Answers(e)
    /\ LET r == [runner[e] EXCEPT !.established = TRUE, !.tunneled = TRUE]
       IN  Becomes(e, IF HoldWindow > 0
                      THEN [r EXCEPT !.phase = "tunnelHold", !.until = probeClock + HoldWindow]
                      ELSE [r EXCEPT !.phase = "tunnelAwait",
                                     !.until = r.deadline + tunnelMeasurementBudget])
    /\ NoPoll
TunnelFails(e) ==
    /\ InPhase(e, "tunnel") /\ AtLimit(e)
    /\ Becomes(e, [runner[e] EXCEPT !.phase = "ended"]) /\ NoPoll
TunnelHoldEnds(e) ==
    /\ InPhase(e, "tunnelHold")
    /\ \E result \in {"done", "failed"} :
        /\ IF result = "done" THEN AtLimit(e) ELSE ~Answers(e)
        /\ Becomes(e, [runner[e] EXCEPT !.tunnel = result, !.phase = "tunnelAwait",
                          !.until = runner[e].deadline + tunnelMeasurementBudget])
    /\ NoPoll

\* The wait is over and the gateway is closed.
Closed(e) ==
    IF InPhase(e, "await") THEN AfterDirect(e, runner[e]) ELSE [runner[e] EXCEPT !.phase = "ended"]
\* awaitPeerDone: one poll; and the end of the wait.
AwaitPeerDone(e, lost) ==
    /\ runner[e].phase \in {"await", "tunnelAwait"} /\ ~AtLimit(e) /\ MayLose(lost)
    /\ pairing' = MarkedBy(e) /\ Polls(lost)
    /\ Becomes(e, IF PeerDone(e) /\ ~lost THEN Closed(e) ELSE runner[e])
AwaitEnds(e) ==
    /\ runner[e].phase \in {"await", "tunnelAwait"} /\ AtLimit(e)
    /\ Becomes(e, Closed(e)) /\ NoPoll

\* The path goes down for good; phases end when they are due.
LinkBreaks ==
    /\ link.direct /\ link' = [link EXCEPT !.direct = FALSE]
    /\ UNCHANGED <<runner, pairing, probeClock, pollLosses>>
ProbeTick ==
    /\ probeClock < MaxProbeClock
    /\ \A e \in Roles : runner[e].phase = "ended" \/ ~AtLimit(e)
    /\ probeClock' = probeClock + 1
    /\ UNCHANGED <<runner, pairing, link, pollLosses>>

ProbeNext ==
    \/ \E e \in Roles, lost \in BOOLEAN : Exchange(e, lost) \/ AwaitPeerDone(e, lost)
    \/ \E e \in Roles :
        \/ Blocked(e) \/ ExchangeEnds(e) \/ Establish(e) \/ DirectFails(e) \/ HoldEnds(e)
        \/ ReconnectEnds(e) \/ SlotBegins(e) \/ TransferEnds(e)
        \/ TunnelEstablish(e) \/ TunnelFails(e) \/ TunnelHoldEnds(e) \/ AwaitEnds(e)
    \/ LinkBreaks \/ ProbeTick

ProbeSpec == ProbeInit /\ [][ProbeNext]_probeVars

-----------------------------------------------------------------------------
\* measure, classify: the trial that is filed for a finished run, if there is one.
Filed(e) ==
    LET r == runner[e]
    IN  [outcome |-> IF ~r.established THEN "failed" ELSE IF r.tunneled THEN "proxy" ELSE "direct",
         failure |-> r.failure, probe |-> "adnl", hold |-> r.hold, tunnel |-> r.tunnel,
         reconnect |-> r.reconnect, echo |-> "none", transfer |-> r.transfer,
         interrupted |-> FALSE, resumed |-> FALSE, binds |-> {}]

\* The phases an endpoint is in, and limits that lie ahead or have just come.
ProbeTypeOK ==
    /\ \A e \in Roles :
        /\ runner[e].phase \in DirectPhases \cup TunnelPhases \cup {"exchange", "ended"}
        /\ runner[e].phase \notin {"await", "tunnelAwait", "ended"} => probeClock <= runner[e].until
    /\ pairing.done \subseteq pairing.endpoints

\* Every run that was paired ends in a trial that Validate accepts (classify's "fails
\* loudly"): the failure class, the outcome and the phases that ran always agree.
FinishedRunIsFileable ==
    \A e \in Roles : runner[e].phase = "ended" /\ runner[e].paired => Valid(Filed(e))

\* "The gateway has to outlive this endpoint's own success" (establishADNL): no endpoint
\* closes its gateway while its peer, with a session of the same kind, still measures.
StrandsNobody ==
    \A e \in Roles :
        LET p == PeerRole(e)
        IN  runner[e].phase = "ended" /\ runner[e].established /\ runner[p].established
              /\ runner[e].tunneled = runner[p].tunneled
              => runner[p].phase \notin Measuring

\* A run ends well: it leaves no peer measuring against a closed gateway, and what
\* it files is a trial the study accepts.
RunsEndWell == StrandsNobody /\ FinishedRunIsFileable
=============================================================================
