------------------------------- MODULE MCPeers ------------------------------
(***************************************************************************)
(* Small instances of the components that meet other parties: prekeys and  *)
(* their directory, sessions, admission, probes, the tunnel and the carrier*)
(* of Intents.  One run checks them side by side.                          *)
(* `focus' says which component a behaviour is about; the others stay in   *)
(* their initial states, so a state is told apart by the variables of its  *)
(* component alone (Seen).                                                 *)
(***************************************************************************)
EXTENDS PrekeyGenerations, PeerDirectory, Ratchet, AdmissionGate, ProbeSession, PunchProbe,
        TunnelRelay, IntentCarrier, TLC

CONSTANTS
    da, db, dc,                            \* devices
    u1, u2,                                \* callers of the directory
    i1, i2, ag, ah, h1, h2,                \* invites, agents, handlers
    ca, cb, cc, ta, tb, tc, td, s1, s2,    \* clients, tuples and sessions of the tunnel
    a1, a2, a3, f1, f2                     \* operations of the carrier, their fences

VARIABLE focus

MCRosters == {{da, db}, {da}}
Bundle(device, issued, expires) ==
    [device |-> device, issued |-> issued, expires |-> expires, key |-> issued]
MCGenerations ==
    {{Bundle(da, 1, 3), Bundle(db, 1, 3)}, {Bundle(da, 1, 3), Bundle(dc, 1, 3)},
     {Bundle(da, 2, 4), Bundle(db, 2, 4)}}

Inbound(agent, device, kind, created, expires, valid, epoch_, revision) ==
    [agent |-> agent, device |-> device, kind |-> kind, created |-> created, expires |-> expires,
     wellFormed |-> TRUE, scoped |-> TRUE, room |-> kind = "moderation", valid |-> valid,
     token |-> i1, epoch |-> epoch_, revision |-> revision]
MCGateEvents ==
    {Inbound(ag, "d1", "text", 0, 0, TRUE, 0, 0), Inbound(ag, "d1", "text", 1, 3, FALSE, 0, 0),
     Inbound(ah, "d2", "moderation", 1, 3, TRUE, 1, 1)}
MCInviteFor == i1 :> NoInvite @@ i2 :> ag

\* Half a measurement between two private endpoints.
Half(digest, session_, role, key, operator, outcome, hold) ==
    LET direct == outcome = "direct"
        ran == IF direct THEN "done" ELSE "none"
    IN  [digest |-> digest, session |-> session_, role |-> role, key |-> key,
         operator |-> operator, site |-> operator, reach |-> "nat", mobile |-> FALSE,
         peerPublic |-> "no", probe |-> "adnl", outcome |-> outcome,
         failure |-> IF direct THEN "none" ELSE "timeout", commit |-> "c", peerCommit |-> "c",
         signed |-> TRUE, family |-> "v4", observed |-> "v4", nat |-> "none", binds |-> {},
         filters |-> {}, hold |-> hold, reconnect |-> "none",
         tunnel |-> IF direct THEN "none" ELSE "done", echo |-> ran, transfer |-> ran,
         interrupted |-> direct, resumed |-> direct]
\* Two direct sessions of one pair of operators, one of which broke at one end; a
\* session with a host under a second name and a third half; a tunnelled session.
MCTrials ==
    {Half(1, "s1", "A", "k1", "o1", "direct", "done"), Half(2, "s1", "B", "k2", "o2", "direct", "done"),
     Half(3, "s2", "A", "k1", "o1", "direct", "failed"), Half(4, "s2", "B", "k2", "o2", "direct", "done"),
     Half(5, "s3", "A", "k3", "o3", "direct", "done"), Half(6, "s3", "B", "k1", "o4", "direct", "done"),
     Half(7, "s3", "B", "k2", "o2", "direct", "done"),
     Half(8, "s4", "A", "k1", "o1", "proxy", "none"), Half(9, "s4", "B", "k2", "o2", "proxy", "none")}
MCRequired == {<<[reach |-> "nat", mobile |-> FALSE], [reach |-> "nat", mobile |-> FALSE]>>}
HalfRate == <<1, 2>>
FullRate == <<1, 1>>

\* A public endpoint and NATs of every kind; one coordinator has a single cold source.
BehindNAT(mapping, filtering) == [mapping |-> mapping, filtering |-> filtering]
Public == BehindNAT("none", "independent")
Strict == BehindNAT("independent", "port-dependent")
Symmetric == BehindNAT("dependent", "port-dependent")
MCNATs ==
    {"a" :> Public @@ "b" :> y : y \in {BehindNAT("independent", "independent"), Strict, Symmetric}}
    \cup {"a" :> Strict @@ "b" :> y :
             y \in {BehindNAT("independent", "address-dependent"), Strict, Symmetric}}
MCCoordinators == <<"c1", "c2">>
MCColdSources == "c1" :> {"other-port", "other-address"} @@ "c2" :> {"other-port"}

MCSessionOf == ca :> s1 @@ cb :> s1 @@ cc :> s2
MCRoleOf == ca :> "A" @@ cb :> "B" @@ cc :> "A"
MCHomeTuple == ca :> ta @@ cb :> tb @@ cc :> tc

MCGeneration == a1 :> 1 @@ a2 :> 1 @@ a3 :> 2
MCWriterFence == a1 :> f1 @@ a2 :> f1 @@ a3 :> f2
MCWithdrawn == a1 :> NoOperation @@ a2 :> NoOperation @@ a3 :> a1
MCActor == [a \in {a1, a2, a3} |-> ag]

Components == {"prekeys", "directory", "ratchet", "gate", "study", "probe", "punch", "tunnel", "carrier"}

Init ==
    /\ focus \in Components
    /\ PrekeyInit
    /\ DirectoryInit
    /\ RatchetInit
    /\ GateInit
    /\ StudyInit
    /\ ProbeInit
    /\ PunchInit
    /\ TunnelInit
    /\ CarrierInit

Next ==
    \/ /\ focus = "prekeys" /\ PrekeyNext
       /\ UNCHANGED <<focus, directoryVars, ratchetVars, gateVars, studyVars, probeVars, punchVars, tunnelVars, carrierVars>>
    \/ /\ focus = "directory" /\ DirectoryNext
       /\ UNCHANGED <<focus, prekeyVars, ratchetVars, gateVars, studyVars, probeVars, punchVars, tunnelVars, carrierVars>>
    \/ /\ focus = "ratchet" /\ RatchetNext
       /\ UNCHANGED <<focus, prekeyVars, directoryVars, gateVars, studyVars, probeVars, punchVars, tunnelVars, carrierVars>>
    \/ /\ focus = "gate" /\ GateNext
       /\ UNCHANGED <<focus, prekeyVars, directoryVars, ratchetVars, studyVars, probeVars, punchVars, tunnelVars, carrierVars>>
    \/ /\ focus = "study" /\ StudyNext
       /\ UNCHANGED <<focus, prekeyVars, directoryVars, ratchetVars, gateVars, probeVars, punchVars, tunnelVars, carrierVars>>
    \/ /\ focus = "probe" /\ ProbeNext
       /\ UNCHANGED <<focus, prekeyVars, directoryVars, ratchetVars, gateVars, studyVars, punchVars, tunnelVars, carrierVars>>
    \/ /\ focus = "punch" /\ PunchNext
       /\ UNCHANGED <<focus, prekeyVars, directoryVars, ratchetVars, gateVars, studyVars, probeVars, tunnelVars, carrierVars>>
    \/ /\ focus = "tunnel" /\ TunnelNext
       /\ UNCHANGED <<focus, prekeyVars, directoryVars, ratchetVars, gateVars, studyVars, probeVars, punchVars, carrierVars>>
    \/ /\ focus = "carrier" /\ CarrierNext
       /\ UNCHANGED <<focus, prekeyVars, directoryVars, ratchetVars, gateVars, studyVars, probeVars, punchVars, tunnelVars>>

Seen ==
    <<focus, CASE focus = "prekeys" -> prekeyVars
                 [] focus = "directory" -> directoryVars
                 [] focus = "ratchet" -> ratchetVars
                 [] focus = "gate" -> gateVars
                 [] focus = "study" -> studyVars
                 [] focus = "probe" -> probeVars
                 [] focus = "punch" -> punchVars
                 [] focus = "tunnel" -> tunnelVars
                 [] focus = "carrier" -> carrierVars>>

\* Callers, finalizers and handlers are alike.
Alike == Permutations({u1, u2}) \cup Permutations({h1, h2})

\* The state of every component keeps its shape.
PeersTypeOK ==
    /\ PrekeyTypeOK
    /\ DirectoryTypeOK
    /\ RatchetTypeOK
    /\ GateTypeOK
    /\ StudyTypeOK
    /\ ProbeTypeOK
    /\ PunchTypeOK
    /\ TunnelTypeOK
    /\ CarrierTypeOK
=============================================================================
