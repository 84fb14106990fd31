--------------------------- MODULE NetworkProofs ----------------------------
(***************************************************************************)
(* For any number of messages, losses, crashes and failed writes: replicas *)
(* of public channels and reachability measurements.                       *)
(***************************************************************************)
EXTENDS ChannelNode, ProbeSession, TLAPS

(***************************************************************************)
(* Replicas of public channels. For any profiles, Events, peers and        *)
(* crashes: the committed history loads, only grows, and the profile       *)
(* follows one chain of epochs. Both follow from what a step may do to the *)
(* head files and the objects they name (ReplicaMoves) and to the profile  *)
(* (ProfileMoves).                                                         *)
(***************************************************************************)

\* What the head files name, and that there is one for each profile.
ReplicaInv == heads = [p \in Profiles |-> heads[p]] /\ CommittedLoads

\* What a step may do to the head files and to the objects they name.
ReplicaMoves ==
    /\ heads' = [p \in Profiles |-> heads'[p]] /\ stored \subseteq stored'
    /\ \A p \in Profiles :
          \/ heads'[p] = heads[p]
          \/ /\ heads[p] \subseteq heads'[p] /\ VerifyHistory(heads'[p], p)
             /\ EventObjects(heads'[p]) \cup {<<"history", heads'[p]>>} \subseteq stored'

\* What a step may do to the profile.
ProfileMoves ==
    \/ profileNow' = profileNow
    \/ profileNow = NoProfile /\ profileNow'.epoch = 1
    \/ profileNow # NoProfile /\ VerifySuccessor(profileNow, profileNow')

LEMMA ReplicaKept ==
    ASSUME ReplicaInv, heads' = heads, stored \subseteq stored'
    PROVE  ReplicaMoves
BY Zenon DEF ReplicaInv, ReplicaMoves

\* A commit replaces the head file of the profile the node runs under, by a history that
\* verifies, contains the one before, and is on disk.
LEMMA CommitMoves ==
    ASSUME ReplicaInv, NEW w, CommitHistory(w)
    PROVE  ReplicaMoves /\ ProfileMoves
<1>1. PICK set : set = w.cursor.known
  BY Zenon
<1>2. /\ VerifyHistory(set, profileNow) /\ heads[profileNow] \subseteq set
      /\ stored' = stored \cup (EventObjects(set) \cup {<<"history", set>>})
      /\ heads' = [heads EXCEPT ![profileNow] = set] /\ profileNow' = profileNow
  BY Zenon, <1>1 DEF CommitHistory, CommitAllowed
<1>3. heads = [p \in Profiles |-> heads[p]]
  BY Zenon DEF ReplicaInv
<1>4. heads' = [p \in Profiles |-> IF p = profileNow THEN set ELSE heads[p]]
  BY Zenon, <1>2, <1>3
<1>5. heads' = [p \in Profiles |-> heads'[p]]
  BY Zenon, <1>4
<1>6. ASSUME NEW p \in Profiles
      PROVE  \/ heads'[p] = heads[p]
             \/ /\ heads[p] \subseteq heads'[p] /\ VerifyHistory(heads'[p], p)
                /\ EventObjects(heads'[p]) \cup {<<"history", heads'[p]>>} \subseteq stored'
  <2>1. CASE p = profileNow
    <3>1. heads'[p] = set
      BY Zenon, <1>4, <2>1
    <3> QED
      BY Zenon, <1>2, <2>1, <3>1
  <2>2. CASE p # profileNow
    BY Zenon, <1>4, <2>2
  <2> QED
    BY Zenon, <2>1, <2>2
<1>7. stored \subseteq stored'
  BY Zenon, <1>2
<1> QED
  BY Zenon, <1>2, <1>5, <1>6, <1>7 DEF ReplicaMoves, ProfileMoves

\* Every other action leaves the head files alone and deletes no object.
LEMMA ChannelMoves ==
    ASSUME ReplicaInv, [ChannelNext]_channelVars
    PROVE  ReplicaMoves /\ ProfileMoves
<1>1. CASE UNCHANGED channelVars
  BY Zenon, <1>1, ReplicaKept DEF channelVars, storeVars, ProfileMoves
<1>2. ASSUME NEW p \in ChannelPeers,
             Attach(p) \/ Detach(p) \/ (\E h \in Announces[p] : Announce(p, h))
      PROVE  UNCHANGED storeVars
  BY Zenon, <1>2 DEF Attach, Detach, Announce
<1>3. ASSUME NEW set \in Hinted, ScheduleCatchUp(set) PROVE UNCHANGED storeVars
  BY Zenon, <1>3 DEF ScheduleCatchUp
<1>4. ASSUME NEW w \in syncing, SyncFails(w) \/ SyncFetch(w) \/ VerifySyncedHistory(w) \/ Show(w)
      PROVE  UNCHANGED storeVars
  BY Zenon, <1>4 DEF SyncFails, SyncFetch, VerifySyncedHistory, Show
<1>5. ASSUME MirrorPublished(shown) PROVE UNCHANGED storeVars
  BY Zenon, <1>5 DEF MirrorPublished
<1>6. ASSUME NEW w \in syncing, CommitCrash(w)
      PROVE  ReplicaMoves /\ ProfileMoves
  <2>1. profileNow' = profileNow /\ heads' = heads /\ stored \subseteq stored'
    BY Zenon, <1>6 DEF CommitCrash
  <2> QED
    BY Zenon, <2>1, ReplicaKept DEF ProfileMoves
<1>7. ASSUME NEW q \in Profiles, NodeStart(q) PROVE ReplicaMoves /\ ProfileMoves
  <2>1. heads' = heads /\ stored \subseteq stored' /\ profileNow' = q /\ ApplyProfile(q)
    BY Zenon, <1>7 DEF NodeStart
  <2> QED
    BY Zenon, <2>1, ReplicaKept DEF ProfileMoves, ApplyProfile
<1>8. ASSUME NEW q \in Profiles, ProfileCrash(q) PROVE ReplicaMoves /\ ProfileMoves
  <2>1. heads' = heads /\ stored \subseteq stored' /\ profileNow' = profileNow
    BY Zenon, <1>8 DEF ProfileCrash
  <2> QED
    BY Zenon, <2>1, ReplicaKept DEF ProfileMoves
<1>9. ASSUME UNCHANGED storeVars PROVE ReplicaMoves /\ ProfileMoves
  BY Zenon, <1>9, ReplicaKept DEF storeVars, ProfileMoves
<1> QED
  BY SMTT(40), <1>1, <1>2, <1>3, <1>4, <1>5, <1>6, <1>7, <1>8, <1>9, CommitMoves DEF ChannelNext

LEMMA ReplicaStep ==
    ASSUME ReplicaInv, ReplicaMoves
    PROVE  ReplicaInv'
<1>1. ASSUME NEW p \in Profiles, heads'[p] # {}
      PROVE  /\ VerifyHistory(heads'[p], p)
             /\ EventObjects(heads'[p]) \cup {<<"history", heads'[p]>>} \subseteq stored'
  <2>1. CASE heads'[p] = heads[p]
    BY Zenon, <1>1, <2>1 DEF ReplicaInv, ReplicaMoves, CommittedLoads
  <2>2. CASE heads'[p] # heads[p]
    BY Zenon, <2>2 DEF ReplicaMoves
  <2> QED
    BY Zenon, <2>1, <2>2
<1>2. CommittedLoads'
  BY Zenon, <1>1 DEF CommittedLoads
<1> QED
  BY Zenon, <1>2 DEF ReplicaInv, ReplicaMoves

LEMMA ReplicaInitially == ChannelInit => ReplicaInv
BY Zenon DEF ChannelInit, ReplicaInv, CommittedLoads

\* Whatever a crash left behind, the head file of a profile names a history that verifies
\* and that is on disk complete: CommitHistory writes it last.
THEOREM CommittedHistoryLoads == ChannelSpec => []CommittedLoads
<1>1. ReplicaInv /\ [ChannelNext]_channelVars => ReplicaInv'
  BY Zenon, ChannelMoves, ReplicaStep
<1>2. ReplicaInv => CommittedLoads
  BY Zenon DEF ReplicaInv
<1> QED
  BY <1>1, <1>2, ReplicaInitially, PTL DEF ChannelSpec

\* No commit, crash or restart takes an Event out of a committed history, and the profile
\* follows one chain of signed epochs, for any profiles, Events, peers and bounds.
THEOREM ReplicaAdvances == ChannelSpec => ReplicaOnlyAdvances
<1>1. ReplicaInv /\ [ChannelNext]_channelVars => ReplicaInv'
  BY Zenon, ChannelMoves, ReplicaStep
<1>2. ReplicaInv /\ [ChannelNext]_channelVars =>
        [/\ \A p \in Profiles : heads[p] \subseteq heads'[p]
         /\ \/ profileNow' = profileNow
            \/ profileNow = NoProfile /\ profileNow'.epoch = 1
            \/ profileNow # NoProfile /\ VerifySuccessor(profileNow, profileNow')]_channelVars
  BY Zenon, ChannelMoves DEF ReplicaMoves, ProfileMoves
<1> QED
  BY <1>1, <1>2, ReplicaInitially, PTL DEF ChannelSpec, ReplicaOnlyAdvances

-----------------------------------------------------------------------------
(***************************************************************************)
(* A reachability measurement. For any timeouts, windows and plans: a run  *)
(* that was paired ends in a trial that Validate accepts. ProbeInv says    *)
(* for each phase of a run what its Result already holds (ResultAgrees).   *)
(***************************************************************************)

RunPhases == DirectPhases \cup TunnelPhases \cup {"exchange", "ended"}
Marks == {"none", "done", "failed"}
Failures == {"internal", "handshake", "none", "udp-blocked", "no-candidate", "peer-unreachable"}
Runners ==
    [phase : RunPhases, until : Nat, deadline : Nat, paired : BOOLEAN, established : BOOLEAN,
     tunneled : BOOLEAN, failure : Failures, hold : Marks, tunnel : Marks, reconnect : Marks,
     transfer : Marks]

Unmeasured(r) == r.hold = "none" /\ r.reconnect = "none" /\ r.transfer = "none"

\* The three ways a run can have gone: no session, a direct one, one through the tunnel.
NoSession(r) ==
    ~r.established /\ ~r.tunneled /\ r.failure = "handshake" /\ Unmeasured(r) /\ r.tunnel = "none"
DirectSession(r) == r.established /\ ~r.tunneled /\ r.failure = "none" /\ r.tunnel = "none"
TunnelSession(r) == r.established /\ r.tunneled /\ r.failure = "handshake" /\ Unmeasured(r)

\* What the phase of a run says of its Result.
ResultAgrees(r) ==
    /\ r.phase = "exchange" =>
          ~r.established /\ ~r.tunneled /\ ~r.paired /\ Unmeasured(r) /\ r.tunnel = "none"
    /\ r.phase \in {"direct", "tunnel"} => NoSession(r)
    /\ r.phase \in {"hold", "reconnect", "slot", "transfer", "await"} => DirectSession(r)
    /\ r.phase \in {"tunnelHold", "tunnelAwait"} => TunnelSession(r)
    /\ r.phase = "ended" /\ r.paired => NoSession(r) \/ DirectSession(r) \/ TunnelSession(r)

Good(r) == r \in Runners /\ ResultAgrees(r)
ProbeInv == probeClock \in Nat /\ runner = [e \in Roles |-> runner[e]] /\ \A e \in Roles : Good(runner[e])

-----------------------------------------------------------------------------
LEMMA Budgets ==
    /\ rldpBudget \in Nat /\ measurementBudget \in Nat /\ tunnelMeasurementBudget \in Nat
<1>1. rldpBudget \in Nat
  BY ProbeAssumption DEF rldpBudget
<1>2. measurementBudget \in Nat
  BY <1>1, ProbeAssumption DEF measurementBudget
<1>3. tunnelMeasurementBudget \in Nat
  BY ProbeAssumption DEF tunnelMeasurementBudget
<1> QED
  BY Zenon, <1>1, <1>2, <1>3

\* A run goes on in another phase.
To(r, phase, until) == [r EXCEPT !.phase = phase, !.until = until]
LEMMA ToIs ==
    ASSUME NEW r \in Runners, NEW ph \in RunPhases, NEW u \in Nat
    PROVE  LET q == To(r, ph, u)
           IN  /\ q \in Runners /\ q.phase = ph /\ q.paired = r.paired
               /\ (DirectSession(q) <=> DirectSession(r)) /\ (TunnelSession(q) <=> TunnelSession(r))
               /\ (NoSession(q) <=> NoSession(r))
BY Zenon DEF Runners, To, DirectSession, TunnelSession, NoSession, Unmeasured

LEMMA DirectGoesOn ==
    ASSUME NEW r \in Runners, DirectSession(r), NEW u \in Nat,
           NEW ph \in {"hold", "reconnect", "slot", "transfer", "await"}
    PROVE  Good(To(r, ph, u))
<1>1. ph \in RunPhases /\ ph \notin {"exchange", "direct", "tunnel", "tunnelHold", "tunnelAwait", "ended"}
  BY Zenon DEF RunPhases, DirectPhases
<1>2. PICK q : q = To(r, ph, u)
  BY Zenon
<1>3. q \in Runners /\ q.phase = ph /\ DirectSession(q)
  BY Zenon, <1>1, <1>2, ToIs
<1> QED
  BY Zenon, <1>1, <1>2, <1>3 DEF Good, ResultAgrees

LEMMA AfterReconnectIs ==
    ASSUME NEW e, NEW r \in Runners, DirectSession(r), probeClock \in Nat
    PROVE  Good(AfterReconnect(e, r))
<1>1. probeClock + rldpBudget \in Nat /\ r.deadline + measurementBudget \in Nat
  BY Budgets DEF Runners
<1>2. AfterReconnect(e, r) \in {To(r, "await", r.deadline + measurementBudget),
                                To(r, "transfer", probeClock + rldpBudget),
                                To(r, "slot", probeClock + rldpBudget)}
  BY Zenon DEF AfterReconnect, To
<1> QED
  BY Zenon, <1>1, <1>2, DirectGoesOn

LEMMA AfterHoldIs ==
    ASSUME NEW e, NEW r \in Runners, DirectSession(r), probeClock \in Nat
    PROVE  Good(AfterHold(e, r))
<1>1. probeClock + PunchTimeout \in Nat
  BY ProbeAssumption
<1>2. AfterHold(e, r) \in {To(r, "reconnect", probeClock + PunchTimeout), AfterReconnect(e, r)}
  BY Zenon DEF AfterHold, To
<1> QED
  BY Zenon, <1>1, <1>2, DirectGoesOn, AfterReconnectIs

\* A run ends.
LEMMA EndIs ==
    ASSUME NEW r \in Runners, NoSession(r) \/ DirectSession(r) \/ TunnelSession(r)
    PROVE  Good([r EXCEPT !.phase = "ended"])
<1>1. PICK q : q = [r EXCEPT !.phase = "ended"]
  BY Zenon
<1>2. q \in Runners /\ q.phase = "ended"
  BY Zenon, <1>1 DEF Runners, RunPhases
<1>3. NoSession(q) \/ DirectSession(q) \/ TunnelSession(q)
  BY Zenon, <1>1 DEF Runners, DirectSession, TunnelSession, NoSession, Unmeasured
<1> QED
  BY Zenon, <1>1, <1>2, <1>3 DEF Good, ResultAgrees

LEMMA FailedIs ==
    ASSUME NEW r, Good(r), r.phase = "exchange", NEW class \in Failures
    PROVE  Good([r EXCEPT !.phase = "ended", !.failure = class])
<1>1. PICK q : q = [r EXCEPT !.phase = "ended", !.failure = class]
  BY Zenon
<1>2. q \in Runners /\ q.phase = "ended" /\ q.paired = r.paired /\ ~r.paired
  BY Zenon, <1>1 DEF Good, ResultAgrees, Runners, RunPhases
<1> QED
  BY Zenon, <1>1, <1>2 DEF Good, ResultAgrees

\* The direct phase is over.
LEMMA AfterDirectIs ==
    ASSUME NEW e, NEW r \in Runners, NoSession(r) \/ DirectSession(r), probeClock \in Nat
    PROVE  Good(AfterDirect(e, r))
<1>1. CASE ~FallsBack(r)
  BY Zenon, <1>1, EndIs DEF AfterDirect
<1>2. CASE FallsBack(r)
  <2>1. NoSession(r)
    BY Zenon, <1>2 DEF FallsBack, DirectSession
  <2>2. PICK u \in Nat : u = probeClock + PunchTimeout
    BY ProbeAssumption
  <2>3. PICK q : q = [r EXCEPT !.phase = "tunnel", !.until = u, !.deadline = u]
    BY Zenon
  <2>4. q \in Runners /\ q.phase = "tunnel"
    BY Zenon, <2>3 DEF Runners, RunPhases, TunnelPhases
  <2>5. NoSession(q)
    BY Zenon, <2>1, <2>3 DEF NoSession, Unmeasured, Runners
  <2>6. q = AfterDirect(e, r)
    BY Zenon, <1>2, <2>2, <2>3 DEF AfterDirect
  <2> QED
    BY Zenon, <2>4, <2>5, <2>6 DEF Good, ResultAgrees
<1> QED
  BY Zenon, <1>1, <1>2

\* A run that becomes a good one leaves every run good.
LEMMA BecomesGood ==
    ASSUME ProbeInv, NEW e \in Roles, NEW q, Good(q), Becomes(e, q)
    PROVE  ProbeInv'
<1>1. probeClock' \in Nat
  BY Zenon DEF Becomes, ProbeInv
<1>2. runner' = [f \in Roles |-> IF f = e THEN q ELSE runner[f]]
  <2>1. runner' = [runner EXCEPT ![e] = q] /\ runner = [f \in Roles |-> runner[f]]
    BY Zenon DEF Becomes, ProbeInv
  <2> QED
    BY Zenon, <2>1
<1>3. runner' = [f \in Roles |-> runner'[f]]
  BY Zenon, <1>2
<1>4. \A f \in Roles : runner'[f] \in {q, runner[f]}
  BY Zenon, <1>2
<1>5. \A f \in Roles : Good(runner'[f])
  BY Zenon, <1>4 DEF ProbeInv
<1> QED
  BY Zenon, <1>1, <1>3, <1>5 DEF ProbeInv

\* What the phase says, of a run that is good.
LEMMA GoodPhase ==
    ASSUME NEW r, Good(r)
    PROVE  /\ r \in Runners
           /\ r.phase \in {"direct", "tunnel"} => NoSession(r)
           /\ r.phase \in {"hold", "reconnect", "slot", "transfer", "await"} => DirectSession(r)
           /\ r.phase \in {"tunnelHold", "tunnelAwait"} => TunnelSession(r)
BY Zenon DEF Good, ResultAgrees

LEMMA ExchangeStep ==
    ASSUME ProbeInv, NEW e \in Roles, NEW lost \in BOOLEAN, Exchange(e, lost)
    PROVE  ProbeInv'
<1>1. PICK r : r = runner[e]
  BY Zenon
<1>2. Good(r) /\ r.phase = "exchange" /\ probeClock \in Nat
  BY Zenon, <1>1 DEF ProbeInv, Exchange, InPhase
<1>3. PICK u \in Nat : u = probeClock + PunchTimeout
  BY <1>2, ProbeAssumption
<1>4. PICK q : q = [r EXCEPT !.phase = "direct", !.paired = TRUE, !.until = u, !.deadline = u,
                             !.failure = "handshake"]
  BY Zenon
<1>5. q \in Runners /\ q.phase = "direct"
  BY Zenon, <1>2, <1>4 DEF Good, Runners, RunPhases, DirectPhases, Failures
<1>6. NoSession(q)
  BY Zenon, <1>2, <1>4 DEF Good, ResultAgrees, NoSession, Unmeasured, Runners
<1>7. Good(q)
  BY Zenon, <1>5, <1>6 DEF Good, ResultAgrees
<1>8. Becomes(e, q) \/ Becomes(e, r)
  BY Zenon, <1>1, <1>3, <1>4 DEF Exchange
<1> QED
  BY Zenon, <1>2, <1>7, <1>8, BecomesGood

LEMMA EndsUnpaired ==
    ASSUME ProbeInv, NEW e \in Roles, Blocked(e) \/ ExchangeEnds(e)
    PROVE  ProbeInv'
<1>1. PICK r : r = runner[e]
  BY Zenon
<1>2. Good(r) /\ r.phase = "exchange"
  BY Zenon, <1>1 DEF ProbeInv, Blocked, ExchangeEnds, InPhase
<1>3. PICK class \in Failures : Becomes(e, Failed(e, class))
  BY Zenon DEF Blocked, ExchangeEnds, Failures
<1>4. PICK q : q = [r EXCEPT !.phase = "ended", !.failure = class]
  BY SMTT(40)
<1>5. Good(q) /\ Becomes(e, q)
  BY ZenonT(40), <1>1, <1>2, <1>3, <1>4, FailedIs DEF Failed
<1> QED
  BY Zenon, <1>5, BecomesGood

LEMMA EstablishStep ==
    ASSUME ProbeInv, NEW e \in Roles, Establish(e)
    PROVE  ProbeInv'
<1>1. PICK r : r = runner[e]
  BY Zenon
<1>2. Good(r) /\ r.phase = "direct" /\ probeClock \in Nat
  BY Zenon, <1>1 DEF ProbeInv, Establish, InPhase
<1>3. r \in Runners /\ NoSession(r)
  BY Zenon, <1>2, GoodPhase
<1>4. PICK s : s = [r EXCEPT !.established = TRUE, !.failure = "none"]
  BY Zenon
<1>5. s \in Runners /\ DirectSession(s)
  BY Zenon, <1>3, <1>4 DEF Runners, NoSession, DirectSession, Failures
<1>6. probeClock + HoldWindow \in Nat
  BY <1>2, ProbeAssumption
<1>7. PICK q : q \in {To(s, "hold", probeClock + HoldWindow), AfterReconnect(e, s)} /\ Becomes(e, q)
  BY Zenon, <1>1, <1>4 DEF Establish, To
<1>8. Good(q)
  BY Zenon, <1>2, <1>5, <1>6, <1>7, DirectGoesOn, AfterReconnectIs
<1> QED
  BY Zenon, <1>7, <1>8, BecomesGood

\* A measurement of a direct session is marked.
LEMMA MarkIs ==
    ASSUME NEW r \in Runners, DirectSession(r), NEW mark \in Marks
    PROVE  /\ [r EXCEPT !.hold = mark] \in Runners /\ DirectSession([r EXCEPT !.hold = mark])
           /\ [r EXCEPT !.reconnect = mark] \in Runners /\ DirectSession([r EXCEPT !.reconnect = mark])
           /\ [r EXCEPT !.transfer = mark] \in Runners /\ DirectSession([r EXCEPT !.transfer = mark])
BY Zenon DEF Runners, DirectSession

LEMMA MeasureSteps ==
    ASSUME ProbeInv, NEW e \in Roles, HoldEnds(e) \/ ReconnectEnds(e) \/ SlotBegins(e) \/ TransferEnds(e)
    PROVE  ProbeInv'
<1>1. PICK r : r = runner[e]
  BY Zenon
<1>2. Good(r) /\ r.phase \in {"hold", "reconnect", "slot", "transfer"} /\ probeClock \in Nat
  BY Zenon, <1>1 DEF ProbeInv, HoldEnds, ReconnectEnds, SlotBegins, TransferEnds, InPhase
<1>3. r \in Runners /\ DirectSession(r) /\ r.deadline \in Nat
  BY <1>2, GoodPhase DEF Runners
<1>4. ASSUME HoldEnds(e) PROVE ProbeInv'
  <2>1. PICK mark \in Marks : Becomes(e, AfterHold(e, [r EXCEPT !.hold = mark]))
    BY Zenon, <1>1, <1>4 DEF HoldEnds, Marks
  <2>2. PICK s : s = [r EXCEPT !.hold = mark]
    BY Zenon
  <2>3. PICK q : q = AfterHold(e, s)
    BY Zenon
  <2>4. Good(q) /\ Becomes(e, q)
    BY ZenonT(40), <1>2, <1>3, <2>1, <2>2, <2>3, MarkIs, AfterHoldIs
  <2> QED
    BY Zenon, <2>4, BecomesGood
<1>5. ASSUME ReconnectEnds(e) PROVE ProbeInv'
  <2>1. PICK mark \in Marks : Becomes(e, AfterReconnect(e, [r EXCEPT !.reconnect = mark]))
    BY Zenon, <1>1, <1>5 DEF ReconnectEnds, Marks
  <2>2. PICK s : s = [r EXCEPT !.reconnect = mark]
    BY Zenon
  <2>3. PICK q : q = AfterReconnect(e, s)
    BY Zenon
  <2>4. Good(q) /\ Becomes(e, q)
    BY ZenonT(40), <1>2, <1>3, <2>1, <2>2, <2>3, MarkIs, AfterReconnectIs
  <2> QED
    BY Zenon, <2>4, BecomesGood
<1>6. ASSUME SlotBegins(e) PROVE ProbeInv'
  <2>1. PICK u \in Nat : u = probeClock + rldpBudget
    BY <1>2, Budgets
  <2>2. Becomes(e, To(r, "transfer", u))
    BY Zenon, <1>1, <1>6, <2>1 DEF SlotBegins, To
  <2>3. PICK q : q = To(r, "transfer", u)
    BY Zenon
  <2>4. Good(q) /\ Becomes(e, q)
    BY Zenon, <1>3, <2>2, <2>3, DirectGoesOn
  <2> QED
    BY Zenon, <2>4, BecomesGood
<1>7. ASSUME TransferEnds(e) PROVE ProbeInv'
  <2>1. PICK u \in Nat : u = r.deadline + measurementBudget
    BY <1>3, Budgets
  <2>2. PICK mark \in Marks :
          Becomes(e, [r EXCEPT !.transfer = mark, !.phase = "await", !.until = u])
    BY Zenon, <1>1, <1>7, <2>1 DEF TransferEnds, Marks
  <2>3. PICK s : s = [r EXCEPT !.transfer = mark]
    BY Zenon
  <2>4. PICK q : q = To(s, "await", u)
    BY Zenon
  <2>5. q = [r EXCEPT !.transfer = mark, !.phase = "await", !.until = u]
    BY Zenon, <1>3, <2>3, <2>4 DEF To, Runners
  <2>6. s \in Runners /\ DirectSession(s)
    BY Zenon, <1>3, <2>3, MarkIs
  <2>7. Good(q)
    BY Zenon, <2>4, <2>6, DirectGoesOn
  <2>8. Becomes(e, q)
    BY Zenon, <2>2, <2>5
  <2> QED
    BY Zenon, <2>7, <2>8, BecomesGood
<1> QED
  BY Zenon, <1>4, <1>5, <1>6, <1>7

LEMMA TunnelGoesOn ==
    ASSUME NEW r \in Runners, TunnelSession(r), NEW u \in Nat, NEW ph \in {"tunnelHold", "tunnelAwait"}
    PROVE  Good(To(r, ph, u))
<1>1. ph \in RunPhases /\ ph \notin {"exchange", "direct", "tunnel", "ended"} \cup DirectPhases
  BY Zenon DEF RunPhases, TunnelPhases, DirectPhases
<1>2. PICK q : q = To(r, ph, u)
  BY Zenon
<1>3. q \in Runners /\ q.phase = ph /\ TunnelSession(q)
  BY Zenon, <1>1, <1>2, ToIs
<1> QED
  BY Zenon, <1>1, <1>2, <1>3 DEF Good, ResultAgrees, DirectPhases

LEMMA TunnelSteps ==
    ASSUME ProbeInv, NEW e \in Roles, TunnelEstablish(e) \/ TunnelFails(e) \/ TunnelHoldEnds(e)
    PROVE  ProbeInv'
<1>1. PICK r : r = runner[e]
  BY Zenon
<1>2. Good(r) /\ r \in Runners /\ r.deadline \in Nat /\ probeClock \in Nat
  BY Zenon, <1>1 DEF ProbeInv, Good, Runners
<1>3. PICK u \in Nat : u = r.deadline + tunnelMeasurementBudget
  BY <1>2, Budgets
<1>4. ASSUME TunnelEstablish(e) PROVE ProbeInv'
  <2>1. NoSession(r)
    BY Zenon, <1>1, <1>2, <1>4, GoodPhase DEF TunnelEstablish, InPhase
  <2>2. PICK s : s = [r EXCEPT !.established = TRUE, !.tunneled = TRUE]
    BY Zenon
  <2>3. s \in Runners /\ TunnelSession(s) /\ s.deadline = r.deadline
    BY Zenon, <1>2, <2>1, <2>2 DEF Runners, NoSession, TunnelSession, Unmeasured
  <2>4. PICK v \in Nat : v = probeClock + HoldWindow
    BY <1>2, ProbeAssumption
  <2>5. PICK q : q \in {To(s, "tunnelHold", v), To(s, "tunnelAwait", u)} /\ Becomes(e, q)
    BY Zenon, <1>1, <1>3, <1>4, <2>2, <2>3, <2>4 DEF TunnelEstablish, To
  <2>6. Good(q)
    BY Zenon, <2>3, <2>5, TunnelGoesOn
  <2> QED
    BY Zenon, <2>5, <2>6, BecomesGood
<1>5. ASSUME TunnelFails(e) PROVE ProbeInv'
  <2>1. NoSession(r)
    BY Zenon, <1>1, <1>2, <1>5, GoodPhase DEF TunnelFails, InPhase
  <2>2. PICK q : q = [r EXCEPT !.phase = "ended"]
    BY Zenon
  <2>3. Good(q) /\ Becomes(e, q)
    BY Zenon, <1>1, <1>2, <1>5, <2>1, <2>2, EndIs DEF TunnelFails
  <2> QED
    BY Zenon, <2>3, BecomesGood
<1>6. ASSUME TunnelHoldEnds(e) PROVE ProbeInv'
  <2>1. TunnelSession(r)
    BY Zenon, <1>1, <1>2, <1>6, GoodPhase DEF TunnelHoldEnds, InPhase
  <2>2. PICK mark \in Marks :
          Becomes(e, [r EXCEPT !.tunnel = mark, !.phase = "tunnelAwait", !.until = u])
    BY Zenon, <1>1, <1>3, <1>6 DEF TunnelHoldEnds, Marks
  <2>3. PICK s : s = [r EXCEPT !.tunnel = mark]
    BY Zenon
  <2>4. s \in Runners /\ TunnelSession(s)
    BY Zenon, <1>2, <2>1, <2>3 DEF Runners, TunnelSession, Unmeasured
  <2>5. PICK q : q = To(s, "tunnelAwait", u)
    BY Zenon
  <2>6. q = [r EXCEPT !.tunnel = mark, !.phase = "tunnelAwait", !.until = u]
    BY Zenon, <1>2, <2>3, <2>5 DEF To, Runners
  <2>7. Good(q) /\ Becomes(e, q)
    BY SMTT(40), <2>2, <2>4, <2>5, <2>6, TunnelGoesOn
  <2> QED
    BY Zenon, <2>7, BecomesGood
<1> QED
  BY Zenon, <1>4, <1>5, <1>6

LEMMA ClosingSteps ==
    ASSUME ProbeInv, NEW e \in Roles,
           DirectFails(e) \/ AwaitEnds(e) \/ (\E lost \in BOOLEAN : AwaitPeerDone(e, lost))
    PROVE  ProbeInv'
<1>1. PICK r : r = runner[e]
  BY Zenon
<1>2. Good(r) /\ r \in Runners /\ probeClock \in Nat
  BY Zenon, <1>1 DEF ProbeInv, Good
<1>3. ASSUME DirectFails(e) PROVE ProbeInv'
  <2>1. NoSession(r)
    BY Zenon, <1>1, <1>2, <1>3, GoodPhase DEF DirectFails, InPhase
  <2>2. PICK q : q = AfterDirect(e, r)
    BY Zenon
  <2>3. Good(q) /\ Becomes(e, q)
    BY SMTT(40), <1>1, <1>2, <1>3, <2>1, <2>2, AfterDirectIs DEF DirectFails
  <2> QED
    BY Zenon, <2>3, BecomesGood
<1>4. ASSUME r.phase \in {"await", "tunnelAwait"} PROVE Good(Closed(e))
  <2>1. CASE r.phase = "await"
    <3>1. DirectSession(r) /\ Closed(e) = AfterDirect(e, r)
      BY Zenon, <1>1, <1>2, <2>1, GoodPhase DEF Closed, InPhase
    <3> QED
      BY Zenon, <1>2, <3>1, AfterDirectIs
  <2>2. CASE r.phase = "tunnelAwait"
    <3>1. TunnelSession(r) /\ Closed(e) = [r EXCEPT !.phase = "ended"]
      BY Zenon, <1>1, <1>2, <2>2, GoodPhase DEF Closed, InPhase
    <3> QED
      BY Zenon, <1>2, <3>1, EndIs
  <2> QED
    BY Zenon, <1>4, <2>1, <2>2
<1>5. ASSUME AwaitEnds(e) \/ (\E lost \in BOOLEAN : AwaitPeerDone(e, lost)) PROVE ProbeInv'
  <2>1. r.phase \in {"await", "tunnelAwait"} /\ (Becomes(e, Closed(e)) \/ Becomes(e, r))
    BY Zenon, <1>1, <1>5 DEF AwaitEnds, AwaitPeerDone
  <2>2. PICK q : q = Closed(e)
    BY Zenon
  <2>3. Good(q)
    BY Zenon, <1>4, <2>1, <2>2
  <2> QED
    BY SMTT(40), <1>2, <2>1, <2>2, <2>3, BecomesGood
<1> QED
  BY Zenon, <1>3, <1>5

LEMMA ProbeInitially == ProbeInit => ProbeInv
<1> SUFFICES ASSUME ProbeInit PROVE ProbeInv
  BY Zenon
<1>1. PICK r : r = NewRunner
  BY Zenon
<1>2. r \in Runners
  BY Zenon, <1>1, ProbeAssumption DEF NewRunner, Runners, RunPhases, Marks, Failures
<1>3. ResultAgrees(r)
  BY Zenon, <1>1 DEF NewRunner, ResultAgrees, Unmeasured
<1>4. runner = [e \in Roles |-> r] /\ probeClock = 0
  BY Zenon, <1>1 DEF ProbeInit
<1> QED
  BY Zenon, <1>2, <1>3, <1>4 DEF ProbeInv, Good

LEMMA ProbeStep == ProbeInv /\ [ProbeNext]_probeVars => ProbeInv'
<1> SUFFICES ASSUME ProbeInv, [ProbeNext]_probeVars PROVE ProbeInv'
  BY Zenon
<1>1. CASE UNCHANGED probeVars \/ LinkBreaks \/ ProbeTick
  <2>1. runner' = runner /\ probeClock' \in {probeClock, probeClock + 1}
    BY Zenon, <1>1 DEF probeVars, LinkBreaks, ProbeTick
  <2>2. probeClock' \in Nat
    BY <2>1 DEF ProbeInv
  <2> QED
    BY Zenon, <2>1, <2>2 DEF ProbeInv
<1> QED
  BY SMTT(40), <1>1, ExchangeStep, EndsUnpaired, EstablishStep, MeasureSteps, TunnelSteps,
     ClosingSteps DEF ProbeNext

\* A run that was paired ends in a trial that Validate accepts, for any timeouts, windows
\* and plans, whatever is lost and whenever the path breaks.
THEOREM RunsAreFileable == ProbeSpec => []FinishedRunIsFileable
<1>1. ASSUME ProbeInv PROVE FinishedRunIsFileable
  <2> SUFFICES ASSUME NEW e \in Roles, runner[e].phase = "ended", runner[e].paired
               PROVE  Valid(Filed(e))
    BY Zenon DEF FinishedRunIsFileable
  <2>1. PICK r : r = runner[e]
    BY Zenon
  <2>2. r \in Runners /\ (NoSession(r) \/ DirectSession(r) \/ TunnelSession(r))
    BY Zenon, <1>1, <2>1 DEF ProbeInv, Good, ResultAgrees
  <2>3. PICK t : t = Filed(e)
    BY Zenon
  <2>4. /\ t.failure = r.failure /\ t.probe = "adnl" /\ t.hold = r.hold /\ t.tunnel = r.tunnel
        /\ t.reconnect = r.reconnect /\ t.echo = "none" /\ t.transfer = r.transfer
        /\ t.interrupted = FALSE /\ t.resumed = FALSE /\ t.binds = {}
        /\ t.outcome = IF ~r.established THEN "failed" ELSE IF r.tunneled THEN "proxy" ELSE "direct"
    BY Zenon, <2>1, <2>3 DEF Filed
  <2>5. CASE NoSession(r)
    <3>1. t.outcome = "failed"
      BY Zenon, <2>4, <2>5 DEF NoSession
    <3> QED
      BY SMTT(40), <2>3, <2>4, <2>5, <3>1 DEF Valid, Attempted, NoSession, Unmeasured
  <2>6. CASE DirectSession(r)
    <3>1. t.outcome = "direct"
      BY Zenon, <2>4, <2>6 DEF DirectSession
    <3> QED
      BY SMTT(40), <2>3, <2>4, <2>6, <3>1 DEF Valid, Attempted, DirectSession
  <2>7. CASE TunnelSession(r)
    <3>1. t.outcome = "proxy"
      BY Zenon, <2>4, <2>7 DEF TunnelSession
    <3> QED
      BY SMTT(40), <2>3, <2>4, <2>7, <3>1 DEF Valid, Attempted, TunnelSession, Unmeasured
  <2> QED
    BY SMTT(40), <2>2, <2>5, <2>6, <2>7
<1> QED
  BY <1>1, ProbeInitially, ProbeStep, PTL DEF ProbeSpec
=============================================================================
