---------------------------- MODULE Reachability -----------------------------
(***************************************************************************)
(* The reachability study (pkg/reachability): signed trials of two         *)
(* endpoints each, joined into pairs, capped and averaged per operator in  *)
(* every cell, and judged against a policy that was declared before.       *)
(*                                                                         *)
(* The log is a sequence of trials in the order they were submitted.  What *)
(* a trial says is abstracted to the fields the judgement reads; digests   *)
(* are numbers, so that they have an order; rates are fractions.           *)
(***************************************************************************)
EXTENDS FiniteSets, FiniteSetsExt, Integers, Sequences, SequencesExt, TLC

CONSTANTS
    TrialsOnOffer,     \* the trials that may be submitted: records, see Valid
    MaxTrials,
    RequiredScenarios,
    MinSamplesPerCell, MinOperatorsPerCell, MinSitesPerCell, MaxTrialsPerOperatorPerCell,
    MinSurvivalSamplesPerCell, MinReconnectSamples, MinEchoSamples, MinTransferSamples,
    DirectViableRate, TunnelViableRate,         \* fractions <<numerator, denominator>>
    MinSurvivalRate, MinSuccessRate

VARIABLE log
studyVars == <<log>>

StudyInit == log = <<>>

\* A phase of a session: whether it was attempted and whether it ended well.
Attempted(phase) == phase # "none"
EndedWell(phase) == phase = "done"

\* Trial.Validate: the outcome, the failure and the phases agree.
Valid(t) ==
    /\ (t.outcome = "direct") = (t.failure = "none")
    /\ Attempted(t.hold) \/ Attempted(t.reconnect) => t.outcome = "direct"
    /\ Attempted(t.tunnel) => t.outcome = "proxy"
    /\ t.probe = "udp" => {t.hold, t.reconnect, t.tunnel} = {"none"}
    /\ Attempted(t.echo) \/ Attempted(t.transfer) => t.probe = "adnl" /\ t.outcome = "direct"
    /\ t.interrupted => Attempted(t.transfer)
    /\ t.resumed => t.interrupted /\ EndedWell(t.transfer)
    /\ \A b, c \in t.binds : b.coordinator = c.coordinator => b = c

\* deriveMapping: what the reflections of distinct coordinators show.
deriveMapping(binds) ==
    IF Cardinality({b.coordinator : b \in binds}) < 2 THEN "undetermined"
    ELSE IF Cardinality({b.address : b \in binds}) = 1 THEN "independent" ELSE "dependent"

\* mappingConsistent: evidence refutes, it does not dictate.
mappingConsistent(declared, derived) ==
    \/ "undetermined" \in {declared, derived}
    \/ derived = "independent" /\ declared \in {"independent", "none"}
    \/ derived = "dependent" /\ declared \in {"dependent", "symmetric"}

familyConsistent(declared, observed) == declared \in {"dual", observed}

\* VerifyTrial: signed stands for every signature and for its predeclared coordinators.
VerifyTrial(t) ==
    /\ Valid(t) /\ t.signed
    /\ familyConsistent(t.family, t.observed)
    /\ mappingConsistent(t.nat, deriveMapping(t.binds))

\* DeriveFiltering: a receipt can only loosen the class.
DeriveFiltering(sources) ==
    IF "other-address" \in sources THEN "independent"
    ELSE IF "other-port" \in sources THEN "address-dependent" ELSE "undetermined"

\* DecodeTrialLog: every trial of a log is valid, and none is there twice.
Submit(t) ==
    /\ Len(log) < MaxTrials
    /\ Valid(t) /\ t \notin ToSet(log)
    /\ log' = Append(log, t)
StudyNext == \E t \in TrialsOnOffer : Submit(t)

-----------------------------------------------------------------------------
(* Joining the two halves of a measurement. *)

peerReachabilityConsistent(peerPublic, declared) ==
    (declared = "public" /\ peerPublic = "yes") \/ (declared = "nat" /\ peerPublic = "no")

\* combine's conditions on two halves, a in role A and b in role B.
Agree(a, b) ==
    /\ a.role = "A" /\ b.role = "B"
    /\ a.key # b.key /\ a.probe = b.probe /\ a.outcome = b.outcome
    /\ a.commit = b.peerCommit /\ a.peerCommit = b.commit
    /\ peerReachabilityConsistent(a.peerPublic, b.reach)
    /\ peerReachabilityConsistent(b.peerPublic, a.reach)

\* Attempted by both and ended well for both; a reconnect is the initiator's alone.
Both(x, y) ==
    IF ~Attempted(x) \/ ~Attempted(y) THEN "none"
    ELSE IF EndedWell(x) /\ EndedWell(y) THEN "done" ELSE "failed"
Either(x, y) ==
    IF ~Attempted(x) /\ ~Attempted(y) THEN "none"
    ELSE IF EndedWell(x) \/ EndedWell(y) THEN "done" ELSE "failed"

Stratum(t) == [reach |-> t.reach, mobile |-> t.mobile]
Scenario(a, b) == <<Stratum(a), Stratum(b)>>
ExercisesMobility(scenario) == scenario[1].mobile \/ scenario[2].mobile

PairOf(a, b) ==
    [scenario |-> Scenario(a, b), digest |-> Min({a.digest, b.digest}),
     keys |-> {a.key, b.key}, operators |-> {a.operator, b.operator}, sites |-> {a.site, b.site}, outcome |-> a.outcome,
     hold |-> Both(a.hold, b.hold), tunnel |-> Both(a.tunnel, b.tunnel),
     reconnect |-> Either(a.reconnect, b.reconnect),
     echo |-> Both(a.echo, b.echo), transfer |-> Both(a.transfer, b.transfer),
     interrupted |-> a.interrupted /\ b.interrupted, resumed |-> a.resumed /\ b.resumed,
     filtering |-> <<DeriveFiltering(a.filters), DeriveFiltering(b.filters)>>]

\* Faulty variant: one half speaks for both.
CombineLone(halves) ==
    {PairOf(h[1], h[2]) : h \in {q \in halves \X halves : q[1].role = "A" /\
        (Agree(q[1], q[2]) \/ Cardinality(halves) = 1)}}
\* combine: exactly two halves, which agree; the set is empty when they do not.
Combine(halves) ==
    {PairOf(h[1], h[2]) : h \in {q \in halves \X halves :
        Cardinality(halves) = 2 /\ Agree(q[1], q[2])}}

-----------------------------------------------------------------------------
(* Aggregate. *)

Verified(trials, probe) == {t \in ToSet(trials) : t.probe = probe /\ VerifyTrial(t)}

\* Faulty variant: a host may report under several names.
SharedKeysIgnored(verified) == {}
\* Keys that report under more than one operator.
SharedKeys(verified) ==
    {t.key : t \in {u \in verified : \E v \in verified : v.key = u.key /\ v.operator # u.operator}}

Pairs(trials, probe) ==
    LET verified == Verified(trials, probe)
        counted == {t \in verified : t.key \notin SharedKeys(verified)}
    IN  UNION {Combine({t \in counted : t.session = s}) : s \in {t.session : t \in counted}}

\* Faulty variant: measurements are taken as they arrived.
CapOrderArrived(trials, p, q) ==
    LET first(r) == CHOOSE i \in 1..Len(trials) :
            /\ trials[i].digest = r.digest
            /\ \A j \in 1..Len(trials) : trials[j].digest = r.digest => i <= j
    IN  first(p) < first(q)
\* The cap is applied in digest order, not in arrival order.
CapOrder(trials, p, q) == p.digest < q.digest

\* The pairs that are kept: each while all its operators have room.
Capped(trials, group) ==
    LET Less(p, q) == CapOrder(trials, p, q)
        Room(kept, p) == \A o \in p.operators :
            Cardinality({k \in kept : o \in k.operators}) < MaxTrialsPerOperatorPerCell
        Take(kept, p) == IF Room(kept, p) THEN kept \cup {p} ELSE kept
    IN  FoldLeft(Take, {}, SetToSortSeq(group, Less))

OperatorsOf(pairs) == UNION {p.operators : p \in pairs}

Plus(f, g) == <<f[1] * g[2] + g[1] * f[2], f[2] * g[2]>>
AtLeast(f, g) == f[1] * g[2] >= g[1] * f[2]

\* mean over operators of the share of their pairs in scope that are good; an operator
\* with none in scope has no share (measuredMean).
Mean(scope, good) ==
    LET Of(o) == {p \in scope : o \in p.operators}
        Share(o) == <<Cardinality(Of(o) \cap good), Cardinality(Of(o))>>
        operators == OperatorsOf(scope)
        total == MapThenFoldSet(Plus, <<0, 1>>, Share, LAMBDA S : CHOOSE o \in S : TRUE, operators)
    IN  IF operators = {} THEN <<0, 1>> ELSE <<total[1], total[2] * Cardinality(operators)>>

\* How many of the pairs attempted a phase, and how well it went for those.
Measured(scope, good) == [samples |-> Cardinality(scope), rate |-> Mean(scope, good)]

\* summarize, of the pairs of one scenario.
Cell(trials, scenario, group) ==
    LET kept == Capped(trials, group)
        Ended(outcomes) == {p \in kept : p.outcome \in outcomes}
        Phase(name) == Measured({p \in kept : Attempted(p[name])}, {p \in kept : EndedWell(p[name])})
    IN  [scenario |-> scenario, kept |-> kept,
         direct |-> Mean(kept, Ended({"direct"})),
         withProxy |-> Mean(kept, Ended({"direct", "proxy"})),
         survival |-> Phase("hold"), tunnelSurvival |-> Phase("tunnel"),
         reconnect |-> Phase("reconnect"), echo |-> Phase("echo"), transfer |-> Phase("transfer"),
         recovery |-> Measured({p \in kept : p.interrupted}, {p \in kept : p.resumed}),
         qualifying |-> /\ Cardinality(kept) >= MinSamplesPerCell
                        /\ Cardinality(OperatorsOf(kept)) >= MinOperatorsPerCell
                        /\ Cardinality(UNION {p.sites : p \in kept}) >= MinSitesPerCell]

Cells(trials, probe) ==
    LET pairs == Pairs(trials, probe)
    IN  {Cell(trials, s, {p \in pairs : p.scenario = s}) : s \in {p.scenario : p \in pairs}}

-----------------------------------------------------------------------------
(* decide. *)

\* The direct gates a cell has to have the samples for.
DirectMeasured(c) ==
    /\ c.survival.samples >= MinSurvivalSamplesPerCell
    /\ ExercisesMobility(c.scenario) => c.reconnect.samples >= MinReconnectSamples
    /\ c.echo.samples >= MinEchoSamples
    /\ c.transfer.samples >= MinTransferSamples /\ c.recovery.samples >= MinTransferSamples

\* Faulty variant: a session that establishes is a session that holds.
DirectQualifiedEstablished(c) == AtLeast(c.direct, DirectViableRate)
DirectQualified(c) ==
    /\ AtLeast(c.direct, DirectViableRate)
    /\ AtLeast(c.survival.rate, MinSurvivalRate)
    /\ ExercisesMobility(c.scenario) => AtLeast(c.reconnect.rate, MinSuccessRate)
    /\ AtLeast(c.echo.rate, MinSuccessRate)
    /\ AtLeast(c.transfer.rate, MinSuccessRate) /\ AtLeast(c.recovery.rate, MinSuccessRate)

\* The route decision over the required cells, all of which qualify.
Route(required) ==
    LET established == {c \in required : AtLeast(c.direct, DirectViableRate)}
        qualified == {c \in required : DirectQualified(c)}
    IN  IF \E c \in established : ~DirectMeasured(c) THEN "insufficient"
        ELSE IF qualified = required THEN "direct-first"
        ELSE IF qualified # {} THEN "hybrid"
        ELSE IF \E c \in required : ~AtLeast(c.withProxy, TunnelViableRate) THEN "relay-required"
        ELSE IF \E c \in required : c.tunnelSurvival.samples < MinSurvivalSamplesPerCell
             THEN "insufficient"
        ELSE IF \A c \in required : AtLeast(c.tunnelSurvival.rate, MinSurvivalRate)
             THEN "tunnel-first" ELSE "relay-required"

decide(cells, probe) ==
    LET required == {c \in cells : c.scenario \in RequiredScenarios /\ c.qualifying}
    IN  IF {c.scenario : c \in required} # RequiredScenarios THEN "insufficient"
        ELSE IF probe = "adnl" THEN Route(required)
        ELSE IF \A c \in required : AtLeast(c.direct, DirectViableRate)
             THEN "udp-direct-viable" ELSE "udp-direct-not-viable"

\* Aggregate: nothing verifying is not a completed study.
Finding(trials, probe) ==
    IF Verified(trials, probe) = {} THEN "no report" ELSE decide(Cells(trials, probe), probe)
Probes == {"udp", "adnl"}

-----------------------------------------------------------------------------
\* A log holds trials that are internally consistent, none of them twice.
StudyTypeOK == IsInjective(log) /\ \A i \in 1..Len(log) : Valid(log[i])

\* The cap is applied in digest order (summarize): the report is the same whatever the
\* order the trials were submitted in, so nobody chooses which of their trials survive.
OrderIndependent ==
    LET Less(t, u) == t.digest < u.digest
        sorted == SortSeq(log, Less)
    IN  \A probe \in Probes : Cells(log, probe) = Cells(sorted, probe)

\* A direct-first finding rests, in every required scenario, on sessions whose two
\* endpoints, with different keys, both signed that it was direct, of enough operators
\* and sites, enough of which both endpoints held: an unmeasured phase is never passed.
DirectFirstHasEvidence ==
    Finding(log, "adnl") = "direct-first" =>
        \A scenario \in RequiredScenarios :
            LET joint == {p \in Verified(log, "adnl") \X Verified(log, "adnl") :
                            /\ p[1].session = p[2].session /\ p[1].role = "A" /\ p[2].role = "B"
                            /\ p[1].key # p[2].key /\ Scenario(p[1], p[2]) = scenario
                            /\ p[1].outcome = "direct" /\ p[2].outcome = "direct"}
                held == {p \in joint : EndedWell(p[1].hold) /\ EndedWell(p[2].hold)}
            IN  /\ Cardinality({p[1].operator : p \in joint} \cup {p[2].operator : p \in joint})
                     >= MinOperatorsPerCell
                /\ Cardinality({p[1].key : p \in joint} \cup {p[2].key : p \in joint})
                     >= MinOperatorsPerCell
                /\ Cardinality(joint) >= MinSamplesPerCell /\ held # {}

\* Aggregate excludes keys that answer to several names: the operators that are counted
\* in a cell are as many as the hosts behind them.
OneHostOneName ==
    \A probe \in Probes : \A c \in Cells(log, probe) :
        Cardinality(OperatorsOf(c.kept)) <= Cardinality(UNION {p.keys : p \in c.kept})

\* Half a measurement is not one: a trial whose peer never reported changes no cell.
LoneHalfIsNothing ==
    LET lone == {t \in ToSet(log) : \A u \in ToSet(log) : u.session = t.session => u = t}
        Kept(t) == t \notin lone
        own == \A t \in lone : \A u \in ToSet(log) : u.key = t.key => u.operator = t.operator
    IN  own => \A probe \in Probes : Cells(log, probe) = Cells(SelectSeq(log, Kept), probe)

\* A finding is earned: it rests on both ends of enough sessions of distinct hosts,
\* and neither the order of submission nor half a measurement changes it.
FindingIsEarned ==
    OrderIndependent /\ LoneHalfIsNothing /\ OneHostOneName /\ DirectFirstHasEvidence
=============================================================================
