--------------------------- MODULE OwnerDecisions ---------------------------
(***************************************************************************)
(* How the owner decides through the local sockets (pkg/localapi/owner.go, *)
(* the dispatch in server.go) with the command-line tool                   *)
(* (cmd/tos-messenger-owner): a challenge is drawn, a decision is prepared *)
(* for it, signed on another machine and submitted.                        *)
(*                                                                         *)
(* Every connection is served by a goroutine of its own.  A call reads the *)
(* clock, then takes the lock of the challenges, then calls the journal:   *)
(* three steps between which other calls run.  Challenges live in memory   *)
(* and are gone when the daemon stops.                                     *)
(***************************************************************************)
EXTENDS Naturals, Sequences, FiniteSets

CONSTANTS
    Decisions,           \* what may be decided: an operation with its subject
    Callers,             \* connections
    PrincipalOf,         \* the socket each was accepted on: "owner" or "runtime"
    ChallengeLifetime,
    MaxOutstanding,
    MaxDrawn, MaxFiles, MaxCalls, MaxLives, MaxOwnerClock,   \* bounds of the model
    Unsigned

ASSUME OwnerDecisionsAssumption ==
    /\ PrincipalOf \in [Callers -> {"owner", "runtime"}]
    /\ ChallengeLifetime \in Nat \ {0}
    /\ MaxOutstanding \in Nat

VARIABLES
    issued,      \* the standing challenges and their deadlines
    files,       \* the decision files of the tool
    signatures,  \* what the owner's key has signed
    served,      \* the call each connection is serving
    journal,     \* the decisions the journal has carried out, in order
    ownerClock,
    drawn,       \* every challenge ever drawn: [deadline, life]
    prepared,    \* every decision ever prepared
    authorised,  \* every call that spent a challenge: [decision, challenge, now]
    life,        \* starts of the daemon
    calls

ownerDecisionVars == <<issued, files, signatures, served, journal, ownerClock,
                       drawn, prepared, authorised, life, calls>>

\* A decision under a challenge: the fields DecisionBytes commits.
Commits(d, c) == [decision |-> d, challenge |-> c]

\* A decision file: the request, the signing bytes shown with it, the signature.
DecisionFile(request, bytes, signature) ==
    [request |-> request, bytes |-> bytes, signature |-> signature]

Idle == [at |-> "idle"]

OwnerDecisionsInit ==
    /\ issued = <<>>
    /\ files = {}
    /\ signatures = {}
    /\ served = [h \in Callers |-> Idle]
    /\ journal = <<>>
    /\ ownerClock = 0
    /\ drawn = <<>>
    /\ prepared = {}
    /\ authorised = {}
    /\ life = 1
    /\ calls = 0

(***************************************************************************)
(* The challenges.                                                         *)
(***************************************************************************)
\* Faulty variant: a challenge still stands at its deadline.
StandingAtDeadline(now) ==
    [c \in {c \in DOMAIN issued : now <= issued[c]} |-> issued[c]]

\* What expire leaves standing.
Standing(now) ==
    [c \in {c \in DOMAIN issued : now < issued[c]} |-> issued[c]]

Dropped(table, c) == [x \in DOMAIN table \ {c} |-> table[x]]

\* Faulty variant: a challenge is looked up and kept.
SpentKept(c, now) == Standing(now)

\* spend consumes a challenge, once; an unknown one changes nothing else.
Spent(c, now) == Dropped(Standing(now), c)
Spendable(c, now) == c \in DOMAIN Standing(now)

\* issue: room is counted after what has expired was dropped.
Issued(c, now) ==
    [x \in DOMAIN Standing(now) \union {c} |->
        IF x = c THEN now + ChallengeLifetime ELSE issued[x]]
HasRoom(now) == Cardinality(DOMAIN Standing(now)) < MaxOutstanding

(***************************************************************************)
(* Serving a call.                                                         *)
(***************************************************************************)
\* Only the owner's socket carries challenges and decisions.
PermitsCall(h) == PrincipalOf[h] = "owner"

\* A request is decoded, the principal checked and the clock read; a call that is not
\* permitted is answered at once.
Handle(h, op, request, signature) ==
    /\ served[h] = Idle
    /\ calls < MaxCalls
    /\ calls' = calls + 1
    /\ served' = IF PermitsCall(h)
               THEN [served EXCEPT ![h] = [at |-> op, now |-> ownerClock,
                                         request |-> request, signature |-> signature]]
               ELSE served
    /\ UNCHANGED <<issued, files, signatures, journal, ownerClock, drawn, prepared,
                   authorised, life>>

\* Faulty variant: the signing bytes commit the challenge and not the decision.
VerifiesChallenge(request, signature) ==
    signature # Unsigned /\ signature.challenge = request.challenge /\ signature \in signatures

\* The signature verifies over exactly the request's operation, subject and challenge.
Verifies(request, signature) ==
    signature # Unsigned /\ signature = request /\ signature \in signatures

\* Faulty variant: the challenge is spent before the signature is verified.
RefusedBurning(h) ==
    /\ served[h].at = "decide"
    /\ ~Verifies(served[h].request, served[h].signature)
    /\ served' = [served EXCEPT ![h] = Idle]
    /\ issued' = Spent(served[h].request.challenge, served[h].now)

\* A request whose signature does not verify is refused with the challenges untouched.
RefusedDecision(h) ==
    /\ served[h].at = "decide"
    /\ ~Verifies(served[h].request, served[h].signature)
    /\ served' = [served EXCEPT ![h] = Idle]
    /\ UNCHANGED issued

\* A verified one spends its challenge, or finds it spent or expired.
Authorised(h) ==
    LET r == served[h].request
        now == served[h].now IN
    /\ served[h].at = "decide"
    /\ Verifies(r, served[h].signature)
    /\ issued' = Spent(r.challenge, now)
    /\ IF Spendable(r.challenge, now)
       THEN /\ served' = [served EXCEPT ![h].at = "carry"]
            /\ authorised' = authorised \union
                   {[decision |-> r.decision, challenge |-> r.challenge, now |-> now]}
       ELSE /\ served' = [served EXCEPT ![h] = Idle]
            /\ UNCHANGED authorised

AuthoriseDecision(h) ==
    /\ \/ RefusedDecision(h) /\ UNCHANGED authorised
       \/ Authorised(h)
    /\ UNCHANGED <<files, signatures, journal, ownerClock, drawn, prepared, life, calls>>

\* The operation's own handler: the journal carries the decision out or refuses it.
CarryOut(h) ==
    /\ served[h].at = "carry"
    /\ journal' \in {journal, Append(journal, served[h].request)}
    /\ served' = [served EXCEPT ![h] = Idle]
    /\ UNCHANGED <<issued, files, signatures, ownerClock, drawn, prepared, authorised,
                   life, calls>>

(***************************************************************************)
(* The tool.                                                               *)
(***************************************************************************)
\* The daemon draws a challenge; prepare writes the decision for it, unless the answer
\* was lost.
Prepare(h, d) ==
    LET now == served[h].now
        c == Len(drawn) + 1 IN
    /\ served[h].at = "challenge"
    /\ served' = [served EXCEPT ![h] = Idle]
    /\ IF HasRoom(now)
       THEN /\ Len(drawn) < MaxDrawn
            /\ issued' = Issued(c, now)
            /\ drawn' = Append(drawn, [deadline |-> now + ChallengeLifetime, life |-> life])
            /\ \/ /\ files' = files \union
                         {DecisionFile(Commits(d, c), Commits(d, c), Unsigned)}
                  /\ prepared' = prepared \union {Commits(d, c)}
               \/ UNCHANGED <<files, prepared>>
       ELSE /\ issued' = Standing(now)
            /\ UNCHANGED <<drawn, files, prepared>>
    /\ UNCHANGED <<signatures, journal, ownerClock, authorised, life, calls>>

\* A file is edited by hand: its request names another decision.
Altered(f, d) ==
    /\ f.request.decision # d
    /\ Cardinality(files) < MaxFiles
    /\ files' = files \union {[f EXCEPT !.request.decision = d]}
    /\ UNCHANGED <<issued, signatures, served, journal, ownerClock, drawn, prepared,
                   authorised, life, calls>>

\* Faulty variant: the signing bytes are not compared.
AnyEnvelope(f) == TRUE

\* validateEnvelope: the signing bytes are those of the request.
ValidEnvelope(f) == f.bytes = f.request

Sign(f) ==
    /\ f.signature = Unsigned
    /\ ValidEnvelope(f)
    /\ signatures' = signatures \union {f.request}
    /\ files' = files \union {[f EXCEPT !.signature = f.request]}
    /\ UNCHANGED <<issued, served, journal, ownerClock, drawn, prepared, authorised, life,
                   calls>>

\* A signed file is submitted, perhaps again because the answer was lost.
SubmitDecision(h, f) ==
    /\ f.signature # Unsigned
    /\ ValidEnvelope(f)
    /\ Handle(h, "decide", f.request, f.signature)

\* A program of its own speaks to the socket with the contents of any file.
Call(h, f) == Handle(h, "decide", f.request, f.signature)

(***************************************************************************)
(* The daemon stops and starts; time passes.                               *)
(***************************************************************************)
Restart ==
    /\ life < MaxLives
    /\ life' = life + 1
    /\ issued' = <<>>
    /\ served' = [h \in Callers |-> Idle]
    /\ UNCHANGED <<files, signatures, journal, ownerClock, drawn, prepared, authorised,
                   calls>>

OwnerTick ==
    /\ ownerClock < MaxOwnerClock
    /\ ownerClock' = ownerClock + 1
    /\ UNCHANGED <<issued, files, signatures, served, journal, drawn, prepared, authorised,
                   life, calls>>

OwnerDecisionsNext ==
    \/ \E h \in Callers :
          \/ Handle(h, "challenge", Unsigned, Unsigned)
          \/ \E f \in files : SubmitDecision(h, f) \/ Call(h, f)
          \/ AuthoriseDecision(h)
          \/ CarryOut(h)
          \/ \E d \in Decisions : Prepare(h, d)
    \/ \E f \in files : Sign(f) \/ \E d \in Decisions : Altered(f, d)
    \/ Restart
    \/ OwnerTick

OwnerDecisionsSpec == OwnerDecisionsInit /\ [][OwnerDecisionsNext]_ownerDecisionVars

(***************************************************************************)
(* Properties.                                                             *)
(***************************************************************************)
OwnerDecisionsTypeOK ==
    /\ DOMAIN issued \subseteq DOMAIN drawn
    /\ \A c \in DOMAIN issued : issued[c] = drawn[c].deadline
    /\ Cardinality(DOMAIN issued) <= MaxOutstanding
    /\ signatures \subseteq prepared
    /\ \A h \in Callers : served[h].at \in {"idle", "challenge", "decide", "carry"}

(***************************************************************************)
(* A decision takes effect as it was prepared and signed, at most once for *)
(* each signature and challenge whatever is submitted again, and only from *)
(* a call that arrived before the challenge ran out.  And a prepared       *)
(* decision counts until then: a challenge of this daemon stands until its *)
(* deadline unless the owner's own signature spent it, so that "a wrong    *)
(* signature cannot burn a challenge the owner is about to use"            *)
(* (owner.go:205).                                                         *)
(***************************************************************************)
DecidedAsSigned ==
    /\ \A i \in DOMAIN journal :
          /\ journal[i] \in prepared \intersect signatures
          /\ \A j \in DOMAIN journal : journal[j].challenge = journal[i].challenge => i = j
    /\ \A a \in authorised : a.now < drawn[a.challenge].deadline
    /\ \A c \in DOMAIN drawn :
          \/ drawn[c].life # life
          \/ drawn[c].deadline <= ownerClock
          \/ c \in DOMAIN issued
          \/ \E a \in authorised : a.challenge = c /\ Commits(a.decision, c) \in signatures
=============================================================================
