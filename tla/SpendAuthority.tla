--------------------------- MODULE SpendAuthority ---------------------------
(***************************************************************************)
(* What lets an Agent runtime act: the firewall's judgement of a proposed  *)
(* action, the owner's decisions, the mandates a spend is judged against,  *)
(* the budget each mandate has, and the single-use approvals and           *)
(* execution claims that keep one decision from backing two executions     *)
(* (pkg/localapi/server.go, pkg/firewall, pkg/eventlog/{approval,mandate,  *)
(* execution,budget}.go, pkg/negotiation/budget.go).                       *)
(*                                                                         *)
(* Every connection of the two local sockets is served by a goroutine of   *)
(* its own, and maintenance runs in another.  Each journal call takes the  *)
(* journal's mutex, but a handler makes several of them: a step below is   *)
(* what one journal call does, with the handler's local work around it.    *)
(* All records are written by renaming a synced file over the old one, so  *)
(* none is ever read half written.                                         *)
(***************************************************************************)
EXTENDS Budget, FiniteSets, Functions, Naturals

CONSTANTS
    Handlers,             \* connections being served
    Maintainer,           \* the daemon's maintenance goroutine
    Mandates,
    Purchases,            \* complete terms
    ToolKeys,             \* idempotency keys of tool invocations
    Actions,              \* what the runtime may ask for
    MaxTotal,             \* of a mandate
    ApprovalAbove,        \* of a mandate
    ExpiresAt,            \* of a mandate
    Price,                \* of a purchase
    NotAfter,             \* of a purchase
    UnattendedCeiling,    \* policy, for what derives from received content
    OwnInitiativeCeiling, \* policy, for everything else
    MaxReservations,      \* per budget
    MaxPendingActions,
    MaxPendingAge,
    MaxMandates,
    Overlap,              \* TRUE: handlers and maintenance run concurrently
    FaultKinds,           \* among "crash", "error"
    MaxFaults, MaxTime,   \* bounds of the model
    None

Effects == {"message", "tool-call", "spend", "key-use", "physical-io",
            "configuration"}

\* The strength of an effect.  Effects weaker than sending a message never
\* reach the owner and are left out.
rank == [e \in Effects |->
           CASE e = "message" -> 3 [] e = "tool-call" -> 4 [] e = "spend" -> 5
             [] e = "key-use" -> 6 [] e = "physical-io" -> 7
             [] e = "configuration" -> 8]

\* The identifier of an action commits its effect, its terms or idempotency
\* key, its wording and the received content it derives from, but not the
\* mandate it is requested under.
Action == [effect : Effects, what : Purchases \cup ToolKeys \cup {None},
           derived : BOOLEAN, wording : {1, 2}]

Times == 1..MaxTime

ASSUME ActionsAssumption ==
    /\ Actions \subseteq Action
    /\ \A a \in Actions :
          /\ a.effect = "spend" <=> a.what \in Purchases
          /\ a.effect \in {"tool-call", "physical-io"} <=> a.what \in ToolKeys

ASSUME MandatesAssumption ==
    /\ MaxTotal \in [Mandates -> Nat]
    /\ ApprovalAbove \in [Mandates -> Nat]
    /\ ExpiresAt \in [Mandates -> Nat]
    /\ Price \in [Purchases -> Nat]
    /\ NotAfter \in [Purchases -> Nat]

ASSUME NamesAssumption ==
    /\ None \notin Mandates \cup Purchases \cup ToolKeys \cup Actions
    /\ Purchases \cap ToolKeys = {}
    /\ Maintainer \notin Handlers

ASSUME BoundsAssumption ==
    /\ Overlap \in BOOLEAN
    /\ MaxFaults \in Nat
    /\ MaxTime \in Nat \ {0}
    /\ MaxPendingAge \in Nat

\* Policy.Validate.
ASSUME PolicyAssumption ==
    /\ UnattendedCeiling \in Effects /\ OwnInitiativeCeiling \in Effects
    /\ rank[UnattendedCeiling] < rank["key-use"]
    /\ rank[OwnInitiativeCeiling] < rank["configuration"]
    /\ rank[UnattendedCeiling] <= rank[OwnInitiativeCeiling]

VARIABLES
    mandates,    \* the stored mandates
    approvals,   \* the stored approval records
    executions,  \* the action each execution is bound to
    ledgers,     \* the stored budget of each mandate
    procs,       \* what each handler and maintenance is in the middle of
    performed,   \* how often a claim of an action was answered "authorised"
    now,
    faults

vars == <<mandates, approvals, executions, ledgers, procs, performed, now, faults>>

Procs == Handlers \cup {Maintainer}

ApprovalState == {"none", "pending", "granted", "denied", "spent"}

\* The record's reason tells a policy's authorisation from an owner's.
Approval == [state : ApprovalState, by : {"none", "policy", "owner"},
             mandate : Mandates \cup {None}, asked : Times \cup {0}]

NoApproval == [state |-> "none", by |-> "none", mandate |-> None, asked |-> 0]

\* A spend's execution is its mandate and its terms, a tool invocation's its
\* idempotency key; neither depends on how the action is worded.
Execution == [mandate : Mandates \cup {None}, what : Purchases \cup ToolKeys]
ExecutionID(m, a) == [mandate |-> m, what |-> a.what]

IdleProc == [pc |-> "idle", op |-> "none", action |-> None, mandate |-> None,
             outcome |-> "none", at |-> 0, view |-> EmptyBudget, todo |-> {}]

Idle(p) == procs[p].pc = "idle"

\* The next request is read, or the next maintenance pass starts.
MayStart(p) == Idle(p) /\ (Overlap \/ \A q \in Procs : Idle(q))

Goto(p, pc) == procs' = [procs EXCEPT ![p].pc = pc]
Return(p) == procs' = [procs EXCEPT ![p] = IdleProc]

Init ==
    /\ mandates = [m \in Mandates |-> "absent"]
    /\ approvals = [a \in Actions |-> NoApproval]
    /\ executions = [e \in Execution |-> None]
    /\ ledgers = [m \in Mandates |-> None]
    /\ procs = [p \in Procs |-> IdleProc]
    /\ performed = [a \in Actions |-> 0]
    /\ now = 1
    /\ faults = 0

-----------------------------------------------------------------------------
(* The firewall. *)

Ceiling(a) == IF a.derived THEN UnattendedCeiling ELSE OwnInitiativeCeiling

\* Faulty variant: the ceiling alone decides.
EvaluateByCeiling(a) ==
    IF rank[a.effect] > rank[Ceiling(a)] THEN "require" ELSE "allow"
\* Physical I/O and configuration are the owner's whatever the policy says, and
\* received content never reaches a key.
Evaluate(a) ==
    IF \/ a.effect \in {"physical-io", "configuration"}
       \/ a.derived /\ rank[a.effect] >= rank["key-use"]
       \/ rank[a.effect] > rank[Ceiling(a)]
    THEN "require" ELSE "allow"

\* Mandate.PermitsCommit, for a mandate with the authority to commit: the terms
\* are inside it.
PermitsCommit(m, a, t) ==
    /\ t < ExpiresAt[m]
    /\ Price[a.what] <= MaxTotal[m]
    /\ t < NotAfter[a.what]
    /\ NotAfter[a.what] <= ExpiresAt[m]

EvaluateSpend(m, a, t) ==
    IF /\ Evaluate(a) = "allow"
       /\ PermitsCommit(m, a, t)
       /\ Price[a.what] <= ApprovalAbove[m]
    THEN "allow" ELSE "require"

-----------------------------------------------------------------------------
(* The runtime asks (requestAction). *)

IsSpend(a) == a.effect = "spend"
IsTool(a) == a.effect \in {"tool-call", "physical-io"}

\* The first journal call a request makes after it was judged.  An allowed
\* spend is bound to its execution before it is reserved; a spend for the owner
\* is only reserved; a tool invocation is bound either way.
FirstStep(a, outcome) ==
    CASE IsTool(a) \/ (IsSpend(a) /\ outcome = "allow") -> "bind"
      [] IsSpend(a) /\ outcome = "require" -> "open"
      [] OTHER -> "record"

\* The request is judged against the mandate as it is stored now.  An effect
\* that is neither a spend nor a tool invocation and is allowed is answered on
\* the spot and changes nothing.  The bound on now leaves time for a question
\* to expire inside the instance.
RequestAction(h, a, m) ==
    LET outcome == IF IsSpend(a) THEN EvaluateSpend(m, a, now) ELSE Evaluate(a)
    IN  /\ MayStart(h)
        /\ now + MaxPendingAge <= MaxTime
        /\ IF IsSpend(a) THEN m \in Mandates /\ mandates[m] = "standing"
                         ELSE m = None
        /\ IsSpend(a) \/ IsTool(a) \/ outcome = "require"
        /\ procs' = [procs EXCEPT ![h] =
              [IdleProc EXCEPT !.pc = FirstStep(a, outcome), !.op = "request",
                               !.action = a, !.mandate = m,
                               !.outcome = outcome, !.at = now]]
        /\ UNCHANGED <<mandates, approvals, executions, ledgers, performed, now, faults>>

\* Faulty variant: the binding is not compared with the action.
BindableByAny(e, a) == TRUE
\* claimExecution gives back the action bound first.
Bindable(e, a) == executions[e] \in {None, a}

\* Faulty variant: the authorisation is recorded before the budget holds it.
AfterBindRecorded(a) == "record"
AfterBind(a) == IF IsSpend(a) THEN "open" ELSE "record"

\* ClaimEconomicExecution, ClaimToolExecution: a second action for the same
\* execution is refused.
ClaimExecution(h) ==
    LET a == procs[h].action
        e == ExecutionID(procs[h].mandate, a)
    IN  /\ procs[h].pc = "bind"
        /\ IF Bindable(e, a)
           THEN /\ executions' = [executions EXCEPT ![e] = a]
                /\ Goto(h, AfterBind(a))
           ELSE Return(h) /\ UNCHANGED executions
        /\ UNCHANGED <<mandates, approvals, ledgers, performed, now, faults>>

-----------------------------------------------------------------------------
(* The budget of a mandate: opened in one journal call, or two when it has  *)
(* no record yet, and recorded in another.                                  *)

LoadBudget(p) ==
    LET m == procs[p].mandate
    IN  /\ procs[p].pc = "open"
        /\ procs' = [procs EXCEPT ![p] =
              IF ledgers[m] = None THEN [@ EXCEPT !.pc = "create"]
              ELSE [@ EXCEPT !.pc = procs[p].op, !.view = ledgers[m]]]
        /\ UNCHANGED <<mandates, approvals, executions, ledgers, performed, now, faults>>

\* OpenBudget found nothing and records an empty budget.
CreateBudget(p) ==
    /\ procs[p].pc = "create"
    /\ ledgers' = [ledgers EXCEPT ![procs[p].mandate] = EmptyBudget]
    /\ procs' = [procs EXCEPT ![p].pc = procs[p].op, ![p].view = EmptyBudget]
    /\ UNCHANGED <<mandates, approvals, executions, performed, now, faults>>

\* Faulty variant: only what is already spent counts against the total.
FitsSpent(b, m) == b.spent <= MaxTotal[m]
Fits(b, m) == Committed(b) <= MaxTotal[m]

\* Reserve, for a request.  A purchase that does not fit is put to the owner
\* without a hold; a budget with no room for one more hold is an error.
Reserve(h) ==
    LET a == procs[h].action
        m == procs[h].mandate
        view == procs[h].view
        held == WithHold(view, a.what, Price[a.what])
        full == ~Held(view, a.what) /\ Cardinality(DOMAIN view.reserved) >= MaxReservations
    IN  /\ procs[h].pc = "request"
        /\ \/ full /\ Return(h) /\ UNCHANGED ledgers
           \/ /\ ~full /\ Fits(held, m)
              /\ ledgers' = [ledgers EXCEPT ![m] = held]
              /\ Goto(h, "record")
           \/ /\ ~full /\ ~Fits(held, m)
              /\ procs' = [procs EXCEPT ![h].pc = "record", ![h].outcome = "require"]
              /\ UNCHANGED ledgers
        /\ UNCHANGED <<mandates, approvals, executions, performed, now, faults>>

\* Commit, for a claim: nothing to do when nothing is held, and an error when
\* the total would be exceeded.
Commit(h) ==
    LET id == procs[h].action.what
        m == procs[h].mandate
        view == procs[h].view
        over == Held(view, id) /\ WithSpend(view, id).spent > MaxTotal[m]
    IN  /\ procs[h].pc = "claim"
        /\ ledgers' = IF Held(view, id) /\ ~over
                      THEN [ledgers EXCEPT ![m] = WithSpend(view, id)] ELSE ledgers
        /\ IF over THEN Return(h) ELSE Goto(h, "answer")
        /\ UNCHANGED <<mandates, approvals, executions, performed, now, faults>>

\* ReleaseMandateReservation of one approval of a list; a denial has a list of
\* one.
NextRelease(p, todo) ==
    IF todo = {} THEN Return(p)
    ELSE \E a \in todo :
            procs' = [procs EXCEPT ![p] =
               [IdleProc EXCEPT !.pc = "open", !.op = "release", !.action = a,
                                !.mandate = approvals[a].mandate, !.todo = todo \ {a}]]

Release(p) ==
    LET id == procs[p].action.what
        m == procs[p].mandate
        view == procs[p].view
    IN  /\ procs[p].pc = "release"
        /\ ledgers' = IF Held(view, id)
                      THEN [ledgers EXCEPT ![m] = WithoutHold(view, id)] ELSE ledgers
        /\ NextRelease(p, procs[p].todo)
        /\ UNCHANGED <<mandates, approvals, executions, performed, now, faults>>

-----------------------------------------------------------------------------
(* The approval records. *)

\* Faulty variant: the record does not keep the time of asking.
AskedAtNoTime(h, state, by) == [state |-> state, by |-> by, mandate |-> procs[h].mandate,
                                asked |-> 0]
Asked(h, state, by) == [state |-> state, by |-> by, mandate |-> procs[h].mandate,
                        asked |-> procs[h].at]

ApprovalExpired(a, t) ==
    approvals[a].asked # 0 /\ t >= approvals[a].asked + MaxPendingAge

PendingApprovals(t) ==
    {a \in Actions : approvals[a].state = "pending" /\ ~ApprovalExpired(a, t)}

\* Asking again finds the record there is.
Unrecorded(a) == approvals[a].state = "none"

RecordAutoAuthorization(h) ==
    LET a == procs[h].action
    IN  /\ procs[h].pc = "record" /\ procs[h].outcome = "allow"
        /\ approvals' = IF Unrecorded(a)
                        THEN [approvals EXCEPT ![a] = Asked(h, "granted", "policy")]
                        ELSE approvals
        /\ Return(h)
        /\ UNCHANGED <<mandates, executions, ledgers, performed, now, faults>>

RoomToAsk(t) == Cardinality(PendingApprovals(t)) < MaxPendingActions

\* A full queue refuses the request.
RequestApproval(h) ==
    LET a == procs[h].action
    IN  /\ procs[h].pc = "record" /\ procs[h].outcome = "require"
        /\ approvals' = IF Unrecorded(a) /\ RoomToAsk(procs[h].at)
                        THEN [approvals EXCEPT ![a] = Asked(h, "pending", "owner")]
                        ELSE approvals
        /\ Return(h)
        /\ UNCHANGED <<mandates, executions, ledgers, performed, now, faults>>

WithState(a, state) == [approvals EXCEPT ![a].state = state]

\* Faulty variant: a spent approval can be spent again.
SpendableAgain(a) == approvals[a].state \in {"granted", "spent"}
Spendable(a) == approvals[a].state = "granted"

\* SpendApproval.  The hold behind a spend is committed next; anything else is
\* answered.
ClaimAction(h, a) ==
    /\ MayStart(h)
    /\ Spendable(a)
    /\ approvals' = WithState(a, "spent")
    /\ procs' = [procs EXCEPT ![h] =
          [IdleProc EXCEPT !.pc = IF IsSpend(a) THEN "open" ELSE "answer",
                           !.op = "claim", !.action = a,
                           !.mandate = approvals[a].mandate]]
    /\ UNCHANGED <<mandates, executions, ledgers, performed, now, faults>>

\* The runtime is told it may proceed.
Authorise(h) ==
    /\ procs[h].pc = "answer"
    /\ performed' = [performed EXCEPT ![procs[h].action] = @ + 1]
    /\ Return(h)
    /\ UNCHANGED <<mandates, approvals, executions, ledgers, now, faults>>

\* Faulty variant: a grant can still be withdrawn.
UndecidedOrGranted(a) == approvals[a].state \in {"pending", "granted"}
Undecided(a) == approvals[a].state = "pending"

\* decideApproval does not look at the age of the request.
GrantAction(h, a) ==
    /\ MayStart(h)
    /\ Undecided(a)
    /\ approvals' = WithState(a, "granted")
    /\ UNCHANGED <<mandates, executions, ledgers, procs, performed, now, faults>>

DenyAction(h, a) ==
    /\ MayStart(h)
    /\ Undecided(a)
    /\ approvals' = WithState(a, "denied")
    /\ NextRelease(h, {a} \cap {b \in Actions : IsSpend(b)})
    /\ UNCHANGED <<mandates, executions, ledgers, performed, now, faults>>

\* ExpirePendingApprovals: all that are due are denied in one journal call, and
\* then the holds of the spends among them are released one by one.  A denial
\* that cannot be written ends the pass with what was denied before it, and
\* nothing is released.
ExpirePendingApprovals ==
    LET due == {a \in Actions : approvals[a].state = "pending" /\ ApprovalExpired(a, now)}
    IN  /\ MayStart(Maintainer)
        /\ due # {}
        /\ \/ /\ approvals' = [a \in Actions |-> IF a \in due
                                 THEN [approvals[a] EXCEPT !.state = "denied"]
                                 ELSE approvals[a]]
              /\ NextRelease(Maintainer, {a \in due : IsSpend(a)})
              /\ UNCHANGED faults
           \/ /\ "error" \in FaultKinds /\ faults < MaxFaults
              /\ \E done \in SUBSET due \ {{}, due} :
                    approvals' = [a \in Actions |-> IF a \in done
                                    THEN [approvals[a] EXCEPT !.state = "denied"]
                                    ELSE approvals[a]]
              /\ faults' = faults + 1
              /\ UNCHANGED procs
        /\ UNCHANGED <<mandates, executions, ledgers, performed, now>>

-----------------------------------------------------------------------------
(* The owner's mandates. *)

Standing == {m \in Mandates : mandates[m] = "standing"}

\* Placing a withdrawn mandate again finds it withdrawn.
PlaceMandate(h, m) ==
    /\ MayStart(h)
    /\ mandates[m] = "absent"
    /\ Cardinality(Standing) < MaxMandates
    /\ mandates' = [mandates EXCEPT ![m] = "standing"]
    /\ UNCHANGED <<approvals, executions, ledgers, procs, performed, now, faults>>

RevokeMandate(h, m) ==
    /\ MayStart(h)
    /\ mandates[m] = "standing"
    /\ mandates' = [mandates EXCEPT ![m] = "revoked"]
    /\ UNCHANGED <<approvals, executions, ledgers, procs, performed, now, faults>>

-----------------------------------------------------------------------------
(* Faults and time. *)

\* The process stops; everything a handler held in memory is gone.
Crash ==
    /\ "crash" \in FaultKinds /\ faults < MaxFaults
    /\ \E p \in Procs : ~Idle(p)
    /\ procs' = [p \in Procs |-> IdleProc]
    /\ faults' = faults + 1
    /\ UNCHANGED <<mandates, approvals, executions, ledgers, performed, now>>

\* A journal call reports an error, before or after its write took effect, and
\* the handler gives up.
JournalError(p) ==
    /\ "error" \in FaultKinds /\ faults < MaxFaults
    /\ ~Idle(p)
    /\ Return(p)
    /\ faults' = faults + 1
    /\ UNCHANGED <<mandates, approvals, executions, ledgers, performed, now>>

Tick ==
    /\ now < MaxTime
    /\ now' = now + 1
    /\ UNCHANGED <<mandates, approvals, executions, ledgers, procs, performed, faults>>

-----------------------------------------------------------------------------
Step(p) ==
    \/ ClaimExecution(p)
    \/ LoadBudget(p)
    \/ CreateBudget(p)
    \/ Reserve(p)
    \/ RecordAutoAuthorization(p)
    \/ RequestApproval(p)
    \/ Commit(p)
    \/ Authorise(p)
    \/ Release(p)

Runtime(h) ==
    \/ \E a \in Actions, m \in Mandates \cup {None} : RequestAction(h, a, m)
    \/ \E a \in Actions : ClaimAction(h, a)

Owner(h) ==
    \/ \E a \in Actions : GrantAction(h, a) \/ DenyAction(h, a)
    \/ \E m \in Mandates : PlaceMandate(h, m) \/ RevokeMandate(h, m)

Fault == Crash \/ \E p \in Procs : JournalError(p)

Next ==
    \/ \E h \in Handlers : Runtime(h) \/ Owner(h)
    \/ ExpirePendingApprovals
    \/ \E p \in Procs : Step(p)
    \/ Fault
    \/ Tick

Spec == Init /\ [][Next]_vars

\* Handlers run to their end, the daemon's maintenance timer keeps firing and
\* time passes; nobody has to ask, claim or decide anything.
FairSpec ==
    /\ Spec
    /\ \A p \in Procs : WF_vars(Step(p))
    /\ WF_vars(ExpirePendingApprovals)
    /\ WF_vars(Tick)

-----------------------------------------------------------------------------
(* Properties. *)

BudgetOK(b) ==
    /\ DOMAIN b = {"spent", "reserved"}
    /\ b.spent \in Nat
    /\ DOMAIN b.reserved \subseteq Purchases
    /\ \A id \in DOMAIN b.reserved : b.reserved[id] \in Nat

ProcOK(p) ==
    LET q == procs[p]
    IN  /\ DOMAIN q = DOMAIN IdleProc
        /\ q.pc \in {"idle", "bind", "open", "create", "request", "claim",
                     "release", "record", "answer"}
        /\ q.op \in {"none", "request", "claim", "release"}
        /\ q.action \in Actions \cup {None}
        /\ q.mandate \in Mandates \cup {None}
        /\ q.outcome \in {"none", "allow", "require"}
        /\ q.at \in Times \cup {0}
        /\ BudgetOK(q.view)
        /\ q.todo \subseteq Actions
        /\ q.pc # "idle" => q.action \in Actions
        /\ q.pc \in {"open", "create", "request", "claim", "release"} =>
              /\ q.mandate \in Mandates
              /\ q.action.what \in Purchases
              /\ q.op \in {"request", "claim", "release"}

\* Every variable has its type, and a handler at the budget is there for a
\* spend under a mandate.
TypeOK ==
    /\ mandates \in [Mandates -> {"absent", "standing", "revoked"}]
    /\ approvals \in [Actions -> Approval]
    /\ \A a \in Actions : IsSpend(a) /\ approvals[a].state # "none" =>
          approvals[a].mandate \in Mandates
    /\ executions \in [Execution -> Actions \cup {None}]
    /\ DOMAIN ledgers = Mandates
    /\ \A m \in Mandates : ledgers[m] = None \/ BudgetOK(ledgers[m])
    /\ DOMAIN procs = Procs
    /\ \A p \in Procs : ProcOK(p)
    /\ performed \in [Actions -> Nat]
    /\ now \in Times
    /\ faults \in 0..MaxFaults

ByPolicy(a) == approvals[a].by = "policy"

\* The claim an action was answered "authorised" for is never answered so
\* again, whoever races for it and wherever the process stops (SpendApproval).
ClaimedOnce == \A a \in Actions : performed[a] <= 1

\* However a purchase or a tool invocation is worded, the policy authorises it
\* once, and a tool's idempotency key is used for one action even when the
\* owner decides (claimExecution).
ExecutedOnce ==
    \A a, b \in Actions :
       a.what = b.what /\ a # b =>
          /\ ~(/\ IsSpend(a) /\ ByPolicy(a) /\ ByPolicy(b)
               /\ approvals[a].mandate = approvals[b].mandate)
          /\ ~(IsTool(a) /\ performed[a] > 0 /\ performed[b] > 0)

\* Physical I/O, configuration and any use of a key that received content led
\* to were decided by the owner (Evaluate).
OwnerDecides ==
    \A a \in Actions :
       /\ performed[a] > 0
       /\ a.effect \in {"physical-io", "configuration"} \/ (a.derived /\ a.effect = "key-use")
       => approvals[a].by = "owner"

\* No stored budget has more spent and held than its mandate's total, whichever
\* journal call fails or is never made (Budget.Reserve, Budget.Commit).
LedgerWithinTotal ==
    \A m \in Mandates : ledgers[m] # None => Committed(ledgers[m]) <= MaxTotal[m]

\* At most MaxPendingActions questions wait for the owner.
PendingBounded == Cardinality(PendingApprovals(now)) <= MaxPendingActions

\* Whether it is asked again, raced or interrupted, a question put to the owner
\* is answered by the owner or by its expiry, a denial is not cleared by asking
\* again, and a grant is only ever spent (RequestApproval,
\* RecordAutoAuthorization, decideApproval).
DecisionIsFinal ==
    [][\A a \in Actions :
          LET old == approvals[a]  new == approvals'[a]
          IN  old.state # "none" =>
                 /\ new.by = old.by /\ new.mandate = old.mandate
                 /\ old.state = "pending" => new.state \in {"pending", "granted", "denied"}
                 /\ old.state = "granted" => new.state \in {"granted", "spent"}
                 /\ old.state \in {"denied", "spent"} => new.state = old.state]_vars

\* A question nobody answers does not wait for ever.
PendingEnds ==
    \A a \in Actions : approvals[a].state = "pending" ~> approvals[a].state # "pending"

\* What the policy authorised and nobody claimed yet is held in its mandate's
\* budget ("every spend that could still happen ... holds its slice").
HeldUntilClaimed ==
    \A a \in Actions :
       LET m == approvals[a].mandate
       IN  IsSpend(a) /\ ByPolicy(a) /\ approvals[a].state = "granted" =>
              ledgers[m] # None /\ Held(ledgers[m], a.what)

\* The purchases one mandate's policy authorised, claimed or not, never cost
\* more than its total, whatever crashes or fails on the way.
PolicySpendWithinTotal ==
    \A m \in Mandates :
       LET bought == {p \in Purchases : \E a \in Actions :
                         a.what = p /\ ByPolicy(a) /\ approvals[a].mandate = m}
       IN  SumFunctionOnSet(Price, bought) <= MaxTotal[m]

\* What a budget counts as spent is never forgotten ("release ... never frees a
\* committed reservation").
SpentIsKept ==
    [][\A m \in Mandates :
          ledgers[m] # None =>
             ledgers'[m] # None /\ ledgers'[m].spent >= ledgers[m].spent]_vars

\* A mandate is never exceeded: what its policy authorised is held until it is
\* claimed, and neither what was authorised nor what its budget counts exceeds the
\* total, whatever stops or fails between the calls of a handler.
SpendIsCovered == HeldUntilClaimed /\ PolicySpendWithinTotal /\ LedgerWithinTotal

\* Nothing is done twice or behind the owner's back: a claim is answered once, an
\* execution identity authorises one action, and what is the owner's to decide was
\* decided by the owner, whoever races and however it is worded.
AuthorisedOnce == ClaimedOnce /\ ExecutedOnce /\ OwnerDecides
=============================================================================
