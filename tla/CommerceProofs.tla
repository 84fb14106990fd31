--------------------------- MODULE CommerceProofs ---------------------------
(***************************************************************************)
(* What an agent may spend, send and be commanded to do, for any number of *)
(* calls, crashes and failed writes: the authority over actions, economic  *)
(* actions and the owner's commands.                                       *)
(***************************************************************************)
EXTENDS SpendAuthority, EconomicSend, OwnerCommand, TLAPS

(***************************************************************************)
(* Authority over actions. Proofs that no authority is used twice and none *)
(* is used that was not given (AuthorisedOnce), and that what was decided  *)
(* stays decided (DecisionIsFinal), for any number of connections,         *)
(* mandates, purchases and tools, whatever the policy, and wherever the    *)
(* process stops or a journal call fails.                                  *)
(***************************************************************************)

(***************************************************************************)
(* The inductive invariant.                                                *)
(***************************************************************************)

Budgets == [spent : Nat, reserved : UNION {[ids -> Nat] : ids \in SUBSET Purchases}]

ProcRecords ==
    [pc : {"idle", "bind", "open", "create", "request", "claim", "release",
           "record", "answer"},
     op : {"none", "request", "claim", "release"},
     action : Actions \cup {None},
     mandate : Mandates \cup {None},
     outcome : {"none", "allow", "require"},
     at : Times \cup {0},
     view : Budgets,
     todo : SUBSET Actions]

\* What is stored, and what a handler holds in memory, is a record of its kind.
Records ==
    /\ mandates \in [Mandates -> {"absent", "standing", "revoked"}]
    /\ approvals \in [Actions -> Approval]
    /\ executions \in [Execution -> Actions \cup {None}]
    /\ ledgers \in [Mandates -> Budgets \cup {None}]
    /\ procs \in [Procs -> ProcRecords]
    /\ performed \in [Actions -> Nat]
    /\ now \in Times
    /\ faults \in 0..MaxFaults

\* Where a handler is says which operation it serves and for what; an allowed
\* spend and a tool invocation are bound to their execution once the handler is
\* past claimExecution.
OnItsWay(q, bound) ==
    /\ q.pc # "idle" => q.action \in Actions
    /\ q.pc \in {"bind", "request", "record"} => q.op = "request"
    /\ q.pc \in {"claim", "answer"} => q.op = "claim"
    /\ q.pc = "release" => q.op = "release"
    /\ q.pc \in {"open", "create", "request", "claim", "release"} =>
          q.mandate \in Mandates /\ IsSpend(q.action) /\ q.op # "none"
    /\ q.op = "request" =>
          /\ q.action \in Actions
          /\ IF IsSpend(q.action) THEN q.mandate \in Mandates ELSE q.mandate = None
          /\ q.pc = "bind" => IsSpend(q.action) \/ IsTool(q.action)
          /\ q.outcome = "allow" => Evaluate(q.action) = "allow"
          /\ q.pc # "bind" /\ (IsTool(q.action) \/ (IsSpend(q.action) /\ q.outcome = "allow"))
             => bound[ExecutionID(q.mandate, q.action)] = q.action

\* What is left to release was asked under a mandate.
ToRelease(q, asked) ==
    \A a \in q.todo : IsSpend(a) /\ asked[a].state # "none" /\ asked[a].mandate \in Mandates

\* A record says who decided, and what the policy authorised, and every tool
\* invocation, is bound to its execution.
RightlyRecorded(a, r, bound) ==
    /\ r.state # "none" => r.by # "none"
    /\ IsSpend(a) /\ r.state # "none" => r.mandate \in Mandates
    /\ r.by = "policy" => Evaluate(a) = "allow" /\ r.state # "none"
    /\ r.by = "policy" /\ IsSpend(a) => bound[ExecutionID(r.mandate, a)] = a
    /\ r.state # "none" /\ IsTool(a) => bound[ExecutionID(None, a)] = a

Claiming(q, a) == q.op = "claim" /\ q.action = a

\* A spent approval is in one place: with the one handler that answers its claim,
\* or in the one answer that was given, or lost.
SpentOnce ==
    \A a \in Actions :
       /\ performed[a] <= 1
       /\ performed[a] > 0 => /\ approvals[a].state = "spent"
                              /\ \A p \in Procs : ~Claiming(procs[p], a)
       /\ \A p \in Procs : Claiming(procs[p], a) =>
             /\ approvals[a].state = "spent"
             /\ \A q \in Procs : Claiming(procs[q], a) => p = q

Authority ==
    /\ Records
    /\ \A p \in Procs : OnItsWay(procs[p], executions) /\ ToRelease(procs[p], approvals)
    /\ \A a \in Actions : RightlyRecorded(a, approvals[a], executions)
    /\ SpentOnce

(***************************************************************************)
(* Records.                                                                *)
(***************************************************************************)

LEMMA EmptyBudgetOK == EmptyBudget \in Budgets
<1>1. <<>> \in [{} -> Nat]
  OBVIOUS
<1>2. <<>> \in UNION {[ids -> Nat] : ids \in SUBSET Purchases}
  BY Zenon, <1>1
<1> QED
  BY Zenon, <1>2 DEF EmptyBudget, Budgets

LEMMA IdleProcOK == IdleProc \in ProcRecords
  BY Zenon, EmptyBudgetOK DEF IdleProc, ProcRecords

LEMMA HoldsOK ==
    ASSUME NEW b \in Budgets, NEW id \in Purchases, NEW n \in Nat
    PROVE  WithHold(b, id, n) \in Budgets
<1> DEFINE r == [k \in DOMAIN b.reserved \cup {id} |-> IF k = id THEN n ELSE b.reserved[k]]
<1>1. PICK ids \in SUBSET Purchases : b.reserved \in [ids -> Nat]
  BY Zenon DEF Budgets
<1>2. DOMAIN b.reserved = ids
  BY Zenon, <1>1
<1>3. r \in [ids \cup {id} -> Nat]
  BY Zenon, <1>1, <1>2
<1>4. ids \cup {id} \in SUBSET Purchases
  BY Zenon
<1>5. r \in UNION {[i -> Nat] : i \in SUBSET Purchases}
  BY Zenon, <1>3, <1>4
<1> HIDE DEF r
<1>6. [b EXCEPT !.reserved = r] \in Budgets
  BY Zenon, <1>5 DEF Budgets
<1> QED
  BY Zenon, <1>6 DEF WithHold, r

LEMMA HoldsEndOK ==
    ASSUME NEW b \in Budgets, NEW id
    PROVE  WithoutHold(b, id) \in Budgets
<1> DEFINE r == Restrict(b.reserved, DOMAIN b.reserved \ {id})
<1>1. PICK ids \in SUBSET Purchases : b.reserved \in [ids -> Nat]
  BY Zenon DEF Budgets
<1>2. DOMAIN b.reserved = ids
  BY Zenon, <1>1
<1>3. r \in [ids \ {id} -> Nat]
  BY Zenon, <1>1, <1>2 DEF Restrict
<1>4. ids \ {id} \in SUBSET Purchases
  BY Zenon
<1>5. r \in UNION {[i -> Nat] : i \in SUBSET Purchases}
  BY Zenon, <1>3, <1>4
<1> HIDE DEF r
<1>6. [b EXCEPT !.reserved = r] \in Budgets
  BY Zenon, <1>5 DEF Budgets
<1> QED
  BY Zenon, <1>6 DEF WithoutHold, r

LEMMA SpendsOK ==
    ASSUME NEW b \in Budgets, NEW id, Held(b, id)
    PROVE  WithSpend(b, id) \in Budgets
<1>1. WithoutHold(b, id) \in Budgets
  BY Zenon, HoldsEndOK
<1>2. PICK ids \in SUBSET Purchases : b.reserved \in [ids -> Nat]
  BY Zenon DEF Budgets
<1>3. b.reserved[id] \in Nat /\ b.spent \in Nat
  BY Zenon, <1>2 DEF Held, Budgets
<1>4. b.spent + b.reserved[id] \in Nat
  BY <1>3
<1> DEFINE w == WithoutHold(b, id)
           n == b.spent + b.reserved[id]
<1> HIDE DEF w, n
<1>5. ASSUME w \in Budgets, n \in Nat PROVE [w EXCEPT !.spent = n] \in Budgets
  BY Zenon, <1>5 DEF Budgets
<1> QED
  BY Zenon, <1>1, <1>4, <1>5 DEF WithSpend, w, n

\* The identity of an execution that is claimed is one of those there are.
LEMMA ExecutionOK ==
    ASSUME NEW a \in Actions, IsSpend(a) \/ IsTool(a), NEW m \in Mandates \cup {None}
    PROVE  ExecutionID(m, a) \in Execution
<1>1. a.what \in Purchases \cup ToolKeys
  BY Zenon, ActionsAssumption DEF IsSpend, IsTool
<1> QED
  BY Zenon, <1>1 DEF ExecutionID, Execution

LEMMA EvaluateOK ==
    ASSUME NEW a, NEW m, NEW t
    PROVE  /\ Evaluate(a) \in {"allow", "require"}
           /\ EvaluateSpend(m, a, t) \in {"allow", "require"}
           /\ EvaluateSpend(m, a, t) = "allow" => Evaluate(a) = "allow"
  BY Zenon DEF Evaluate, EvaluateSpend

LEMMA FirstStepOK ==
    ASSUME NEW a \in Actions, NEW outcome \in {"allow", "require"},
           IsSpend(a) \/ IsTool(a) \/ outcome = "require"
    PROVE  /\ FirstStep(a, outcome) \in {"bind", "open", "record"}
           /\ FirstStep(a, outcome) = "bind" <=>
                 IsTool(a) \/ (IsSpend(a) /\ outcome = "allow")
           /\ FirstStep(a, outcome) = "open" <=> IsSpend(a) /\ outcome = "require"
  BY Zenon DEF FirstStep, IsTool, IsSpend

\* Ending a request, moving it on and turning to the next release leave a record of
\* a handler.
LEMMA ReturnOK ==
    ASSUME procs \in [Procs -> ProcRecords], NEW p \in Procs, Return(p)
    PROVE  procs' \in [Procs -> ProcRecords]
  BY Zenon, IdleProcOK DEF Return

LEMMA GotoOK ==
    ASSUME procs \in [Procs -> ProcRecords], NEW p \in Procs, NEW pc,
           pc \in {"bind", "open", "create", "request", "claim", "release", "record", "answer"},
           Goto(p, pc)
    PROVE  procs' \in [Procs -> ProcRecords]
<1>1. [procs[p] EXCEPT !.pc = pc] \in ProcRecords
  BY DEF ProcRecords
<1> QED
  BY Zenon, <1>1 DEF Goto

LEMMA NextReleaseOK ==
    ASSUME Records, NEW p \in Procs, NEW todo \in SUBSET Actions, NextRelease(p, todo)
    PROVE  procs' \in [Procs -> ProcRecords]
<1>1. CASE todo = {}
  BY Zenon, <1>1, ReturnOK DEF NextRelease, Records
<1>2. CASE todo # {}
  <2>1. PICK a \in todo : procs' = [procs EXCEPT ![p] =
               [IdleProc EXCEPT !.pc = "open", !.op = "release", !.action = a,
                                !.mandate = approvals[a].mandate, !.todo = todo \ {a}]]
    BY Zenon, <1>2 DEF NextRelease
  <2>2. approvals[a].mandate \in Mandates \cup {None}
    BY Zenon DEF Records, Approval
  <2>3. [IdleProc EXCEPT !.pc = "open", !.op = "release", !.action = a,
                         !.mandate = approvals[a].mandate, !.todo = todo \ {a}] \in ProcRecords
    BY Zenon, <2>2, IdleProcOK DEF ProcRecords
  <2> QED
    BY Zenon, <2>1, <2>3 DEF Records
<1> QED
  BY Zenon, <1>1, <1>2

\* Every step keeps the records.  The processes' records need what the invariant
\* says of the place a handler is at.
LEMMA RecordsStep ==
    ASSUME Authority, [Next]_vars
    PROVE  Records'
<1> USE DEF Procs
<1>0. Records
  BY Zenon DEF Authority
<1>1. CASE UNCHANGED vars
  BY Zenon, <1>0, <1>1 DEF Records, vars
<1>2. ASSUME NEW h \in Handlers, NEW a \in Actions, NEW m \in Mandates \cup {None},
             RequestAction(h, a, m)
      PROVE  Records'
  <2> DEFINE outcome == IF IsSpend(a) THEN EvaluateSpend(m, a, now) ELSE Evaluate(a)
  <2>1. outcome \in {"allow", "require"} /\ (IsSpend(a) \/ IsTool(a) \/ outcome = "require")
    BY Zenon, <1>2, EvaluateOK DEF RequestAction
  <2> DEFINE first == FirstStep(a, outcome)
  <2>2. first \in {"bind", "open", "record"}
    BY Zenon, <2>1, FirstStepOK
  <2>3. procs' = [procs EXCEPT ![h] =
              [IdleProc EXCEPT !.pc = first, !.op = "request", !.action = a, !.mandate = m,
                               !.outcome = outcome, !.at = now]]
    BY Zenon, <1>2 DEF RequestAction
  <2>4. now \in Times
    BY Zenon, <1>0 DEF Records
  <2> HIDE DEF outcome, first
  <2>5. [IdleProc EXCEPT !.pc = first, !.op = "request", !.action = a, !.mandate = m,
                         !.outcome = outcome, !.at = now] \in ProcRecords
    BY Zenon, <2>1, <2>2, <2>4, IdleProcOK DEF ProcRecords
  <2>6. procs' \in [Procs -> ProcRecords]
    BY Zenon, <1>0, <2>3, <2>5 DEF Records
  <2> QED
    BY Zenon, <1>0, <1>2, <2>6 DEF RequestAction, Records
<1>3. ASSUME NEW h \in Handlers, NEW a \in Actions, ClaimAction(h, a)
      PROVE  Records'
  <2> DEFINE first == IF IsSpend(a) THEN "open" ELSE "answer"
  <2>1. approvals[a].mandate \in Mandates \cup {None} /\ first \in {"open", "answer"}
    BY Zenon, <1>0 DEF Records, Approval
  <2>2. procs' = [procs EXCEPT ![h] =
          [IdleProc EXCEPT !.pc = first, !.op = "claim", !.action = a,
                           !.mandate = approvals[a].mandate]]
    BY Zenon, <1>3 DEF ClaimAction
  <2> HIDE DEF first
  <2>3. [IdleProc EXCEPT !.pc = first, !.op = "claim", !.action = a,
                         !.mandate = approvals[a].mandate] \in ProcRecords
    BY Zenon, <2>1, IdleProcOK DEF ProcRecords
  <2>4. procs' \in [Procs -> ProcRecords]
    BY Zenon, <1>0, <2>2, <2>3 DEF Records
  <2>5. approvals' \in [Actions -> Approval]
    BY <1>0, <1>3 DEF ClaimAction, WithState, Records, Approval, ApprovalState
  <2> QED
    BY Zenon, <1>0, <1>3, <2>4, <2>5 DEF ClaimAction, Records
<1>4. ASSUME NEW h \in Handlers, NEW a \in Actions, GrantAction(h, a) \/ DenyAction(h, a)
      PROVE  Records'
  <2>1. approvals' \in [Actions -> Approval]
    BY <1>0, <1>4 DEF GrantAction, DenyAction, WithState, Records, Approval, ApprovalState
  <2>2. procs' \in [Procs -> ProcRecords]
    <3>1. CASE GrantAction(h, a)
      BY Zenon, <1>0, <3>1 DEF GrantAction, Records
    <3>2. CASE DenyAction(h, a)
      <4>1. {a} \cap {b \in Actions : IsSpend(b)} \in SUBSET Actions
        BY Zenon
      <4> QED
        BY Zenon, <1>0, <3>2, <4>1, NextReleaseOK DEF DenyAction
    <3> QED
      BY Zenon, <1>4, <3>1, <3>2
  <2> QED
    BY Zenon, <1>0, <1>4, <2>1, <2>2 DEF GrantAction, DenyAction, Records
<1>5. ASSUME NEW h \in Handlers, NEW m \in Mandates, PlaceMandate(h, m) \/ RevokeMandate(h, m)
      PROVE  Records'
  BY Zenon, <1>0, <1>5 DEF PlaceMandate, RevokeMandate, Records
<1>6. CASE ExpirePendingApprovals
  <2> DEFINE due == {a \in Actions : approvals[a].state = "pending" /\ ApprovalExpired(a, now)}
             Denied(done) == [a \in Actions |-> IF a \in done
                                 THEN [approvals[a] EXCEPT !.state = "denied"]
                                 ELSE approvals[a]]
  <2>1. ASSUME NEW done PROVE Denied(done) \in [Actions -> Approval]
    BY <1>0 DEF Records, Approval, ApprovalState
  <2>2. \E done : approvals' = Denied(done)
    BY Zenon, <1>6 DEF ExpirePendingApprovals
  <2>3. approvals' \in [Actions -> Approval]
    BY Zenon, <2>1, <2>2
  <2>4. procs' \in [Procs -> ProcRecords]
    <3>1. CASE UNCHANGED procs
      BY Zenon, <1>0, <3>1 DEF Records
    <3>2. CASE NextRelease(Maintainer, {a \in due : IsSpend(a)})
      <4>1. {a \in due : IsSpend(a)} \in SUBSET Actions /\ Maintainer \in Procs
        BY Zenon
      <4> QED
        BY Zenon, <1>0, <3>2, <4>1, NextReleaseOK
    <3> QED
      BY Zenon, <1>6, <3>1, <3>2 DEF ExpirePendingApprovals
  <2>5. faults' \in 0..MaxFaults
    BY <1>0, <1>6, BoundsAssumption DEF ExpirePendingApprovals, Records
  <2> QED
    BY Zenon, <1>0, <1>6, <2>3, <2>4, <2>5 DEF ExpirePendingApprovals, Records
<1>7. ASSUME NEW p \in Procs, Step(p)
      PROVE  Records'
  <2> DEFINE q == procs[p]
  <2>0. q \in ProcRecords /\ OnItsWay(q, executions)
    BY Zenon, <1>0 DEF Records, Authority
  <2>1. CASE ClaimExecution(p)
    <3>1. q.action \in Actions /\ q.mandate \in Mandates \cup {None}
      BY Zenon, <2>0, <2>1 DEF ClaimExecution, OnItsWay, ProcRecords
    <3>2. executions' \in [Execution -> Actions \cup {None}]
      BY Zenon, <1>0, <2>1, <3>1 DEF ClaimExecution, Records
    <3>3. AfterBind(q.action) \in {"open", "record"}
      BY Zenon DEF AfterBind
    <3>4. procs' \in [Procs -> ProcRecords]
      BY SMTT(40), <1>0, <2>1, <3>3, ReturnOK, GotoOK DEF ClaimExecution, Records
    <3> QED
      BY Zenon, <1>0, <2>1, <3>2, <3>4 DEF ClaimExecution, Records
  <2>2. CASE LoadBudget(p)
    <3>1. q.mandate \in Mandates /\ q.op \in {"request", "claim", "release"}
      BY Zenon, <2>0, <2>2 DEF LoadBudget, OnItsWay, ProcRecords
    <3>2. CASE ledgers[q.mandate] = None
      <4>1. [q EXCEPT !.pc = "create"] \in ProcRecords
        BY Zenon, <2>0 DEF ProcRecords
      <4>2. procs' = [procs EXCEPT ![p] = [q EXCEPT !.pc = "create"]]
        BY Zenon, <1>0, <2>2, <3>2 DEF LoadBudget, Records
      <4>3. procs' \in [Procs -> ProcRecords]
        BY Zenon, <1>0, <4>1, <4>2 DEF Records
      <4> QED
        BY Zenon, <1>0, <2>2, <4>3 DEF LoadBudget, Records
    <3>3. CASE ledgers[q.mandate] # None
      <4>1. ledgers[q.mandate] \in Budgets
        BY Zenon, <1>0, <3>1, <3>3 DEF Records
      <4>2. [q EXCEPT !.pc = q.op, !.view = ledgers[q.mandate]] \in ProcRecords
        BY Zenon, <2>0, <3>1, <4>1 DEF ProcRecords
      <4>3. procs' = [procs EXCEPT ![p] = [q EXCEPT !.pc = q.op, !.view = ledgers[q.mandate]]]
        BY Zenon, <1>0, <2>2, <3>3 DEF LoadBudget, Records
      <4>4. procs' \in [Procs -> ProcRecords]
        BY Zenon, <1>0, <4>2, <4>3 DEF Records
      <4> QED
        BY Zenon, <1>0, <2>2, <4>4 DEF LoadBudget, Records
    <3> QED
      BY Zenon, <3>2, <3>3
  <2>3. CASE CreateBudget(p)
    <3>1. q.mandate \in Mandates /\ q.op \in {"request", "claim", "release"}
      BY Zenon, <2>0, <2>3 DEF CreateBudget, OnItsWay, ProcRecords
    <3>2. [q EXCEPT !.pc = q.op, !.view = EmptyBudget] \in ProcRecords
      BY Zenon, <2>0, <3>1, EmptyBudgetOK DEF ProcRecords
    <3>3. procs' = [procs EXCEPT ![p] = [q EXCEPT !.pc = q.op, !.view = EmptyBudget]]
      BY Zenon, <1>0, <2>3 DEF CreateBudget, Records
    <3>4. procs' \in [Procs -> ProcRecords]
      BY Zenon, <1>0, <3>2, <3>3 DEF Records
    <3>5. ledgers' \in [Mandates -> Budgets \cup {None}]
      BY Zenon, <1>0, <2>3, <3>1, EmptyBudgetOK DEF CreateBudget, Records
    <3> QED
      BY Zenon, <1>0, <2>3, <3>4, <3>5 DEF CreateBudget, Records
  <2>4. CASE Reserve(p)
    <3>1. q.mandate \in Mandates /\ q.action \in Actions /\ IsSpend(q.action) /\ q.view \in Budgets
      BY Zenon, <2>0, <2>4 DEF Reserve, OnItsWay, ProcRecords
    <3>2. q.action.what \in Purchases /\ Price[q.action.what] \in Nat
      BY Zenon, <3>1, ActionsAssumption, MandatesAssumption DEF IsSpend
    <3> DEFINE held == WithHold(q.view, q.action.what, Price[q.action.what])
    <3>3. held \in Budgets
      BY Zenon, <3>1, <3>2, HoldsOK
    <3>4. ledgers' = [ledgers EXCEPT ![q.mandate] = held] \/ UNCHANGED ledgers
      BY Zenon, <2>4 DEF Reserve
    <3> HIDE DEF held
    <3>5. ledgers' \in [Mandates -> Budgets \cup {None}]
      BY Zenon, <1>0, <3>1, <3>3, <3>4 DEF Records
    <3>6. Return(p) \/ Goto(p, "record")
          \/ procs' = [procs EXCEPT ![p].pc = "record", ![p].outcome = "require"]
      BY Zenon, <2>4 DEF Reserve
    <3>7. [q EXCEPT !.pc = "record", !.outcome = "require"] \in ProcRecords
      BY Zenon, <2>0 DEF ProcRecords
    <3>8. CASE procs' = [procs EXCEPT ![p].pc = "record", ![p].outcome = "require"]
      <4>1. procs' = [procs EXCEPT ![p] = [q EXCEPT !.pc = "record", !.outcome = "require"]]
        BY Zenon, <1>0, <3>8 DEF Records
      <4> QED
        BY Zenon, <1>0, <2>4, <3>5, <3>7, <4>1 DEF Reserve, Records
    <3>9. CASE Return(p) \/ Goto(p, "record")
      <4>1. procs' \in [Procs -> ProcRecords]
        BY Zenon, <1>0, <3>9, ReturnOK, GotoOK DEF Records
      <4> QED
        BY Zenon, <1>0, <2>4, <3>5, <4>1 DEF Reserve, Records
    <3> QED
      BY Zenon, <3>6, <3>8, <3>9
  <2>5. CASE RecordAutoAuthorization(p)
    <3>1. procs' \in [Procs -> ProcRecords]
      BY Zenon, <1>0, <2>5, ReturnOK DEF RecordAutoAuthorization, Records
    <3>2. Asked(p, "granted", "policy") \in Approval
      BY Zenon, <2>0 DEF Asked, Approval, ApprovalState, ProcRecords
    <3>3. approvals' \in [Actions -> Approval]
      BY Zenon, <1>0, <2>5, <3>2 DEF RecordAutoAuthorization, Records
    <3> QED
      BY Zenon, <1>0, <2>5, <3>1, <3>3 DEF RecordAutoAuthorization, Records
  <2>6. CASE RequestApproval(p)
    <3>1. procs' \in [Procs -> ProcRecords]
      BY Zenon, <1>0, <2>6, ReturnOK DEF RequestApproval, Records
    <3>2. Asked(p, "pending", "owner") \in Approval
      BY Zenon, <2>0 DEF Asked, Approval, ApprovalState, ProcRecords
    <3>3. approvals' \in [Actions -> Approval]
      BY Zenon, <1>0, <2>6, <3>2 DEF RequestApproval, Records
    <3> QED
      BY Zenon, <1>0, <2>6, <3>1, <3>3 DEF RequestApproval, Records
  <2>7. CASE Commit(p)
    <3>1. q.mandate \in Mandates /\ q.view \in Budgets
      BY Zenon, <2>0, <2>7 DEF Commit, OnItsWay, ProcRecords
    <3> DEFINE spent == WithSpend(q.view, q.action.what)
    <3>2. Held(q.view, q.action.what) => spent \in Budgets
      BY Zenon, <3>1, SpendsOK
    <3>3. \/ Held(q.view, q.action.what) /\ ledgers' = [ledgers EXCEPT ![q.mandate] = spent]
          \/ ledgers' = ledgers
      BY Zenon, <2>7 DEF Commit
    <3> HIDE DEF spent
    <3>4. ledgers' \in [Mandates -> Budgets \cup {None}]
      BY Zenon, <1>0, <3>1, <3>2, <3>3 DEF Records
    <3>5. Return(p) \/ Goto(p, "answer")
      BY Zenon, <2>7 DEF Commit
    <3>6. procs' \in [Procs -> ProcRecords]
      BY Zenon, <1>0, <3>5, ReturnOK, GotoOK DEF Records
    <3> QED
      BY Zenon, <1>0, <2>7, <3>4, <3>6 DEF Commit, Records
  <2>8. CASE Authorise(p)
    <3>1. procs' \in [Procs -> ProcRecords]
      BY Zenon, <1>0, <2>8, ReturnOK DEF Authorise, Records
    <3> DEFINE n == performed[q.action] + 1
    <3>2. n \in Nat
      BY <1>0, <2>0, <2>8 DEF Authorise, OnItsWay, Records
    <3>3. performed' = [performed EXCEPT ![q.action] = n]
      BY Zenon, <1>0, <2>8 DEF Authorise, Records
    <3> HIDE DEF n
    <3>4. performed' \in [Actions -> Nat]
      BY Zenon, <1>0, <3>2, <3>3 DEF Records
    <3> QED
      BY Zenon, <1>0, <2>8, <3>1, <3>4 DEF Authorise, Records
  <2>9. CASE Release(p)
    <3>1. q.mandate \in Mandates /\ q.view \in Budgets /\ q.todo \in SUBSET Actions
      BY Zenon, <2>0, <2>9 DEF Release, OnItsWay, ProcRecords
    <3> DEFINE freed == WithoutHold(q.view, q.action.what)
    <3>2. freed \in Budgets
      BY Zenon, <3>1, HoldsEndOK
    <3>3. ledgers' = [ledgers EXCEPT ![q.mandate] = freed] \/ ledgers' = ledgers
      BY Zenon, <2>9 DEF Release
    <3> HIDE DEF freed
    <3>4. ledgers' \in [Mandates -> Budgets \cup {None}]
      BY Zenon, <1>0, <3>1, <3>2, <3>3 DEF Records
    <3>5. procs' \in [Procs -> ProcRecords]
      BY Zenon, <1>0, <2>9, <3>1, NextReleaseOK DEF Release
    <3> QED
      BY Zenon, <1>0, <2>9, <3>4, <3>5 DEF Release, Records
  <2> QED
    BY Zenon, <1>7, <2>1, <2>2, <2>3, <2>4, <2>5, <2>6, <2>7, <2>8, <2>9 DEF Step
<1>8. CASE Crash
  BY <1>0, <1>8, IdleProcOK, BoundsAssumption DEF Crash, Records
<1>9. ASSUME NEW p \in Procs, JournalError(p)
      PROVE  Records'
  <2>1. procs' \in [Procs -> ProcRecords]
    BY Zenon, <1>0, <1>9, ReturnOK DEF JournalError, Records
  <2> QED
    BY <1>0, <1>9, <2>1, BoundsAssumption DEF JournalError, Records
<1>10. CASE Tick
  BY <1>0, <1>10, BoundsAssumption DEF Tick, Records, Times
<1> QED
  BY Zenon, <1>1, <1>2, <1>3, <1>4, <1>5, <1>6, <1>7, <1>8, <1>9, <1>10
  DEF Next, Runtime, Owner, Fault

(***************************************************************************)
(* What a step never does: take back a decision, or bind an execution anew.*)
(***************************************************************************)

Final(old, new) ==
    old.state # "none" =>
       /\ new.by = old.by /\ new.mandate = old.mandate
       /\ old.state = "pending" => new.state \in {"pending", "granted", "denied"}
       /\ old.state = "granted" => new.state \in {"granted", "spent"}
       /\ old.state \in {"denied", "spent"} => new.state = old.state

LEMMA DecisionStep ==
    ASSUME Records, [Next]_vars
    PROVE  \A a \in Actions : Final(approvals[a], approvals'[a])
<1>1. CASE UNCHANGED approvals
  BY Zenon, <1>1 DEF Records, Final, Approval, ApprovalState
<1>2. ASSUME NEW b \in Actions, NEW h, ClaimAction(h, b) \/ GrantAction(h, b) \/ DenyAction(h, b)
      PROVE  \A a \in Actions : Final(approvals[a], approvals'[a])
  BY <1>2 DEF ClaimAction, GrantAction, DenyAction, WithState, Spendable, Undecided,
              Records, Final, Approval, ApprovalState
<1>3. CASE ExpirePendingApprovals
  <2> DEFINE due == {a \in Actions : approvals[a].state = "pending" /\ ApprovalExpired(a, now)}
  <2>1. \E done \in SUBSET due :
          approvals' = [a \in Actions |-> IF a \in done
                                 THEN [approvals[a] EXCEPT !.state = "denied"]
                                 ELSE approvals[a]]
    BY Zenon, <1>3 DEF ExpirePendingApprovals
  <2> QED
    BY <2>1 DEF Records, Final, Approval, ApprovalState
<1>4. ASSUME NEW p, RecordAutoAuthorization(p) \/ RequestApproval(p)
      PROVE  \A a \in Actions : Final(approvals[a], approvals'[a])
  <2> DEFINE b == procs[p].action
  <2>1. CASE UNCHANGED approvals
    BY Zenon, <2>1, <1>1
  <2>2. CASE approvals[b].state = "none" /\ \E new : approvals' = [approvals EXCEPT ![b] = new]
    BY Zenon, <2>2 DEF Records, Final, Approval, ApprovalState
  <2> QED
    BY Zenon, <1>4, <2>1, <2>2 DEF RecordAutoAuthorization, RequestApproval, Unrecorded
<1>5. CASE \E p \in Procs : Step(p)
  <2>1. PICK p \in Procs : Step(p)
    BY Zenon, <1>5
  <2>2. RecordAutoAuthorization(p) \/ RequestApproval(p) \/ UNCHANGED approvals
    BY Zenon, <2>1 DEF Step, ClaimExecution, LoadBudget, CreateBudget, Reserve, Commit,
                Authorise, Release
  <2> QED
    BY Zenon, <2>2, <1>1, <1>4
<1>6. CASE \E h \in Handlers : Runtime(h) \/ Owner(h)
  <2>1. PICK h \in Handlers : Runtime(h) \/ Owner(h)
    BY Zenon, <1>6
  <2>2. \/ \E b \in Actions : ClaimAction(h, b) \/ GrantAction(h, b) \/ DenyAction(h, b)
        \/ UNCHANGED approvals
    BY Zenon, <2>1 DEF Runtime, Owner, RequestAction, PlaceMandate, RevokeMandate
  <2> QED
    BY Zenon, <2>2, <1>1, <1>2
<1>7. CASE Fault \/ Tick \/ UNCHANGED vars
  BY Zenon, <1>7, <1>1 DEF Fault, Crash, JournalError, Tick, vars
<1> QED
  BY Zenon, <1>3, <1>5, <1>6, <1>7 DEF Next

\* An execution that is bound stays bound to the same action.
Binds(old, new) == \A e \in Execution : old[e] # None => new[e] = old[e]

LEMMA BindingStep ==
    ASSUME Authority, [Next]_vars
    PROVE  Binds(executions, executions')
<1>1. CASE UNCHANGED executions
  BY Zenon, <1>1 DEF Binds
<1>2. ASSUME NEW p \in Procs, ClaimExecution(p)
      PROVE  Binds(executions, executions')
  <2> DEFINE a == procs[p].action
             e == ExecutionID(procs[p].mandate, a)
  <2>1. \/ executions[e] \in {None, a} /\ executions' = [executions EXCEPT ![e] = a]
        \/ UNCHANGED executions
    BY Zenon, <1>2 DEF ClaimExecution, Bindable
  <2>2. executions \in [Execution -> Actions \cup {None}]
    BY Zenon DEF Authority, Records
  <2> HIDE DEF a, e
  <2> QED
    BY Zenon, <2>1, <2>2 DEF Binds
<1>3. CASE \E p \in Procs : Step(p)
  <2>1. PICK p \in Procs : Step(p)
    BY Zenon, <1>3
  <2>2. ClaimExecution(p) \/ UNCHANGED executions
    BY Zenon, <2>1 DEF Step, LoadBudget, CreateBudget, Reserve, RecordAutoAuthorization,
                RequestApproval, Commit, Authorise, Release
  <2> QED
    BY Zenon, <2>2, <1>1, <1>2
<1>4. CASE \/ \E h \in Handlers : Runtime(h) \/ Owner(h)
           \/ ExpirePendingApprovals \/ Fault \/ Tick \/ UNCHANGED vars
  <2>1. UNCHANGED executions
    BY Zenon, <1>4 DEF Runtime, Owner, RequestAction, ClaimAction, GrantAction, DenyAction,
                PlaceMandate, RevokeMandate, ExpirePendingApprovals, Fault, Crash,
                JournalError, Tick, vars
  <2> QED
    BY ZenonT(30), <2>1, <1>1
<1> QED
  BY Zenon, <1>3, <1>4 DEF Next

LEMMA StillOnItsWay ==
    ASSUME NEW q \in ProcRecords, NEW old, NEW new, OnItsWay(q, old), Binds(old, new)
    PROVE  OnItsWay(q, new)
<1> DEFINE e == ExecutionID(q.mandate, q.action)
<1>1. q.action \in Actions /\ (IsSpend(q.action) \/ IsTool(q.action)) => e \in Execution
  BY Zenon, ExecutionOK DEF ProcRecords
<1>2. q.action \in Actions => q.action # None
  BY Zenon, NamesAssumption
<1> HIDE DEF e
<1>3. q.action \in Actions /\ (IsSpend(q.action) \/ IsTool(q.action)) /\ old[e] = q.action
      => new[e] = q.action
  BY Zenon, <1>1, <1>2 DEF Binds
<1> QED
  BY Zenon, <1>3 DEF OnItsWay, e

LEMMA StillToRelease ==
    ASSUME NEW q \in ProcRecords, ToRelease(q, approvals),
           \A a \in Actions : Final(approvals[a], approvals'[a]),
           approvals \in [Actions -> Approval]
    PROVE  ToRelease(q, approvals')
<1>1. \A a \in q.todo : a \in Actions
  BY Zenon DEF ProcRecords
<1>2. ASSUME NEW a \in Actions, approvals[a].state # "none", approvals[a].mandate \in Mandates
      PROVE  approvals'[a].state # "none" /\ approvals'[a].mandate \in Mandates
  <2>1. approvals[a].state \in {"pending", "granted", "denied", "spent"}
    BY Zenon, <1>2 DEF Approval, ApprovalState
  <2> QED
    BY Zenon, <1>2, <2>1 DEF Final
<1> QED
  BY Zenon, <1>1, <1>2 DEF ToRelease

LEMMA StillRightlyRecorded ==
    ASSUME NEW a \in Actions, NEW old \in Approval, NEW new, NEW bound, NEW bound2,
           RightlyRecorded(a, old, bound), Final(old, new), Binds(bound, bound2),
           old.state # "none" \/ new = old
    PROVE  RightlyRecorded(a, new, bound2)
<1>1. a # None
  BY Zenon, NamesAssumption
<1>2. IsTool(a) => ExecutionID(None, a) \in Execution
  BY Zenon, ExecutionOK
<1>3. IsSpend(a) => ExecutionID(old.mandate, a) \in Execution
  BY Zenon, ExecutionOK DEF Approval
<1> DEFINE e == ExecutionID(None, a)
           f == ExecutionID(old.mandate, a)
<1>4. IsTool(a) /\ bound[e] = a => bound2[e] = a
  BY Zenon, <1>1, <1>2 DEF Binds
<1>5. IsSpend(a) /\ bound[f] = a => bound2[f] = a
  BY Zenon, <1>1, <1>3 DEF Binds
<1>6. old.state # "none" => new.by = old.by /\ new.mandate = old.mandate /\ new.state # "none"
  <2>1. old.state # "none" => old.state \in {"pending", "granted", "denied", "spent"}
    BY Zenon DEF Approval, ApprovalState
  <2> QED
    BY Zenon, <2>1 DEF Final
<1> HIDE DEF e
<1>7. CASE new = old
  BY Zenon, <1>4, <1>5, <1>7 DEF RightlyRecorded, e
<1>8. CASE old.state # "none"
  BY SMTT(40), <1>4, <1>5, <1>6, <1>8 DEF RightlyRecorded, e
<1> QED
  BY Zenon, <1>7, <1>8

(***************************************************************************)
(* The handlers.                                                           *)
(***************************************************************************)

LEMMA IdleOnItsWay ==
    ASSUME NEW bound, NEW asked
    PROVE  OnItsWay(IdleProc, bound) /\ ToRelease(IdleProc, asked)
  BY Zenon DEF OnItsWay, ToRelease, IdleProc

\* Where one process moves, the others stay where they are and as right as they were.
LEMMA OneMoves ==
    ASSUME Authority, [Next]_vars, NEW p \in Procs, NEW r,
           procs' = [procs EXCEPT ![p] = r],
           OnItsWay(r, executions'), ToRelease(r, approvals')
    PROVE  \A x \in Procs : OnItsWay(procs'[x], executions') /\ ToRelease(procs'[x], approvals')
<1> TAKE x \in Procs
<1>1. Records /\ procs[x] \in ProcRecords /\ approvals \in [Actions -> Approval]
  BY Zenon DEF Authority, Records
<1>2. OnItsWay(procs[x], executions) /\ ToRelease(procs[x], approvals)
  BY Zenon DEF Authority
<1>3. OnItsWay(procs[x], executions') /\ ToRelease(procs[x], approvals')
  BY Zenon, <1>1, <1>2, BindingStep, DecisionStep, StillOnItsWay, StillToRelease
<1>4. procs'[x] = r \/ procs'[x] = procs[x]
  BY Zenon, <1>1 DEF Authority, Records
<1> QED
  BY Zenon, <1>3, <1>4

LEMMA NoneMoves ==
    ASSUME Authority, [Next]_vars, UNCHANGED procs
    PROVE  \A x \in Procs : OnItsWay(procs'[x], executions') /\ ToRelease(procs'[x], approvals')
<1> TAKE x \in Procs
<1>1. Records /\ procs[x] \in ProcRecords /\ approvals \in [Actions -> Approval]
  BY Zenon DEF Authority, Records
<1>2. OnItsWay(procs[x], executions) /\ ToRelease(procs[x], approvals)
  BY Zenon DEF Authority
<1> QED
  BY Zenon, <1>1, <1>2, BindingStep, DecisionStep, StillOnItsWay, StillToRelease

LEMMA ReturnMoves ==
    ASSUME Authority, [Next]_vars, NEW p \in Procs, Return(p)
    PROVE  \A x \in Procs : OnItsWay(procs'[x], executions') /\ ToRelease(procs'[x], approvals')
  BY Zenon, IdleOnItsWay, OneMoves DEF Return

LEMMA GotoMoves ==
    ASSUME Authority, [Next]_vars, NEW p \in Procs, NEW pc, Goto(p, pc),
           OnItsWay([procs[p] EXCEPT !.pc = pc], executions')
    PROVE  \A x \in Procs : OnItsWay(procs'[x], executions') /\ ToRelease(procs'[x], approvals')
<1> DEFINE r == [procs[p] EXCEPT !.pc = pc]
<1>1. procs[p] \in ProcRecords /\ Records /\ approvals \in [Actions -> Approval]
      /\ ToRelease(procs[p], approvals)
  BY Zenon DEF Authority, Records
<1>2. ToRelease(procs[p], approvals')
  BY Zenon, <1>1, DecisionStep, StillToRelease
<1>3. r.todo = procs[p].todo
  BY Zenon, <1>1 DEF ProcRecords
<1>4. ToRelease(r, approvals')
  BY Zenon, <1>2, <1>3 DEF ToRelease
<1>5. procs' = [procs EXCEPT ![p] = r]
  BY Zenon DEF Goto
<1> QED
  BY Zenon, <1>4, <1>5, OneMoves

LEMMA NextReleaseMoves ==
    ASSUME Authority, [Next]_vars, NEW p \in Procs, NEW todo \in SUBSET Actions,
           NextRelease(p, todo),
           \A a \in todo : IsSpend(a) /\ approvals[a].state # "none"
    PROVE  \A x \in Procs : OnItsWay(procs'[x], executions') /\ ToRelease(procs'[x], approvals')
<1>1. CASE todo = {}
  BY Zenon, <1>1, ReturnMoves DEF NextRelease
<1>2. CASE todo # {}
  <2>1. PICK a \in todo : procs' = [procs EXCEPT ![p] =
               [IdleProc EXCEPT !.pc = "open", !.op = "release", !.action = a,
                                !.mandate = approvals[a].mandate, !.todo = todo \ {a}]]
    BY Zenon, <1>2 DEF NextRelease
  <2> DEFINE r == [IdleProc EXCEPT !.pc = "open", !.op = "release", !.action = a,
                                   !.mandate = approvals[a].mandate, !.todo = todo \ {a}]
  <2>2. \A b \in todo : b \in Actions /\ approvals[b].mandate \in Mandates
    BY Zenon DEF Authority, RightlyRecorded
  <2>3. /\ r.pc = "open" /\ r.op = "release" /\ r.action = a
        /\ r.mandate = approvals[a].mandate /\ r.todo = todo \ {a}
    BY Zenon DEF IdleProc
  <2>4. procs' = [procs EXCEPT ![p] = r]
    BY Zenon, <2>1
  <2> HIDE DEF r
  <2>5. OnItsWay(r, executions')
    BY Zenon, <2>2, <2>3 DEF OnItsWay
  <2>7. Records /\ approvals \in [Actions -> Approval]
    BY Zenon DEF Authority, Records
  <2>8. ASSUME NEW b \in todo
        PROVE  approvals'[b].state # "none" /\ approvals'[b].mandate \in Mandates
    <3>1. Final(approvals[b], approvals'[b]) /\ approvals[b].state # "none"
      BY Zenon, <2>7, DecisionStep
    <3>2. approvals[b].state \in {"pending", "granted", "denied", "spent"}
      BY Zenon, <2>7, <3>1 DEF Approval, ApprovalState
    <3> QED
      BY Zenon, <2>2, <3>1, <3>2 DEF Final
  <2>9. ToRelease(r, approvals')
    BY Zenon, <2>3, <2>8 DEF ToRelease
  <2> QED
    BY Zenon, <2>4, <2>5, <2>9, OneMoves
<1> QED
  BY Zenon, <1>1, <1>2

LEMMA HandlersStep ==
    ASSUME Authority, [Next]_vars
    PROVE  \A x \in Procs : OnItsWay(procs'[x], executions') /\ ToRelease(procs'[x], approvals')
<1> DEFINE Goal == \A x \in Procs : /\ OnItsWay(procs'[x], executions')
                                    /\ ToRelease(procs'[x], approvals')
<1>0. Records /\ \A p \in Procs : procs[p] \in ProcRecords /\ OnItsWay(procs[p], executions)
                                  /\ ToRelease(procs[p], approvals)
  BY Zenon DEF Authority, Records
<1>1. ASSUME NEW h \in Procs, NEW a \in Actions, NEW m \in Mandates \cup {None},
             RequestAction(h, a, m)
      PROVE  Goal
  <2> DEFINE outcome == IF IsSpend(a) THEN EvaluateSpend(m, a, now) ELSE Evaluate(a)
             first == FirstStep(a, outcome)
             r == [IdleProc EXCEPT !.pc = first, !.op = "request", !.action = a,
                                   !.mandate = m, !.outcome = outcome, !.at = now]
  <2>1. /\ outcome \in {"allow", "require"} /\ (outcome = "allow" => Evaluate(a) = "allow")
        /\ IsSpend(a) \/ IsTool(a) \/ outcome = "require"
        /\ IF IsSpend(a) THEN m \in Mandates ELSE m = None
    BY Zenon, <1>1, EvaluateOK DEF RequestAction
  <2>2. procs' = [procs EXCEPT ![h] = r]
    BY Zenon, <1>1 DEF RequestAction
  <2> HIDE DEF outcome
  <2>3. /\ first \in {"bind", "open", "record"}
        /\ first = "bind" <=> IsTool(a) \/ (IsSpend(a) /\ outcome = "allow")
        /\ first = "open" <=> IsSpend(a) /\ outcome = "require"
    BY Zenon, <2>1, FirstStepOK
  <2> HIDE DEF first
  <2>4. /\ r.pc = first /\ r.op = "request" /\ r.action = a /\ r.mandate = m
        /\ r.outcome = outcome /\ r.todo = {}
    BY Zenon DEF IdleProc
  <2> HIDE DEF r
  <2>5. OnItsWay(r, executions')
    BY Zenon, <2>1, <2>3, <2>4 DEF OnItsWay
  <2>6. ToRelease(r, approvals')
    BY Zenon, <2>4 DEF ToRelease
  <2> QED
    BY Zenon, <2>2, <2>5, <2>6, OneMoves
<1>2. ASSUME NEW h \in Procs, NEW a \in Actions, ClaimAction(h, a)
      PROVE  Goal
  <2> DEFINE first == IF IsSpend(a) THEN "open" ELSE "answer"
             r == [IdleProc EXCEPT !.pc = first, !.op = "claim", !.action = a,
                                   !.mandate = approvals[a].mandate]
  <2>1. procs' = [procs EXCEPT ![h] = r]
    BY Zenon, <1>2 DEF ClaimAction
  <2>2. IsSpend(a) => approvals[a].mandate \in Mandates
    BY Zenon, <1>2 DEF ClaimAction, Spendable, Authority, RightlyRecorded
  <2>3. /\ r.pc = first /\ r.op = "claim" /\ r.action = a
        /\ r.mandate = approvals[a].mandate /\ r.todo = {}
    BY Zenon DEF IdleProc
  <2> HIDE DEF r
  <2>4. OnItsWay(r, executions') /\ ToRelease(r, approvals')
    BY Zenon, <2>2, <2>3 DEF OnItsWay, ToRelease
  <2> QED
    BY Zenon, <2>1, <2>4, OneMoves
<1>3. ASSUME NEW h \in Procs, NEW a \in Actions, DenyAction(h, a)
      PROVE  Goal
  <2> DEFINE todo == {a} \cap {b \in Actions : IsSpend(b)}
  <2>1. todo \in SUBSET Actions /\ NextRelease(h, todo)
    BY Zenon, <1>3 DEF DenyAction
  <2>2. \A b \in todo : IsSpend(b) /\ approvals[b].state # "none"
    BY Zenon, <1>3 DEF DenyAction, Undecided
  <2> HIDE DEF todo
  <2> QED
    BY Zenon, <2>1, <2>2, NextReleaseMoves
<1>4. CASE ExpirePendingApprovals
  <2> DEFINE due == {a \in Actions : approvals[a].state = "pending" /\ ApprovalExpired(a, now)}
             todo == {a \in due : IsSpend(a)}
  <2>1. todo \in SUBSET Actions /\ \A b \in todo : IsSpend(b) /\ approvals[b].state # "none"
    BY Zenon
  <2>2. NextRelease(Maintainer, todo) \/ UNCHANGED procs
    BY Zenon, <1>4 DEF ExpirePendingApprovals
  <2>3. Maintainer \in Procs
    BY Zenon DEF Procs
  <2> HIDE DEF todo
  <2> QED
    BY Zenon, <2>1, <2>2, <2>3, NextReleaseMoves, NoneMoves
<1>5. ASSUME NEW p \in Procs, Step(p)
      PROVE  Goal
  <2> DEFINE q == procs[p]
  <2>0. q \in ProcRecords /\ OnItsWay(q, executions) /\ ToRelease(q, approvals)
    BY Zenon, <1>0
  <2>1. CASE ClaimExecution(p)
    <3> DEFINE a == q.action
               e == ExecutionID(q.mandate, a)
               r == [q EXCEPT !.pc = AfterBind(a)]
    <3>1. CASE Return(p)
      BY Zenon, <3>1, ReturnMoves
    <3>2. CASE executions' = [executions EXCEPT ![e] = a] /\ Goto(p, AfterBind(a))
      <4>1. q.pc = "bind" /\ a \in Actions /\ (IsSpend(a) \/ IsTool(a)) /\ q.op = "request"
        BY Zenon, <2>0, <2>1 DEF ClaimExecution, OnItsWay
      <4>2. e \in Execution
        BY Zenon, <2>0, <4>1, ExecutionOK DEF ProcRecords
      <4>3. executions \in [Execution -> Actions \cup {None}]
        BY Zenon, <1>0 DEF Records
      <4> HIDE DEF e
      <4>4. executions'[e] = a
        BY Zenon, <3>2, <4>2, <4>3
      <4>5. r.action = a /\ r.op = "request" /\ r.mandate = q.mandate /\ r.outcome = q.outcome
            /\ r.pc = AfterBind(a)
        BY Zenon, <2>0, <4>1 DEF ProcRecords
      <4>6. AfterBind(a) \in {"open", "record"} /\ (AfterBind(a) = "open" <=> IsSpend(a))
        BY Zenon DEF AfterBind
      <4>7. executions'[ExecutionID(q.mandate, a)] = a
        BY ZenonT(30), <4>4 DEF e
      <4>8. /\ IF IsSpend(a) THEN q.mandate \in Mandates ELSE q.mandate = None
            /\ q.outcome = "allow" => Evaluate(a) = "allow"
        BY Zenon, <2>0, <4>1 DEF OnItsWay
      <4> HIDE DEF r, a
      <4>9. OnItsWay(r, executions')
        BY Zenon, <4>1, <4>5, <4>6, <4>7, <4>8 DEF OnItsWay
      <4> QED
        BY Zenon, <3>2, <4>9, GotoMoves DEF r
    <3> QED
      BY Zenon, <2>1, <3>1, <3>2 DEF ClaimExecution
  <2>2. CASE LoadBudget(p) \/ CreateBudget(p)
    <3> DEFINE Moved(r) == /\ r.op = q.op /\ r.action = q.action /\ r.mandate = q.mandate
                           /\ r.outcome = q.outcome /\ r.todo = q.todo
                           /\ r.pc \in {"create", q.op}
    <3>1. PICK r : procs' = [procs EXCEPT ![p] = r] /\ Moved(r)
      <4>1. ASSUME NEW v PROVE Moved([q EXCEPT !.pc = q.op, !.view = v])
        BY Zenon, <2>0 DEF ProcRecords
      <4>2. Moved([q EXCEPT !.pc = "create"])
        BY Zenon, <2>0 DEF ProcRecords
      <4>3. \/ procs' = [procs EXCEPT ![p] = [q EXCEPT !.pc = "create"]]
            \/ \E v : procs' = [procs EXCEPT ![p] = [q EXCEPT !.pc = q.op, !.view = v]]
        BY Zenon, <1>0, <2>2 DEF LoadBudget, CreateBudget, Records
      <4> QED
        BY Zenon, <4>1, <4>2, <4>3
    <3>2. q.mandate \in Mandates /\ IsSpend(q.action) /\ q.action \in Actions
          /\ q.op \in {"request", "claim", "release"} /\ q.pc \in {"open", "create"}
      BY Zenon, <2>0, <2>2 DEF LoadBudget, CreateBudget, OnItsWay, ProcRecords
    <3>3. UNCHANGED <<executions, approvals>>
      BY SMTT(40), <2>2 DEF LoadBudget, CreateBudget
    <3>4. OnItsWay(r, executions)
      BY Zenon, <2>0, <3>1, <3>2 DEF OnItsWay
    <3>5. ToRelease(r, approvals)
      BY Zenon, <2>0, <3>1 DEF ToRelease
    <3> QED
      BY Zenon, <3>1, <3>3, <3>4, <3>5, OneMoves
  <2>3. CASE Reserve(p)
    <3> DEFINE r == [q EXCEPT !.pc = "record", !.outcome = "require"]
               g == [q EXCEPT !.pc = "record"]
    <3>1. q.pc = "request" /\ UNCHANGED <<executions, approvals>>
      BY Zenon, <2>3 DEF Reserve
    <3>2. CASE Return(p)
      BY Zenon, <3>2, ReturnMoves
    <3>3. CASE Goto(p, "record")
      <4>1. g.op = q.op /\ g.action = q.action /\ g.mandate = q.mandate
            /\ g.outcome = q.outcome /\ g.pc = "record"
        BY Zenon, <2>0 DEF ProcRecords
      <4>2. OnItsWay(g, executions')
        BY Zenon, <2>0, <3>1, <4>1 DEF OnItsWay
      <4> QED
        BY Zenon, <3>3, <4>2, GotoMoves
    <3>4. CASE procs' = [procs EXCEPT ![p].pc = "record", ![p].outcome = "require"]
      <4>1. r.op = q.op /\ r.action = q.action /\ r.mandate = q.mandate
            /\ r.outcome = "require" /\ r.pc = "record" /\ r.todo = q.todo
        BY Zenon, <2>0 DEF ProcRecords
      <4>2. procs' = [procs EXCEPT ![p] = r]
        BY Zenon, <1>0, <3>4 DEF Records
      <4> HIDE DEF r
      <4>3. IsSpend(q.action) => ~IsTool(q.action)
        BY Zenon DEF IsSpend, IsTool
      <4>4. OnItsWay(r, executions')
        BY Zenon, <2>0, <3>1, <4>1, <4>3 DEF OnItsWay
      <4>5. ToRelease(r, approvals')
        BY Zenon, <2>0, <3>1, <4>1 DEF ToRelease
      <4> QED
        BY Zenon, <4>2, <4>4, <4>5, OneMoves
    <3> QED
      BY Zenon, <2>3, <3>2, <3>3, <3>4 DEF Reserve
  <2>4. CASE RecordAutoAuthorization(p) \/ RequestApproval(p) \/ Authorise(p)
    BY Zenon, <2>4, ReturnMoves DEF RecordAutoAuthorization, RequestApproval, Authorise
  <2>5. CASE Commit(p)
    <3> DEFINE g == [q EXCEPT !.pc = "answer"]
    <3>1. CASE Return(p)
      BY Zenon, <3>1, ReturnMoves
    <3>2. CASE Goto(p, "answer")
      <4>1. g.op = q.op /\ g.action = q.action /\ g.mandate = q.mandate /\ g.pc = "answer"
        BY Zenon, <2>0 DEF ProcRecords
      <4>2. q.pc = "claim"
        BY Zenon, <2>5 DEF Commit
      <4>3. OnItsWay(g, executions')
        BY Zenon, <2>0, <4>1, <4>2 DEF OnItsWay
      <4> QED
        BY Zenon, <3>2, <4>3, GotoMoves
    <3> QED
      BY Zenon, <2>5, <3>1, <3>2 DEF Commit
  <2>6. CASE Release(p)
    <3>1. q.todo \in SUBSET Actions /\ NextRelease(p, q.todo)
      BY Zenon, <2>0, <2>6 DEF Release, ProcRecords
    <3>2. \A b \in q.todo : IsSpend(b) /\ approvals[b].state # "none"
      BY Zenon, <2>0 DEF ToRelease
    <3> HIDE DEF q
    <3> QED
      BY Zenon, <3>1, <3>2, NextReleaseMoves
  <2> QED
    BY Zenon, <1>5, <2>1, <2>2, <2>3, <2>4, <2>5, <2>6 DEF Step
<1>6. CASE Crash
  <2>1. \A x \in Procs : procs'[x] = IdleProc
    BY Zenon, <1>6 DEF Crash
  <2> QED
    BY Zenon, <2>1, IdleOnItsWay
<1>7. ASSUME NEW p \in Procs, JournalError(p)
      PROVE  Goal
  BY Zenon, <1>7, ReturnMoves DEF JournalError
<1>8. CASE UNCHANGED procs
  BY Zenon, <1>8, NoneMoves
<1>9. ASSUME NEW h \in Procs, Runtime(h) \/ Owner(h)
      PROVE  Goal
  BY Zenon, <1>9, <1>1, <1>2, <1>3, <1>8
  DEF Runtime, Owner, GrantAction, PlaceMandate, RevokeMandate
<1>10. CASE Tick \/ UNCHANGED vars
  BY Zenon, <1>10, <1>8 DEF Tick, vars
<1>11. Handlers \subseteq Procs
  BY ZenonT(30) DEF Procs
<1> QED
  BY Zenon, <1>4, <1>5, <1>6, <1>7, <1>9, <1>10, <1>11 DEF Next, Fault

(***************************************************************************)
(* The records of approval, and the claims.                                *)
(***************************************************************************)

LEMMA RecordedStep ==
    ASSUME Authority, [Next]_vars
    PROVE  \A a \in Actions : RightlyRecorded(a, approvals'[a], executions')
<1> TAKE a \in Actions
<1>0. /\ Records /\ approvals \in [Actions -> Approval] /\ approvals[a] \in Approval
      /\ RightlyRecorded(a, approvals[a], executions)
  BY Zenon DEF Authority, Records
<1>1. Final(approvals[a], approvals'[a]) /\ Binds(executions, executions')
  BY Zenon, <1>0, DecisionStep, BindingStep
<1>2. CASE approvals[a].state # "none" \/ approvals'[a] = approvals[a]
  BY Zenon, <1>0, <1>1, <1>2, StillRightlyRecorded
<1>3. ASSUME NEW p \in Procs, procs[p].action = a,
             procs[p].pc = "record", UNCHANGED executions,
             \/ procs[p].outcome = "allow" /\ approvals'[a] = Asked(p, "granted", "policy")
             \/ approvals'[a] = Asked(p, "pending", "owner")
      PROVE  RightlyRecorded(a, approvals'[a], executions')
  <2> DEFINE q == procs[p]
             r == approvals'[a]
  <2>1. OnItsWay(q, executions)
    BY Zenon DEF Authority
  <2>2. /\ IF IsSpend(a) THEN q.mandate \in Mandates ELSE q.mandate = None
        /\ q.outcome = "allow" => Evaluate(a) = "allow"
        /\ IsTool(a) \/ (IsSpend(a) /\ q.outcome = "allow")
           => executions[ExecutionID(q.mandate, a)] = a
    BY Zenon, <1>3, <2>1 DEF OnItsWay
  <2>3. /\ r.mandate = q.mandate /\ r.state # "none" /\ r.by # "none"
        /\ r.by = "policy" => q.outcome = "allow"
    BY <1>3 DEF Asked
  <2>4. IsTool(a) => ~IsSpend(a)
    BY Zenon DEF IsTool, IsSpend
  <2> HIDE DEF q, r
  <2>5. RightlyRecorded(a, r, executions)
    BY Zenon, <2>2, <2>3, <2>4 DEF RightlyRecorded
  <2> QED
    BY Zenon, <1>3, <2>5 DEF r
<1>4. ASSUME NEW p \in Procs, RecordAutoAuthorization(p) \/ RequestApproval(p)
      PROVE  RightlyRecorded(a, approvals'[a], executions')
  <2>1. CASE approvals' = approvals
    BY SMTT(40), <2>1, <1>2
  <2>2. CASE RecordAutoAuthorization(p)
             /\ approvals' = [approvals EXCEPT ![procs[p].action] = Asked(p, "granted", "policy")]
    BY Zenon, <1>0, <2>2, <1>2, <1>3 DEF RecordAutoAuthorization
  <2>3. CASE RequestApproval(p)
             /\ approvals' = [approvals EXCEPT ![procs[p].action] = Asked(p, "pending", "owner")]
    BY Zenon, <1>0, <2>3, <1>2, <1>3 DEF RequestApproval
  <2> QED
    BY Zenon, <1>4, <2>1, <2>2, <2>3 DEF RecordAutoAuthorization, RequestApproval
<1>5. ASSUME NEW b \in Actions, NEW h, ClaimAction(h, b) \/ GrantAction(h, b) \/ DenyAction(h, b)
      PROVE  approvals[a].state # "none" \/ approvals'[a] = approvals[a]
  BY Zenon, <1>0, <1>5 DEF ClaimAction, GrantAction, DenyAction, WithState, Spendable, Undecided
<1>6. ASSUME ExpirePendingApprovals
      PROVE  approvals[a].state # "none" \/ approvals'[a] = approvals[a]
  <2> DEFINE due == {b \in Actions : approvals[b].state = "pending" /\ ApprovalExpired(b, now)}
  <2>1. \E done \in SUBSET due :
          approvals' = [b \in Actions |-> IF b \in done
                                 THEN [approvals[b] EXCEPT !.state = "denied"]
                                 ELSE approvals[b]]
    BY Zenon, <1>6 DEF ExpirePendingApprovals
  <2> QED
    BY Zenon, <2>1
<1>7. CASE \E p \in Procs : Step(p)
  <2>1. PICK p \in Procs : Step(p)
    BY Zenon, <1>7
  <2>2. RecordAutoAuthorization(p) \/ RequestApproval(p) \/ UNCHANGED approvals
    BY Zenon, <2>1 DEF Step, ClaimExecution, LoadBudget, CreateBudget, Reserve, Commit,
                Authorise, Release
  <2> QED
    BY Zenon, <2>2, <1>2, <1>4
<1>8. CASE \E h \in Handlers : Runtime(h) \/ Owner(h)
  <2>1. PICK h \in Handlers : Runtime(h) \/ Owner(h)
    BY Zenon, <1>8
  <2>2. \/ \E b \in Actions : ClaimAction(h, b) \/ GrantAction(h, b) \/ DenyAction(h, b)
        \/ UNCHANGED approvals
    BY Zenon, <2>1 DEF Runtime, Owner, RequestAction, PlaceMandate, RevokeMandate
  <2> QED
    BY Zenon, <2>2, <1>2, <1>5
<1>9. CASE Fault \/ Tick \/ UNCHANGED vars
  BY Zenon, <1>9, <1>2 DEF Fault, Crash, JournalError, Tick, vars
<1> QED
  BY Zenon, <1>2, <1>6, <1>7, <1>8, <1>9 DEF Next

\* Only ClaimAction begins a claim.
LEMMA NoNewClaim ==
    ASSUME Authority, [Next]_vars, ~\E h \in Handlers, a \in Actions : ClaimAction(h, a)
    PROVE  \A p \in Procs, a \in Actions : Claiming(procs'[p], a) => Claiming(procs[p], a)
<1> DEFINE Goal == \A p \in Procs, a \in Actions : Claiming(procs'[p], a) => Claiming(procs[p], a)
<1>0. procs \in [Procs -> ProcRecords]
  BY Zenon DEF Authority, Records
<1>1. ASSUME NEW p \in Procs, NEW r, procs' = [procs EXCEPT ![p] = r],
             r.op # "claim" \/ (r.op = procs[p].op /\ r.action = procs[p].action)
      PROVE  Goal
  BY Zenon, <1>0, <1>1 DEF Claiming
<1>2. ASSUME NEW p \in Procs, Return(p)
      PROVE  Goal
  <2>1. IdleProc.op # "claim"
    BY Zenon DEF IdleProc
  <2> QED
    BY Zenon, <1>1, <1>2, <2>1 DEF Return
<1>3. ASSUME NEW p \in Procs, NEW pc, Goto(p, pc)
      PROVE  Goal
  <2> DEFINE r == [procs[p] EXCEPT !.pc = pc]
  <2>1. r.op = procs[p].op /\ r.action = procs[p].action
    BY Zenon, <1>0 DEF ProcRecords
  <2>2. procs' = [procs EXCEPT ![p] = r]
    BY Zenon, <1>3 DEF Goto
  <2> HIDE DEF r
  <2> QED
    BY Zenon, <1>1, <2>1, <2>2
<1>4. ASSUME NEW p \in Procs, NEW todo, NextRelease(p, todo)
      PROVE  Goal
  <2>1. CASE todo = {}
    BY Zenon, <1>2, <1>4, <2>1 DEF NextRelease
  <2>2. CASE todo # {}
    <3>1. PICK a \in todo : procs' = [procs EXCEPT ![p] =
               [IdleProc EXCEPT !.pc = "open", !.op = "release", !.action = a,
                                !.mandate = approvals[a].mandate, !.todo = todo \ {a}]]
      BY Zenon, <1>4, <2>2 DEF NextRelease
    <3> DEFINE r == [IdleProc EXCEPT !.pc = "open", !.op = "release", !.action = a,
                                     !.mandate = approvals[a].mandate, !.todo = todo \ {a}]
    <3>2. r.op = "release" /\ procs' = [procs EXCEPT ![p] = r]
      BY Zenon, <3>1 DEF IdleProc
    <3> HIDE DEF r
    <3> QED
      BY Zenon, <1>1, <3>2
  <2> QED
    BY Zenon, <2>1, <2>2
<1>5. ASSUME NEW h \in Procs, NEW a, NEW m, RequestAction(h, a, m)
      PROVE  Goal
  <2>1. PICK pc, outcome : procs' = [procs EXCEPT ![h] =
              [IdleProc EXCEPT !.pc = pc, !.op = "request", !.action = a, !.mandate = m,
                               !.outcome = outcome, !.at = now]]
    BY Zenon, <1>5 DEF RequestAction
  <2> DEFINE r == [IdleProc EXCEPT !.pc = pc, !.op = "request", !.action = a, !.mandate = m,
                                   !.outcome = outcome, !.at = now]
  <2>2. r.op = "request" /\ procs' = [procs EXCEPT ![h] = r]
    BY Zenon, <2>1 DEF IdleProc
  <2> HIDE DEF r
  <2> QED
    BY Zenon, <1>1, <2>2
<1>6. ASSUME NEW p \in Procs, LoadBudget(p) \/ CreateBudget(p)
      PROVE  Goal
  <2> DEFINE q == procs[p]
             Kept(r) == r.op = q.op /\ r.action = q.action
  <2>1. q \in ProcRecords
    BY Zenon, <1>0
  <2>2. ASSUME NEW v PROVE Kept([q EXCEPT !.pc = q.op, !.view = v])
    BY Zenon, <2>1 DEF ProcRecords
  <2>3. Kept([q EXCEPT !.pc = "create"])
    BY Zenon, <2>1 DEF ProcRecords
  <2>4. \/ procs' = [procs EXCEPT ![p] = [q EXCEPT !.pc = "create"]]
        \/ \E v : procs' = [procs EXCEPT ![p] = [q EXCEPT !.pc = q.op, !.view = v]]
    BY ZenonT(40), <1>0, <1>6 DEF LoadBudget, CreateBudget
  <2>5. \E r : procs' = [procs EXCEPT ![p] = r] /\ Kept(r)
    BY Zenon, <2>2, <2>3, <2>4
  <2> QED
    BY Zenon, <1>1, <2>5
<1>7. ASSUME NEW p \in Procs, Reserve(p)
      PROVE  Goal
  <2> DEFINE r == [procs[p] EXCEPT !.pc = "record", !.outcome = "require"]
  <2>1. r.op = procs[p].op /\ r.action = procs[p].action
    BY <1>0 DEF ProcRecords
  <2>2. Return(p) \/ Goto(p, "record") \/ procs' = [procs EXCEPT ![p] = r]
    BY Zenon, <1>0, <1>7 DEF Reserve
  <2> HIDE DEF r
  <2> QED
    BY Zenon, <1>1, <1>2, <1>3, <2>1, <2>2
<1>8. ASSUME NEW p \in Procs, Step(p)
      PROVE  Goal
  <2>1. CASE ClaimExecution(p) \/ RecordAutoAuthorization(p) \/ RequestApproval(p)
             \/ Commit(p) \/ Authorise(p) \/ Release(p)
    BY Zenon, <1>2, <1>3, <1>4, <2>1 DEF ClaimExecution, RecordAutoAuthorization, RequestApproval,
                                  Commit, Authorise, Release
  <2> QED
    BY Zenon, <1>6, <1>7, <1>8, <2>1 DEF Step
<1>9. CASE UNCHANGED procs
  BY Zenon, <1>9
<1>10. CASE Crash
  BY Zenon, <1>10 DEF Crash, Claiming, IdleProc
<1>11. ASSUME NEW h \in Handlers, Runtime(h) \/ Owner(h)
      PROVE  Goal
  <2>1. h \in Procs
    BY Zenon DEF Procs
  <2> QED
    BY Zenon, <1>4, <1>5, <1>9, <1>11, <2>1
    DEF Runtime, Owner, GrantAction, DenyAction, PlaceMandate, RevokeMandate
<1>12. CASE ExpirePendingApprovals
  <2>1. Maintainer \in Procs
    BY Zenon DEF Procs
  <2> QED
    BY Zenon, <1>4, <1>9, <1>12, <2>1 DEF ExpirePendingApprovals
<1>13. ASSUME NEW p \in Procs, JournalError(p)
       PROVE  Goal
  BY Zenon, <1>2, <1>13 DEF JournalError
<1> QED
  BY Zenon, <1>8, <1>9, <1>10, <1>11, <1>12, <1>13 DEF Next, Fault, Tick, vars

LEMMA SpentOnceStep ==
    ASSUME Authority, [Next]_vars
    PROVE  SpentOnce'
<1>0. Records /\ SpentOnce /\ approvals \in [Actions -> Approval]
      /\ procs \in [Procs -> ProcRecords] /\ performed \in [Actions -> Nat]
  BY Zenon DEF Authority, Records
<1>1. ASSUME NEW a \in Actions, approvals[a].state = "spent" PROVE approvals'[a].state = "spent"
  BY Zenon, <1>0, <1>1, DecisionStep DEF Final
<1>2. CASE \E h \in Handlers, a \in Actions : ClaimAction(h, a)
  <2>1. PICK h \in Handlers, a \in Actions : ClaimAction(h, a)
    BY Zenon, <1>2
  <2> DEFINE first == IF IsSpend(a) THEN "open" ELSE "answer"
             r == [IdleProc EXCEPT !.pc = first, !.op = "claim", !.action = a,
                                   !.mandate = approvals[a].mandate]
  <2>2. r.op = "claim" /\ r.action = a /\ procs' = [procs EXCEPT ![h] = r]
    BY Zenon, <2>1 DEF ClaimAction, IdleProc
  <2>3. /\ approvals[a].state = "granted" /\ approvals'[a].state = "spent"
        /\ performed' = performed
    BY Zenon, <1>0, <2>1 DEF ClaimAction, Spendable, WithState, Approval
  <2> HIDE DEF r
  <2>4. performed[a] = 0 /\ \A p \in Procs : ~Claiming(procs[p], a)
    BY <1>0, <2>3 DEF SpentOnce
  <2>5. h \in Procs
    BY Zenon DEF Procs
  <2>6. \A p \in Procs : p # h => procs'[p] = procs[p]
    BY Zenon, <1>0, <2>2
  <2>7. procs'[h] = r
    BY Zenon, <1>0, <2>2, <2>5
  <2>8. \A p \in Procs : Claiming(procs'[p], a) => p = h
    BY Zenon, <2>4, <2>6
  <2>9. \A p \in Procs, b \in Actions : b # a /\ Claiming(procs'[p], b) => Claiming(procs[p], b)
    BY Zenon, <2>2, <2>6, <2>7 DEF Claiming
  <2>10. ASSUME NEW b \in Actions
         PROVE  /\ performed'[b] <= 1
                /\ performed'[b] > 0 => /\ approvals'[b].state = "spent"
                                        /\ \A p \in Procs : ~Claiming(procs'[p], b)
                /\ \A p \in Procs : Claiming(procs'[p], b) =>
                      /\ approvals'[b].state = "spent"
                      /\ \A q \in Procs : Claiming(procs'[q], b) => p = q
    <3>1. CASE b = a
      BY <2>3, <2>4, <2>8, <3>1
    <3>2. CASE b # a
      BY Zenon, <1>0, <1>1, <2>3, <2>9, <3>2 DEF SpentOnce
    <3> QED
      BY Zenon, <3>1, <3>2
  <2> QED
    BY Zenon, <2>10 DEF SpentOnce
<1>3. CASE ~\E h \in Handlers, a \in Actions : ClaimAction(h, a)
  <2>1. \A p \in Procs, a \in Actions : Claiming(procs'[p], a) => Claiming(procs[p], a)
    BY Zenon, <1>3, NoNewClaim
  <2>2. CASE performed' = performed
    BY Zenon, <1>0, <1>1, <2>1, <2>2 DEF SpentOnce
  <2>3. CASE \E p \in Procs : Authorise(p)
    <3>1. PICK p \in Procs : Authorise(p)
      BY Zenon, <2>3
    <3> DEFINE a == procs[p].action
    <3>2. OnItsWay(procs[p], executions) /\ procs[p].pc = "answer"
      BY Zenon, <3>1 DEF Authority, Authorise
    <3>3. a \in Actions /\ Claiming(procs[p], a)
      BY Zenon, <3>2 DEF OnItsWay, Claiming
    <3>4. performed[a] = 0 /\ approvals[a].state = "spent"
          /\ \A q \in Procs : Claiming(procs[q], a) => p = q
      BY <1>0, <3>3 DEF SpentOnce
    <3>5. performed' = [performed EXCEPT ![a] = 1]
      BY <1>0, <3>1, <3>3, <3>4 DEF Authorise
    <3>6. procs'[p] = IdleProc
      BY Zenon, <1>0, <3>1 DEF Authorise, Return
    <3>7. ~Claiming(procs'[p], a)
      BY <3>6 DEF Claiming, IdleProc
    <3> HIDE DEF a
    <3>8. \A q \in Procs : ~Claiming(procs'[q], a)
      BY Zenon, <2>1, <3>3, <3>4, <3>7
    <3>9. performed'[a] = 1 /\ \A b \in Actions : b # a => performed'[b] = performed[b]
      BY Zenon, <1>0, <3>3, <3>5
    <3>10. ASSUME NEW b \in Actions
           PROVE  /\ performed'[b] <= 1
                  /\ performed'[b] > 0 => /\ approvals'[b].state = "spent"
                                          /\ \A q \in Procs : ~Claiming(procs'[q], b)
                  /\ \A x \in Procs : Claiming(procs'[x], b) =>
                        /\ approvals'[b].state = "spent"
                        /\ \A q \in Procs : Claiming(procs'[q], b) => x = q
      <4>1. CASE b = a
        BY <1>1, <3>3, <3>4, <3>8, <3>9, <4>1
      <4>2. CASE b # a
        BY ZenonT(30), <1>0, <1>1, <2>1, <3>9, <4>2 DEF SpentOnce
      <4> QED
        BY Zenon, <4>1, <4>2
    <3> QED
      BY ZenonT(30), <3>10 DEF SpentOnce
  <2>4. performed' = performed \/ \E p \in Procs : Authorise(p)
    BY ZenonT(40) DEF Next, Step, Runtime, Owner, Fault, RequestAction, ClaimAction, GrantAction,
           DenyAction, PlaceMandate, RevokeMandate, ExpirePendingApprovals, ClaimExecution,
           LoadBudget, CreateBudget, Reserve, RecordAutoAuthorization, RequestApproval,
           Commit, Release, Crash, JournalError, Tick, vars
  <2> QED
    BY Zenon, <2>2, <2>3, <2>4
<1> QED
  BY Zenon, <1>2, <1>3

(***************************************************************************)
(* The theorems.                                                           *)
(***************************************************************************)

LEMMA AuthorityInit == Init => Authority
<1> SUFFICES ASSUME Init PROVE Authority
  BY Zenon
<1>1. Records
  <2>1. NoApproval \in Approval
    BY Zenon DEF NoApproval, Approval, ApprovalState
  <2>2. 1 \in Times /\ 0 \in 0..MaxFaults
    BY BoundsAssumption DEF Times
  <2> QED
    BY Zenon, <2>1, <2>2, IdleProcOK DEF Init, Records
<1>2. \A p \in Procs : OnItsWay(procs[p], executions) /\ ToRelease(procs[p], approvals)
  BY Zenon, IdleOnItsWay DEF Init
<1>3. \A a \in Actions : RightlyRecorded(a, approvals[a], executions)
  BY Zenon DEF Init, NoApproval, RightlyRecorded
<1>4. SpentOnce
  BY SMTT(40) DEF Init, SpentOnce, Claiming, IdleProc
<1> QED
  BY Zenon, <1>1, <1>2, <1>3, <1>4 DEF Authority

LEMMA AuthorityStep == Authority /\ [Next]_vars => Authority'
  BY Zenon, RecordsStep, HandlersStep, RecordedStep, SpentOnceStep DEF Authority

\* The invariant, in every reachable state.
THEOREM AuthorityHolds == Spec => []Authority
  BY AuthorityInit, AuthorityStep, PTL DEF Spec

LEMMA OnceByAuthority == Authority => AuthorisedOnce
<1> SUFFICES ASSUME Authority PROVE AuthorisedOnce
  BY Zenon
<1>0. /\ Records /\ SpentOnce /\ performed \in [Actions -> Nat]
      /\ approvals \in [Actions -> Approval]
      /\ \A a \in Actions : RightlyRecorded(a, approvals[a], executions)
  BY Zenon DEF Authority, Records
<1>1. ClaimedOnce
  BY Zenon, <1>0 DEF ClaimedOnce, SpentOnce
<1>2. ExecutedOnce
  <2> SUFFICES ASSUME NEW a \in Actions, NEW b \in Actions, a.what = b.what, a # b
               PROVE  /\ ~(/\ IsSpend(a) /\ ByPolicy(a) /\ ByPolicy(b)
                           /\ approvals[a].mandate = approvals[b].mandate)
                      /\ ~(IsTool(a) /\ performed[a] > 0 /\ performed[b] > 0)
    BY Zenon DEF ExecutedOnce
  <2>1. (IsSpend(a) => IsSpend(b)) /\ (IsTool(a) => IsTool(b))
    BY Zenon, ActionsAssumption DEF IsSpend, IsTool
  <2>2. \A m : ExecutionID(m, a) = ExecutionID(m, b)
    BY Zenon DEF ExecutionID
  <2>3. ~(/\ IsSpend(a) /\ ByPolicy(a) /\ ByPolicy(b)
          /\ approvals[a].mandate = approvals[b].mandate)
    BY <1>0, <2>1, <2>2 DEF ByPolicy, RightlyRecorded
  <2>4. ~(IsTool(a) /\ performed[a] > 0 /\ performed[b] > 0)
    BY <1>0, <2>1, <2>2 DEF SpentOnce, RightlyRecorded
  <2> QED
    BY Zenon, <2>3, <2>4
<1>3. OwnerDecides
  <2> SUFFICES ASSUME NEW a \in Actions, performed[a] > 0,
                      \/ a.effect \in {"physical-io", "configuration"}
                      \/ a.derived /\ a.effect = "key-use"
               PROVE  approvals[a].by = "owner"
    BY Zenon DEF OwnerDecides
  <2>1. rank["key-use"] >= rank["key-use"]
    <3>1. rank["key-use"] = 6
      BY Zenon DEF rank, Effects
    <3> QED
      BY <3>1
  <2>2. Evaluate(a) = "require"
    BY Zenon, <2>1 DEF Evaluate
  <2>3. approvals[a].state = "spent"
    BY Zenon, <1>0 DEF SpentOnce
  <2>4. approvals[a].by \notin {"none", "policy"}
    BY Zenon, <1>0, <2>2, <2>3 DEF RightlyRecorded
  <2> QED
    BY Zenon, <1>0, <2>4 DEF Approval
<1> QED
  BY Zenon, <1>1, <1>2, <1>3 DEF AuthorisedOnce

\* A claim is answered "authorised" at most once, one execution identity
\* authorises one action, and what is the owner's to decide was decided by the
\* owner: however many connections race for an approval, however an action is
\* worded, and wherever the process stops (SpendApproval, claimExecution, Evaluate).
THEOREM AuthorityUsedOnce == Spec => []AuthorisedOnce
  BY AuthorityHolds, OnceByAuthority, PTL

\* No step of any process changes what was asked of the owner, takes back a
\* denial, or does anything with a grant but spend it (RequestApproval,
\* RecordAutoAuthorization, decideApproval, SpendApproval).
THEOREM DecisionsStand == Spec => DecisionIsFinal
<1>1. Authority /\ [Next]_vars =>
        [\A a \in Actions :
          LET old == approvals[a]  new == approvals'[a]
          IN  old.state # "none" =>
                 /\ new.by = old.by /\ new.mandate = old.mandate
                 /\ old.state = "pending" => new.state \in {"pending", "granted", "denied"}
                 /\ old.state = "granted" => new.state \in {"granted", "spent"}
                 /\ old.state \in {"denied", "spent"} => new.state = old.state]_vars
  BY Zenon, DecisionStep DEF Authority, Final
<1> QED
  BY <1>1, AuthorityHolds, PTL DEF Spec, DecisionIsFinal

LEMMA TypesByAuthority == Authority => TypeOK
<1> SUFFICES ASSUME Authority PROVE TypeOK
  BY Zenon
<1>0. Records
  BY Zenon DEF Authority
<1>1. ASSUME NEW b \in Budgets PROVE BudgetOK(b)
  <2>1. PICK ids \in SUBSET Purchases : b.reserved \in [ids -> Nat]
    BY Zenon DEF Budgets
  <2>2. DOMAIN b = {"spent", "reserved"} /\ b.spent \in Nat
    BY Zenon DEF Budgets
  <2> QED
    BY Zenon, <2>1, <2>2 DEF BudgetOK
<1>2. ASSUME NEW p \in Procs PROVE ProcOK(p)
  <2> DEFINE q == procs[p]
  <2>1. q \in ProcRecords /\ OnItsWay(q, executions)
    BY Zenon, <1>0 DEF Records, Authority
  <2>2. DOMAIN q = DOMAIN IdleProc
    BY Zenon, <2>1, IdleProcOK DEF ProcRecords
  <2>3. BudgetOK(q.view)
    BY SMTT(40), <1>1, <2>1 DEF ProcRecords
  <2>4. q.pc \in {"open", "create", "request", "claim", "release"} =>
           q.mandate \in Mandates /\ q.action \in Actions /\ IsSpend(q.action)
           /\ q.op \in {"request", "claim", "release"}
    BY Zenon, <2>1 DEF OnItsWay, ProcRecords
  <2>5. q.action \in Actions /\ IsSpend(q.action) => q.action.what \in Purchases
    BY Zenon, ActionsAssumption DEF IsSpend
  <2>6. q.pc # "idle" => q.action \in Actions
    BY Zenon, <2>1 DEF OnItsWay
  <2> QED
    BY Zenon, <2>1, <2>2, <2>3, <2>4, <2>5, <2>6 DEF ProcOK, ProcRecords
<1>3. \A a \in Actions : IsSpend(a) /\ approvals[a].state # "none" =>
          approvals[a].mandate \in Mandates
  BY Zenon DEF Authority, RightlyRecorded
<1>4. DOMAIN ledgers = Mandates /\ \A m \in Mandates : ledgers[m] = None \/ BudgetOK(ledgers[m])
  BY Zenon, <1>0, <1>1 DEF Records
<1> QED
  BY Zenon, <1>0, <1>2, <1>3, <1>4 DEF TypeOK, Records

\* Every stored record and everything a handler holds in memory is of its kind,
\* and a handler at a budget is there for a spend under a mandate.
THEOREM TypesHold == Spec => []TypeOK
  BY AuthorityHolds, TypesByAuthority, PTL

-----------------------------------------------------------------------------
(***************************************************************************)
(* Economic actions. For any actions, senders, crashes and failed writes:  *)
(* what was sent is on record. The action store is one document, in memory *)
(* and on disk, so SendInv says that either is sound (DocumentSound), that *)
(* the disk has submitted what memory has, and that whatever a request     *)
(* sends or has sent is submitted.                                         *)
(***************************************************************************)

ActionStates == {"unknown", "prepared", "submitted", "accepted"}
Fences == {WriterFence[a] : a \in EconomicActions} \cup {NoFence}
Documents == [highWater : Nat, fence : Fences, state : [EconomicActions -> ActionStates]]
SendRequests == [step : {"submit", "send", "accept"}, action : EconomicActions] \cup {Waiting}

OnRecord(d, a) == d.state[a] # "unknown"
Sendable(d, a) == d.state[a] \in {"submitted", "accepted"}

\* What is recorded lies under the high-water, a generation has one fence, and what is
\* accepted was queued.
DocumentSound(d, sent) ==
    /\ d \in Documents
    /\ d.fence = NoFence => \A a \in EconomicActions : ~OnRecord(d, a)
    /\ \A a \in EconomicActions : OnRecord(d, a) =>
          Generation[a] <= d.highWater /\ (Generation[a] = d.highWater => WriterFence[a] = d.fence)
    /\ \A a, b \in EconomicActions : OnRecord(d, a) /\ OnRecord(d, b) =>
          (Generation[a] = Generation[b] => WriterFence[a] = WriterFence[b])
    /\ \A a \in EconomicActions : d.state[a] = "accepted" => a \in sent

\* A request that sends, or has sent, goes by a document that says so.
Covered(request, mem, sent) ==
    /\ request.step \in {"send", "accept"} => Sendable(mem, request.action)
    /\ request.step = "accept" => request.action \in sent

SendInv ==
    /\ queued \subseteq EconomicActions
    /\ sender \in [Senders -> SendRequests]
    /\ DocumentSound(doc, queued) /\ DocumentSound(docFile, queued)
    /\ \A a \in EconomicActions : Sendable(doc, a) => Sendable(docFile, a)
    /\ \A a \in queued : Sendable(doc, a)
    /\ \A s \in Senders : Covered(sender[s], doc, queued)

-----------------------------------------------------------------------------
(* What an operation of the store makes of a document *)

LEMMA AdmittedSound ==
    ASSUME NEW d, NEW sent, NEW a \in EconomicActions,
           DocumentSound(d, sent), Admissible(d, a), d.state[a] = "unknown"
    PROVE  /\ DocumentSound(Admitted(d, a), sent)
           /\ \A b \in EconomicActions : Sendable(d, b) => Sendable(Admitted(d, a), b)
<1> DEFINE new == Admitted(d, a)
<1>0. Generation[a] \in Nat \ {0} /\ WriterFence[a] # NoFence
  BY Zenon, GenerationAssumption
<1>1. d \in Documents
  BY Zenon DEF DocumentSound
<1>2. /\ new.state = [d.state EXCEPT ![a] = "prepared"]
      /\ new.highWater = IF Generation[a] > d.highWater \/ d.fence = NoFence
                         THEN Generation[a] ELSE d.highWater
      /\ new.fence = IF Generation[a] > d.highWater \/ d.fence = NoFence
                     THEN WriterFence[a] ELSE d.fence
      /\ new \in Documents
  BY Zenon, <1>0, <1>1 DEF Admitted, Documents, Fences, ActionStates
<1>3. \A b \in EconomicActions : new.state[b] = IF b = a THEN "prepared" ELSE d.state[b]
  BY Zenon, <1>1, <1>2 DEF Documents
<1> HIDE DEF new
<1>4. new.highWater = Generation[a] /\ new.fence = WriterFence[a]
  BY <1>0, <1>1, <1>2 DEF Admissible, Documents
<1>5. \A b \in EconomicActions : OnRecord(d, b) => Generation[b] <= Generation[a]
  BY <1>0, <1>1, GenerationAssumption DEF DocumentSound, Admissible, Documents
<1>6. \A b \in EconomicActions : OnRecord(d, b) /\ Generation[b] = Generation[a]
        => WriterFence[b] = WriterFence[a]
  BY <1>0, <1>1, GenerationAssumption DEF DocumentSound, Admissible, Documents
<1>7. \A b \in EconomicActions : OnRecord(new, b) => b = a \/ OnRecord(d, b)
  BY Zenon, <1>3 DEF OnRecord
<1>8. DocumentSound(new, sent)
  BY <1>0, <1>2, <1>3, <1>4, <1>5, <1>6, <1>7 DEF DocumentSound
<1> QED
  BY Zenon, <1>3, <1>8 DEF Sendable, new

LEMMA SubmittedSound ==
    ASSUME NEW d, NEW sent, NEW a \in EconomicActions,
           DocumentSound(d, sent), d.state[a] = "prepared"
    PROVE  /\ DocumentSound(Submitted(d, a), sent)
           /\ \A b \in EconomicActions : Sendable(d, b) => Sendable(Submitted(d, a), b)
           /\ Sendable(Submitted(d, a), a)
<1> DEFINE new == Submitted(d, a)
<1>1. d \in Documents
  BY Zenon DEF DocumentSound
<1>2. /\ new.highWater = d.highWater /\ new.fence = d.fence
      /\ new.state = [d.state EXCEPT ![a] = "submitted"]
      /\ new \in Documents
  BY Zenon, <1>1 DEF Submitted, Documents, ActionStates
<1>3. \A b \in EconomicActions : new.state[b] = IF b = a THEN "submitted" ELSE d.state[b]
  BY Zenon, <1>1, <1>2 DEF Documents
<1> HIDE DEF new
<1>4. \A b \in EconomicActions : OnRecord(new, b) <=> OnRecord(d, b)
  BY Zenon, <1>3 DEF OnRecord
<1>5. DocumentSound(new, sent)
  BY Zenon, <1>2, <1>3, <1>4 DEF DocumentSound
<1> QED
  BY Zenon, <1>3, <1>5 DEF Sendable, new

LEMMA AcceptedSound ==
    ASSUME NEW d, NEW sent, NEW a \in EconomicActions,
           DocumentSound(d, sent), a \in sent, OnRecord(d, a)
    PROVE  /\ DocumentSound(Accepted(d, a), sent)
           /\ \A b \in EconomicActions : Sendable(d, b) => Sendable(Accepted(d, a), b)
<1> DEFINE new == Accepted(d, a)
<1>1. d \in Documents
  BY Zenon DEF DocumentSound
<1>2. /\ new.highWater = d.highWater /\ new.fence = d.fence
      /\ new.state = [d.state EXCEPT ![a] = "accepted"]
      /\ new \in Documents
  BY Zenon, <1>1 DEF Accepted, Documents, ActionStates
<1>3. \A b \in EconomicActions : new.state[b] = IF b = a THEN "accepted" ELSE d.state[b]
  BY Zenon, <1>1, <1>2 DEF Documents
<1> HIDE DEF new
<1>4. \A b \in EconomicActions : OnRecord(new, b) <=> OnRecord(d, b)
  BY Zenon, <1>3 DEF OnRecord
<1>5. DocumentSound(new, sent)
  BY Zenon, <1>2, <1>3, <1>4 DEF DocumentSound
<1> QED
  BY Zenon, <1>3, <1>5 DEF Sendable, new

-----------------------------------------------------------------------------
(* One lemma for each action *)

\* A write of the document, whether it succeeds, fails, or fails after the rename.
LEMMA PersistingKeeps ==
    ASSUME SendInv, UNCHANGED queued, NEW s \in Senders, NEW new, NEW then \in SendRequests,
           DocumentSound(new, queued), \A a \in EconomicActions : Sendable(doc, a) => Sendable(new, a),
           Covered(then, new, queued), Persisting(s, new, then)
    PROVE  SendInv'
<1>0. Covered(Waiting, doc, queued) /\ Waiting \in SendRequests
  BY Zenon DEF Covered, Waiting, SendRequests
<1>1. \A t \in Senders : sender[t].step \in {"send", "accept"} => sender[t].action \in EconomicActions
  BY DEF SendInv, SendRequests, Waiting
<1>2. CASE /\ doc' = new /\ docFile' = new /\ sender' = [sender EXCEPT ![s] = then]
  <2>1. \A t \in Senders : Covered(sender'[t], new, queued)
    BY Zenon, <1>1, <1>2 DEF SendInv, Covered
  <2> QED
    BY Zenon, <1>2, <2>1 DEF SendInv
<1>3. CASE /\ docFile' \in {docFile, new} /\ sender' = [sender EXCEPT ![s] = Waiting]
           /\ UNCHANGED doc
  <2>1. \A t \in Senders : Covered(sender'[t], doc, queued)
    BY Zenon, <1>0, <1>3 DEF SendInv
  <2> QED
    BY Zenon, <1>0, <1>3, <2>1 DEF SendInv
<1> QED
  BY Zenon, <1>2, <1>3 DEF Persisting

LEMMA GoKeeps ==
    ASSUME SendInv, NEW s \in Senders, NEW then \in SendRequests, Go(s, then),
           queued' \subseteq EconomicActions, queued \subseteq queued',
           \A a \in queued' : Sendable(doc, a), Covered(then, doc, queued')
    PROVE  SendInv'
<1>1. \A t \in Senders : Covered(sender'[t], doc, queued')
  BY Zenon DEF SendInv, Go, Covered
<1>2. DocumentSound(doc, queued') /\ DocumentSound(docFile, queued')
  BY Zenon DEF SendInv, DocumentSound
<1> QED
  BY Zenon, <1>1, <1>2 DEF SendInv, Go

LEMMA AdmitStep ==
    ASSUME SendInv, NEW s \in Senders, NEW a \in EconomicActions, EconomicAdmit(s, a)
    PROVE  SendInv'
<1>1. \A step \in {"submit", "send", "accept"} : Sending(a, step) \in SendRequests
  BY Zenon DEF Sending, SendRequests
<1>2. CASE doc.state[a] = "prepared" /\ Go(s, Sending(a, "submit"))
  BY Zenon, <1>1, <1>2, GoKeeps DEF SendInv, EconomicAdmit, Covered, Sending
<1>3. CASE doc.state[a] = "submitted" /\ Go(s, Sending(a, "send"))
  <2>1. Covered(Sending(a, "send"), doc, queued')
    BY Zenon, <1>3 DEF Covered, Sending, Sendable
  <2> QED
    BY Zenon, <1>1, <1>3, <2>1, GoKeeps DEF SendInv, EconomicAdmit
<1>4. CASE /\ doc.state[a] = "unknown"
           /\ Persisting(s, Admitted(doc, a), Sending(a, "submit"))
  <2>1. /\ DocumentSound(Admitted(doc, a), queued)
        /\ \A b \in EconomicActions : Sendable(doc, b) => Sendable(Admitted(doc, a), b)
    BY Zenon, <1>4, AdmittedSound DEF SendInv, EconomicAdmit
  <2>2. Covered(Sending(a, "submit"), Admitted(doc, a), queued)
    BY Zenon DEF Covered, Sending
  <2> QED
    BY Zenon, <1>1, <1>4, <2>1, <2>2, PersistingKeeps DEF EconomicAdmit
<1> QED
  BY Zenon, <1>2, <1>3, <1>4 DEF EconomicAdmit

LEMMA EconomicSubmitStep ==
    ASSUME SendInv, NEW s \in Senders, EconomicSubmit(s)
    PROVE  SendInv'
<1> DEFINE a == sender[s].action
<1>1. a \in EconomicActions
  BY DEF SendInv, EconomicSubmit, SendRequests, Waiting
<1>2. Sending(a, "send") \in SendRequests /\ Waiting \in SendRequests
  BY Zenon, <1>1 DEF Sending, SendRequests
<1>3. CASE doc.state[a] = "prepared"
  <2>1. Persisting(s, Submitted(doc, a), Sending(a, "send"))
    BY Zenon, <1>3 DEF EconomicSubmit
  <2>2. /\ DocumentSound(Submitted(doc, a), queued)
        /\ \A b \in EconomicActions : Sendable(doc, b) => Sendable(Submitted(doc, a), b)
        /\ Sendable(Submitted(doc, a), a)
    BY Zenon, <1>1, <1>3, SubmittedSound DEF SendInv
  <2>3. Covered(Sending(a, "send"), Submitted(doc, a), queued)
    BY Zenon, <2>2 DEF Covered, Sending
  <2> QED
    BY Zenon, <1>2, <2>1, <2>2, <2>3, PersistingKeeps DEF EconomicSubmit
<1>4. CASE doc.state[a] # "prepared"
  <2> DEFINE then == IF doc.state[a] = "submitted" THEN Sending(a, "send") ELSE Waiting
  <2>1. Go(s, then)
    BY Zenon, <1>4 DEF EconomicSubmit
  <2>2. Covered(then, doc, queued) /\ then \in SendRequests
    BY Zenon, <1>2 DEF Covered, Sending, Waiting, Sendable
  <2> QED
    BY Zenon, <2>1, <2>2, GoKeeps DEF SendInv, EconomicSubmit
<1> QED
  BY Zenon, <1>3, <1>4

LEMMA SendStep ==
    ASSUME SendInv, NEW s \in Senders, SendDirect(s)
    PROVE  SendInv'
<1> DEFINE a == sender[s].action
<1>1. a \in EconomicActions /\ Sendable(doc, a)
  BY DEF SendInv, SendDirect, SendRequests, Waiting, Covered
<1>2. Sending(a, "accept") \in SendRequests /\ Waiting \in SendRequests
  BY Zenon, <1>1 DEF Sending, SendRequests
<1>3. CASE queued' = queued \cup {a} /\ Go(s, Sending(a, "accept"))
  <2>1. Covered(Sending(a, "accept"), doc, queued')
    BY Zenon, <1>1, <1>3 DEF Covered, Sending
  <2> QED
    BY Zenon, <1>1, <1>2, <1>3, <2>1, GoKeeps DEF SendInv
<1>4. CASE UNCHANGED queued /\ Go(s, Waiting)
  BY Zenon, <1>2, <1>4, GoKeeps DEF SendInv, Covered, Waiting
<1> QED
  BY Zenon, <1>3, <1>4 DEF SendDirect

LEMMA AcceptStep ==
    ASSUME SendInv, NEW s \in Senders, EconomicAccept(s)
    PROVE  SendInv'
<1> DEFINE a == sender[s].action
<1>1. a \in EconomicActions /\ a \in queued
  BY Zenon DEF SendInv, EconomicAccept, SendRequests, Waiting, Covered
<1>2. \A d : Covered(Waiting, d, queued) /\ Waiting \in SendRequests
  BY Zenon DEF Covered, Waiting, SendRequests
<1>3. CASE doc.state[a] \in {"prepared", "submitted"}
  <2>1. Persisting(s, Accepted(doc, a), Waiting)
    BY Zenon, <1>3 DEF EconomicAccept
  <2>2. /\ DocumentSound(Accepted(doc, a), queued)
        /\ \A b \in EconomicActions : Sendable(doc, b) => Sendable(Accepted(doc, a), b)
    BY Zenon, <1>1, <1>3, AcceptedSound DEF SendInv, OnRecord
  <2> QED
    BY Zenon, <1>2, <2>1, <2>2, PersistingKeeps DEF EconomicAccept
<1>4. CASE doc.state[a] \notin {"prepared", "submitted"}
  BY Zenon, <1>2, <1>4, GoKeeps DEF SendInv, EconomicAccept
<1> QED
  BY Zenon, <1>3, <1>4

LEMMA EconomicRestartStep ==
    ASSUME SendInv, EconomicRestart
    PROVE  SendInv'
<1>1. \A s \in Senders : sender'[s] = Waiting
  BY Zenon DEF EconomicRestart
<1>2. Waiting \in SendRequests /\ Covered(Waiting, docFile, queued)
  BY Zenon DEF Covered, Waiting, SendRequests
<1> QED
  BY Zenon, <1>1, <1>2 DEF SendInv, EconomicRestart

LEMMA SendInitially == EconomicInit => SendInv
<1> SUFFICES ASSUME EconomicInit PROVE SendInv
  BY Zenon
<1>1. EmptyDocument \in Documents /\ EmptyDocument.fence = NoFence
      /\ \A a \in EconomicActions : EmptyDocument.state[a] = "unknown"
  BY Zenon DEF EmptyDocument, Documents, Fences, ActionStates
<1>2. DocumentSound(EmptyDocument, {})
  BY Zenon, <1>1 DEF DocumentSound, OnRecord
<1>3. Waiting \in SendRequests /\ Covered(Waiting, EmptyDocument, {})
  BY Zenon DEF Covered, Waiting, SendRequests
<1> QED
  BY Zenon, <1>2, <1>3 DEF EconomicInit, SendInv

\* The inductive invariant, through every failed write and restart.
THEOREM SendInvariant == EconomicSpec => []SendInv
<1>1. SendInv /\ [EconomicNext]_economicVars => SendInv'
  <2> SUFFICES ASSUME SendInv, [EconomicNext]_economicVars PROVE SendInv'
    BY Zenon
  <2>1. CASE UNCHANGED economicVars
    BY Zenon, <2>1 DEF SendInv, economicVars
  <2> QED
    BY Zenon, <2>1, AdmitStep, EconomicSubmitStep, SendStep, AcceptStep, EconomicRestartStep
       DEF EconomicNext
<1> QED
  BY <1>1, SendInitially, PTL DEF EconomicSpec

\* Whatever write fails, before or after the rename, and whenever the daemon is started
\* again: a queued message is on record, under its generation's high-water and under one
\* fence of the generation, and what is accepted was queued (economicSendDirect,
\* persistLocked).
THEOREM SentOnRecord == EconomicSpec => []SentIsOnRecord
<1>1. SendInv => SentIsOnRecord
  <2> SUFFICES ASSUME SendInv PROVE SentIsOnRecord
    BY Zenon
  <2>1. \A a \in queued : a \in EconomicActions /\ Sendable(docFile, a) /\ OnRecord(docFile, a)
    BY Zenon DEF SendInv, Sendable, OnRecord
  <2> QED
    BY Zenon, <2>1 DEF SendInv, DocumentSound, Sendable, SentIsOnRecord, QueuedIsRecorded,
       AcceptedIsQueued, QueuedUnderHighWater, OneFencePerGeneration
<1> QED
  BY <1>1, SendInvariant, PTL

-----------------------------------------------------------------------------
(***************************************************************************)
(* Commands of the owner. For any number of requests, submissions, crashes *)
(* and failed writes: the service and its file journal implement           *)
(* CommandOnce, and a journal cut short at any step can be opened again at *)
(* its high-water.                                                         *)
(*                                                                         *)
(* What the sink did is not on record until its answer is stored, so the   *)
(* proof follows the one request that may ask the sink to act (Acting):    *)
(* there is none before the record says "admitted", there is never a       *)
(* second, and from the moment another request has closed the sink it can  *)
(* no longer do anything.                                                  *)
(***************************************************************************)

(***************************************************************************)
(* The inductive invariant.                                                *)
(***************************************************************************)

\* The files of the journal: without a commit in doubt they all agree; with one,
\* each is where it was or where the commit takes it, the high-water first.
Files ==
    /\ record \in CommandRecords \cup {Nothing}
    /\ meta \in Manifests /\ metaFile \in Manifests /\ highWater \in Manifests
    /\ pending \in PendingCommits \cup {Nothing}
    /\ pending = Nothing =>
          meta = metaFile /\ highWater = metaFile /\ record = metaFile.digest
    /\ pending # Nothing =>
          /\ pending.next.revision = pending.prior + 1
          /\ pending.next.digest # Nothing
          /\ highWater = pending.next \/ (/\ highWater.revision = pending.prior
                                          /\ metaFile.revision = pending.prior)
          /\ metaFile = pending.next \/ metaFile.revision = pending.prior

StatusOf(value) == IF value = Nothing THEN "unknown" ELSE value.state
Status == StatusOf(Recorded)

Begun == {"admitted", "ambiguous"} \cup Terminal

Steps == {"idle", "begin", "fence", "admit", "apply", "terminal", "store", "attach", "recover"}
Outcomes == [from : {"prepared", "admitted", "ambiguous"}, to : {"ambiguous"} \cup Terminal]
Submissions == [step : Steps, seen : CommandRecords \cup {Nothing},
                next : Outcomes \cup {Nothing}]

\* The request asks the sink to act, or has asked and does not know what happened.
Acting(q) == q.step = "apply" \/ (q.step \in {"terminal", "store"} /\ q.next.to = "ambiguous")

\* What a request is about to record is what the sink says or will always say.
Rightful(next, s) ==
    /\ next \in Outcomes
    /\ \/ next.from = "prepared" /\ next.to = "rejected"
       \/ next.from = "admitted" /\ next.to = "ambiguous"
       \/ next.from # "prepared" /\ next.to = "applied" /\ s.effects = 1
       \/ next.from # "prepared" /\ next.to \in {"rejected", "conflict"} /\ s.closed

Course(q, s, status) ==
    /\ q.step \in {"attach", "recover"} => q.seen \in CommandRecords /\ q.seen.state \notin Terminal
    /\ q.step = "store" => q.seen \in CommandRecords
    /\ q.step \in {"terminal", "store"} => Rightful(q.next, s)
    /\ q.step = "apply" => s.effects = 0 /\ (status = "admitted" \/ s.closed)
    /\ Acting(q) => status \in Begun

SinkRight(s, status) ==
    /\ s \in [effects : {0, 1}, closed : BOOLEAN]
    /\ s.closed => s.effects = 0
    /\ s.effects = 1 => status \in Begun

CommandInv ==
    /\ Files
    /\ req \in [Requests -> Submissions]
    /\ SinkRight(sink, Status)
    /\ \A r \in Requests : Course(req[r], sink, Status)
    /\ \A r, t \in Requests : Acting(req[r]) /\ Acting(req[t]) => r = t
    /\ \A r \in Requests : req[r].step = "attach" => record # Nothing

(***************************************************************************)
(* The journal.                                                            *)
(***************************************************************************)

LEMMA RecordedOK ==
    ASSUME Files
    PROVE  Recorded \in CommandRecords \cup {Nothing}
  BY Zenon DEF Files, Recorded, PendingCommits, Manifests

\* A commit, whole or cut short at any of its steps: the files stay in order, and
\* the value is committed to, or nothing is and the request ends.
LEMMA CommitStep ==
    ASSUME Files, NEW r \in Requests, NEW value \in CommandRecords, NEW then,
           commitRecord(r, value, then)
    PROVE  /\ Files' /\ (record # Nothing => record' # Nothing)
           /\ \/ Recorded' = Recorded /\ req' = [req EXCEPT ![r] = AtRest]
              \/ /\ pending = Nothing /\ Recorded' = value
                 /\ \/ req' = [req EXCEPT ![r] = AtRest]
                    \/ req' = [req EXCEPT ![r] = then]
<1> DEFINE next == [revision |-> meta.revision + 1, digest |-> value]
           doubt == [prior |-> meta.revision, next |-> next]
<1>1. CASE pending # Nothing
  BY Zenon, <1>1 DEF commitRecord, journalVars, Files, Recorded
<1>2. CASE pending = Nothing
  <2>1. PICK done \in 0..5 :
          /\ pending' = IF done \in 1..4 THEN doubt ELSE Nothing
          /\ highWater' = IF done >= 2 THEN next ELSE highWater
          /\ record' = IF done >= 3 THEN value ELSE record
          /\ \/ done < 4 /\ meta' = meta
             \/ done >= 3 /\ meta' = next
          /\ metaFile' = IF done >= 4 THEN next ELSE metaFile
          /\ req' = [req EXCEPT ![r] = IF done = 5 THEN then ELSE AtRest]
    BY Zenon, <1>2 DEF commitRecord
  <2>2. /\ meta \in Manifests /\ meta = metaFile /\ highWater = metaFile
        /\ record = metaFile.digest /\ meta.revision \in Nat
    BY Zenon, <1>2 DEF Files, Manifests
  <2>3. next \in Manifests /\ next.revision = meta.revision + 1 /\ next.digest = value
    BY <2>2 DEF Manifests
  <2>4. value # Nothing
    BY Zenon, NothingAssumption
  <2> HIDE DEF next
  <2>5. /\ doubt \in PendingCommits /\ doubt.next = next /\ doubt.prior = meta.revision
        /\ doubt # Nothing
    BY <2>2, <2>3, NothingAssumption DEF PendingCommits
  <2> HIDE DEF doubt
  <2>0. record # Nothing => record' # Nothing
    BY Zenon, <2>1, <2>4
  <2>6. CASE done = 0
    BY <1>2, <2>1, <2>6 DEF Files, Recorded
  <2>7. CASE done \in 1..4
    <3>1. pending' = doubt
      BY Zenon, <2>1, <2>7
    <3>2. Recorded' = value
      BY Zenon, <2>3, <2>5, <3>1 DEF Recorded
    <3>3. req' = [req EXCEPT ![r] = AtRest]
      <4>1. done # 5
        BY <2>7
      <4> QED
        BY Zenon, <2>1, <4>1
    <3>4. /\ highWater' = next \/ (highWater' = highWater /\ metaFile' = metaFile)
          /\ metaFile' = next \/ metaFile' = metaFile
          /\ meta' = meta \/ meta' = next
          /\ record' = value \/ record' = record
      BY <2>1, <2>7
    <3>5. /\ record' \in CommandRecords \cup {Nothing}
          /\ meta' \in Manifests /\ metaFile' \in Manifests /\ highWater' \in Manifests
          /\ pending' \in PendingCommits
      BY Zenon, <2>2, <2>3, <2>5, <3>1, <3>4 DEF Files
    <3>6. /\ pending'.next.revision = pending'.prior + 1
          /\ pending'.next.digest # Nothing
      BY Zenon, <2>3, <2>4, <2>5, <3>1
    <3>7. /\ highWater' = pending'.next \/ (/\ highWater'.revision = pending'.prior
                                            /\ metaFile'.revision = pending'.prior)
          /\ metaFile' = pending'.next \/ metaFile'.revision = pending'.prior
      BY Zenon, <2>2, <2>5, <3>1, <3>4
    <3>8. Files'
      BY Zenon, <2>5, <3>1, <3>5, <3>6, <3>7 DEF Files
    <3> QED
      BY Zenon, <1>2, <2>0, <3>2, <3>3, <3>8
  <2>8. CASE done = 5
    <3>1. /\ pending' = Nothing /\ highWater' = next /\ record' = value /\ meta' = next
          /\ metaFile' = next /\ req' = [req EXCEPT ![r] = then]
      BY <2>1, <2>8
    <3>2. Files'
      BY Zenon, <2>3, <3>1 DEF Files
    <3>3. Recorded' = value
      BY Zenon, <3>1 DEF Recorded
    <3> QED
      BY Zenon, <1>2, <2>0, <3>1, <3>2, <3>3
  <2> QED
    BY <2>0, <2>6, <2>7, <2>8
<1> QED
  BY Zenon, <1>1, <1>2

LEMMA FilesUnchanged ==
    ASSUME Files, UNCHANGED <<record, meta, metaFile, pending, highWater>>
    PROVE  Files' /\ Recorded' = Recorded
  BY Zenon DEF Files, Recorded

\* Reopening completes the commit in doubt and changes nothing that was committed to.
LEMMA ReopenStep ==
    ASSUME Files, ReopenJournal
    PROVE  Files' /\ Recorded' = Recorded /\ (record # Nothing => record' # Nothing)
<1>1. CASE pending = Nothing
  BY Zenon, <1>1 DEF ReopenJournal, Files, Recorded
<1>2. CASE pending # Nothing
  <2>1. pending \in PendingCommits /\ pending.next \in Manifests
        /\ pending.next.digest \in CommandRecords /\ pending.next.digest # Nothing
    BY Zenon, <1>2 DEF Files, PendingCommits, Manifests
  <2>2. /\ pending' = Nothing /\ highWater' = pending.next /\ record' = pending.next.digest
        /\ meta' = pending.next /\ metaFile' = pending.next
    BY Zenon, <1>2 DEF ReopenJournal
  <2>3. Files'
    BY Zenon, <2>1, <2>2 DEF Files
  <2>4. Recorded = pending.next.digest /\ Recorded' = record'
    BY Zenon, <1>2, <2>2 DEF Recorded
  <2> QED
    BY Zenon, <2>1, <2>2, <2>3, <2>4
<1> QED
  BY Zenon, <1>1, <1>2

(***************************************************************************)
(* The requests.                                                           *)
(***************************************************************************)

LEMMA AtRestOK ==
    /\ AtRest \in Submissions /\ ~Acting(AtRest) /\ AtRest.step # "attach"
    /\ \A s, status : Course(AtRest, s, status)
  BY Zenon DEF AtRest, Submissions, Steps, Acting, Course

\* A request that another one's step leaves alone stays right: the sink does not
\* take back what it did, and the record does not become unsettled again while the
\* sink can still act.
LEMMA StaysOnCourse ==
    ASSUME NEW q \in Submissions, NEW s, NEW status, NEW s2, NEW status2,
           Course(q, s, status),
           s.effects = 1 => s2.effects = 1,
           s.closed => s2.closed,
           status \in Begun => status2 \in Begun,
           q.step = "apply" => s2.effects = 0 /\ (status2 = "admitted" \/ s2.closed)
    PROVE  Course(q, s2, status2)
  BY Zenon DEF Course, Rightful

\* One request moves on, and the others stay on course.
LEMMA OneProceeds ==
    ASSUME CommandInv, Files', record # Nothing => record' # Nothing,
           NEW r \in Requests, NEW q \in Submissions,
           req' = [req EXCEPT ![r] = q], q.step = "attach" => record' # Nothing,
           SinkRight(sink', Status'), Course(q, sink', Status'),
           sink.effects = 1 => sink'.effects = 1,
           sink.closed => sink'.closed,
           Status \in Begun => Status' \in Begun,
           \A t \in Requests \ {r} : req[t].step = "apply" =>
              sink'.effects = 0 /\ (Status' = "admitted" \/ sink'.closed),
           Acting(q) => \/ Acting(req[r])
                        \/ \A t \in Requests : ~Acting(req[t])
    PROVE  CommandInv'
<1>1. req \in [Requests -> Submissions]
  BY Zenon DEF CommandInv
<1>2. req' \in [Requests -> Submissions]
  BY Zenon, <1>1
<1>3. req'[r] = q /\ \A t \in Requests : t # r => req'[t] = req[t]
  BY Zenon, <1>1
<1>4. ASSUME NEW t \in Requests PROVE Course(req'[t], sink', Status')
  <2>1. CASE t = r
    BY Zenon, <1>3, <2>1
  <2>2. CASE t # r
    <3>1. Course(req[t], sink, Status) /\ req[t] \in Submissions /\ req'[t] = req[t]
      BY Zenon, <1>1, <1>3, <2>2 DEF CommandInv
    <3>2. req[t].step = "apply" => sink'.effects = 0 /\ (Status' = "admitted" \/ sink'.closed)
      BY Zenon, <2>2
    <3> QED
      BY Zenon, <3>1, <3>2, StaysOnCourse
  <2> QED
    BY Zenon, <2>1, <2>2
<1>5. ASSUME NEW t \in Requests, NEW u \in Requests, Acting(req'[t]), Acting(req'[u])
      PROVE  t = u
  <2>1. \A v, w \in Requests : Acting(req[v]) /\ Acting(req[w]) => v = w
    BY Zenon DEF CommandInv
  <2> QED
    BY <1>3, <1>5, <2>1
<1>6. \A t \in Requests : req'[t].step = "attach" => record' # Nothing
  BY Zenon, <1>3 DEF CommandInv
<1> QED
  BY Zenon, <1>2, <1>4, <1>5, <1>6 DEF CommandInv

\* A request that only reads, asks or gives up changes neither files nor record.
LEMMA ReadingProceeds ==
    ASSUME CommandInv, UNCHANGED <<record, meta, metaFile, pending, highWater, sink>>,
           NEW r \in Requests, NEW q \in Submissions, req' = [req EXCEPT ![r] = q],
           Course(q, sink, Status), Acting(q) => Acting(req[r]),
           q.step = "attach" => record # Nothing
    PROVE  CommandInv' /\ Status' = Status
<1>1. Files' /\ Status' = Status
  BY Zenon, FilesUnchanged DEF CommandInv, Status
<1>2. SinkRight(sink', Status') /\ Course(q, sink', Status')
  BY Zenon, <1>1 DEF CommandInv
<1>3. \A t \in Requests \ {r} : req[t].step = "apply" =>
         sink'.effects = 0 /\ (Status' = "admitted" \/ sink'.closed)
  BY Zenon, <1>1 DEF CommandInv, Course
<1> QED
  BY Zenon, <1>1, <1>2, <1>3, OneProceeds

LEMMA FailProceeds ==
    ASSUME CommandInv, NEW r \in Requests, Fail(r), UNCHANGED sink
    PROVE  CommandInv' /\ Status' = Status
  BY Zenon, AtRestOK, ReadingProceeds DEF Fail, journalVars

\* A request that commits to a value.
LEMMA CommitProceeds ==
    ASSUME CommandInv, UNCHANGED sink, NEW r \in Requests, NEW value \in CommandRecords,
           NEW then \in Submissions, then.step # "attach", commitRecord(r, value, then),
           pending = Nothing =>
              /\ Status \in Begun => value.state \in Begun
              /\ SinkRight(sink, value.state)
              /\ Course(then, sink, value.state)
              /\ Acting(then) => \A t \in Requests : ~Acting(req[t])
              /\ \A t \in Requests \ {r} : req[t].step = "apply" =>
                    value.state = "admitted" \/ sink.closed
    PROVE  CommandInv' /\ (Status' = Status \/ (pending = Nothing /\ Status' = value.state))
<1>0. Files
  BY Zenon DEF CommandInv
<1>1. /\ Files' /\ (record # Nothing => record' # Nothing)
      /\ \/ Recorded' = Recorded /\ req' = [req EXCEPT ![r] = AtRest]
         \/ /\ pending = Nothing /\ Recorded' = value
            /\ \/ req' = [req EXCEPT ![r] = AtRest]
               \/ req' = [req EXCEPT ![r] = then]
  BY Zenon, <1>0, CommitStep
<1>2. \A t \in Requests : req[t].step = "apply" => sink.effects = 0
  BY Zenon DEF CommandInv, Course
<1>3. CASE Recorded' = Recorded /\ req' = [req EXCEPT ![r] = AtRest]
  <2>1. Status' = Status
    BY Zenon, <1>3 DEF Status
  <2>2. SinkRight(sink', Status') /\ Course(AtRest, sink', Status')
    BY Zenon, <2>1, AtRestOK DEF CommandInv
  <2>3. \A t \in Requests \ {r} : req[t].step = "apply" =>
           sink'.effects = 0 /\ (Status' = "admitted" \/ sink'.closed)
    BY Zenon, <2>1 DEF CommandInv, Course
  <2> QED
    BY Zenon, <1>1, <1>3, <2>1, <2>2, <2>3, AtRestOK, OneProceeds
<1>4. CASE pending = Nothing /\ Recorded' = value
  <2>1. Status' = value.state
    BY Zenon, <1>4, NothingAssumption DEF Status, StatusOf
  <2>2. SinkRight(sink', Status') /\ Course(AtRest, sink', Status') /\ Course(then, sink', Status')
    BY Zenon, <1>4, <2>1, AtRestOK
  <2>3. \A t \in Requests \ {r} : req[t].step = "apply" =>
           sink'.effects = 0 /\ (Status' = "admitted" \/ sink'.closed)
    BY Zenon, <1>2, <1>4, <2>1
  <2>4. CASE req' = [req EXCEPT ![r] = AtRest]
    BY Zenon, <1>1, <1>4, <2>1, <2>2, <2>3, <2>4, AtRestOK, OneProceeds
  <2>5. CASE req' = [req EXCEPT ![r] = then]
    BY Zenon, <1>1, <1>4, <2>1, <2>2, <2>3, <2>5, OneProceeds
  <2> QED
    BY Zenon, <1>1, <1>4, <2>1, <2>4, <2>5
<1> QED
  BY Zenon, <1>1, <1>3, <1>4

(***************************************************************************)
(* The actions, and the step of CommandOnce each of them is.               *)
(***************************************************************************)

\* A step of CommandOnce, or none.
Promised(status, effects, status2, effects2) ==
    \/ status2 = status /\ effects2 = effects
    \/ status = "unknown" /\ status2 = "prepared" /\ effects2 = effects
    \/ status = "prepared" /\ status2 \in {"admitted", "rejected"} /\ effects2 = effects
    \/ status = "admitted" /\ status2 = status /\ effects = 0 /\ effects2 = 1
    \/ status = "admitted" /\ status2 = "ambiguous" /\ effects2 = effects
    \/ /\ status \in {"admitted", "ambiguous"} /\ effects2 = effects
       /\ status2 \in IF effects = 1 THEN {"applied"} ELSE {"rejected", "conflict"}

Kept == CommandInv' /\ Promised(Status, sink.effects, Status', sink'.effects)

LEMMA SubmitCommandStep ==
    ASSUME CommandInv, NEW r \in Requests, Submit(r)
    PROVE  Kept
<1> DEFINE a == [req[r] EXCEPT !.step = "begin"]
           b == [req[r] EXCEPT !.step = "attach", !.seen = record]
<1>0. req[r] \in Submissions /\ record \in CommandRecords \cup {Nothing} /\ req[r].step = "idle"
      /\ req \in [Requests -> Submissions]
  BY Zenon DEF CommandInv, Files, Submit, At
<1>1. UNCHANGED <<record, meta, metaFile, pending, highWater, sink>>
  BY Zenon DEF Submit, journalVars
<1>2. CASE req' = [req EXCEPT ![r].step = "begin"]
  <2>1. a \in Submissions /\ a.step = "begin"
    BY Zenon, <1>0 DEF Submissions, Steps
  <2>2. req' = [req EXCEPT ![r] = a]
    BY Zenon, <1>2
  <2> HIDE DEF a
  <2>3. Course(a, sink, Status) /\ ~Acting(a)
    BY Zenon, <2>1 DEF Course, Acting
  <2> QED
    BY Zenon, <1>1, <2>1, <2>2, <2>3, ReadingProceeds DEF Kept, Promised
<1>3. CASE /\ record # Nothing /\ record.state \notin Terminal
           /\ req' = [req EXCEPT ![r].step = "attach", ![r].seen = record]
  <2>1. b \in Submissions /\ b.step = "attach" /\ b.seen = record
    BY Zenon, <1>0 DEF Submissions, Steps
  <2>2. req' = [req EXCEPT ![r] = b]
    BY Zenon, <1>0, <1>3
  <2> HIDE DEF b
  <2>3. Course(b, sink, Status) /\ ~Acting(b)
    BY Zenon, <1>0, <1>3, <2>1 DEF Course, Acting
  <2> QED
    BY Zenon, <1>1, <1>3, <2>1, <2>2, <2>3, ReadingProceeds DEF Kept, Promised
<1> QED
  BY Zenon, <1>2, <1>3 DEF Submit

\* Before the command was admitted nobody acts and nothing was done.
LEMMA NobodyActs ==
    ASSUME CommandInv, Status \in {"unknown", "prepared"}
    PROVE  sink.effects = 0 /\ \A t \in Requests : ~Acting(req[t]) /\ req[t].step # "apply"
<1>1. Status \notin Begun
  BY Zenon DEF Begun, Terminal
<1> QED
  BY Zenon, <1>1 DEF CommandInv, SinkRight, Course, Acting

LEMMA BeginStep ==
    ASSUME CommandInv, NEW r \in Requests, Begin(r)
    PROVE  Kept
<1>1. CASE record # Nothing
  BY Zenon, <1>1, FailProceeds DEF Begin, world, Kept, Promised
<1>2. CASE record = Nothing
  <2> DEFINE value == [state |-> "prepared", history |-> {r}]
             then == [AtRest EXCEPT !.step = "fence"]
  <2>1. commitRecord(r, value, then) /\ UNCHANGED sink
    BY Zenon, <1>2 DEF Begin, world
  <2>2. value \in CommandRecords /\ value.state = "prepared"
    BY Zenon DEF CommandRecords
  <2>3. then \in Submissions /\ then.step = "fence"
    BY Zenon DEF AtRest, Submissions, Steps
  <2> HIDE DEF value, then
  <2>4. pending = Nothing => Status = "unknown"
    BY Zenon, <1>2 DEF Status, StatusOf, Recorded
  <2>5. Course(then, sink, "prepared") /\ ~Acting(then)
    BY Zenon, <2>3 DEF Course, Acting
  <2>6. Status = "unknown" => /\ Status \notin Begun /\ SinkRight(sink, "prepared")
                              /\ \A t \in Requests : req[t].step # "apply"
    BY Zenon, NobodyActs DEF Begun, Terminal, CommandInv, SinkRight
  <2>7. CommandInv' /\ (Status' = Status \/ (pending = Nothing /\ Status' = "prepared"))
    BY Zenon, <2>1, <2>2, <2>3, <2>4, <2>5, <2>6, CommitProceeds
  <2> QED
    BY Zenon, <2>1, <2>4, <2>7 DEF Kept, Promised
<1> QED
  BY Zenon, <1>1, <1>2

LEMMA FenceStep ==
    ASSUME CommandInv, NEW r \in Requests, Fence(r)
    PROVE  Kept
<1> DEFINE refused == [from |-> "prepared", to |-> "rejected"]
           a == [req[r] EXCEPT !.step = "admit"]
           b == [req[r] EXCEPT !.step = "terminal", !.next = refused]
<1>0. req[r] \in Submissions /\ req \in [Requests -> Submissions]
  BY Zenon DEF CommandInv
<1>1. UNCHANGED <<record, meta, metaFile, pending, highWater, sink>>
  BY Zenon DEF Fence, journalVars, world
<1>2. req' = [req EXCEPT ![r] = a] \/ req' = [req EXCEPT ![r] = b]
  BY Zenon, <1>0 DEF Fence
<1>3. a \in Submissions /\ a.step = "admit"
  BY Zenon, <1>0 DEF Submissions, Steps
<1>4. refused \in Outcomes /\ Rightful(refused, sink) /\ refused.to # "ambiguous"
  BY Zenon DEF Outcomes, Rightful, Terminal
<1> HIDE DEF refused
<1>5. b \in Submissions /\ b.step = "terminal" /\ b.next = refused
  BY Zenon, <1>0, <1>4 DEF Submissions, Steps
<1> HIDE DEF a, b
<1>6. Course(a, sink, Status) /\ ~Acting(a)
  BY Zenon, <1>3 DEF Course, Acting
<1>7. Course(b, sink, Status) /\ ~Acting(b)
  BY Zenon, <1>4, <1>5 DEF Course, Acting
<1> QED
  BY Zenon, <1>1, <1>2, <1>3, <1>5, <1>6, <1>7, ReadingProceeds DEF Kept, Promised

LEMMA AdmittingStep ==
    ASSUME CommandInv, NEW r \in Requests, Admitting(r)
    PROVE  Kept
<1> DEFINE value == [state |-> "admitted", history |-> {r}]
           then == [AtRest EXCEPT !.step = "apply"]
<1>1. UNCHANGED sink /\ Transition(r, "prepared", value, then)
  BY Zenon DEF Admitting, world
<1>2. CASE Fail(r)
  BY Zenon, <1>1, <1>2, FailProceeds DEF Kept, Promised
<1>3. CASE record # Nothing /\ record.state = "prepared" /\ commitRecord(r, value, then)
  <2>1. value \in CommandRecords /\ value.state = "admitted"
    BY Zenon DEF CommandRecords
  <2>2. then \in Submissions /\ then.step = "apply"
    BY Zenon DEF AtRest, Submissions, Steps
  <2>3. commitRecord(r, value, then)
    BY Zenon, <1>3
  <2> HIDE DEF value, then
  <2>4. pending = Nothing => Status = "prepared"
    BY Zenon, <1>3 DEF Status, StatusOf, Recorded
  <2>5. "admitted" \in Begun
    BY Zenon DEF Begun
  <2>6. Status = "prepared" => /\ sink.effects = 0 /\ SinkRight(sink, "admitted")
                               /\ \A t \in Requests : ~Acting(req[t])
    BY Zenon, <2>5, NobodyActs DEF CommandInv, SinkRight
  <2>7. Status = "prepared" => Course(then, sink, "admitted")
    BY Zenon, <2>2, <2>5, <2>6 DEF Course
  <2>8. CommandInv' /\ (Status' = Status \/ (pending = Nothing /\ Status' = "admitted"))
    BY Zenon, <1>1, <2>1, <2>2, <2>3, <2>4, <2>5, <2>6, <2>7, CommitProceeds
  <2> QED
    BY Zenon, <1>1, <2>4, <2>8 DEF Kept, Promised
<1> QED
  BY Zenon, <1>1, <1>2, <1>3 DEF Transition

LEMMA ApplyStep ==
    ASSUME CommandInv, SinkCloses, NEW r \in Requests, Apply(r)
    PROVE  Kept
<1>0. /\ req[r] \in Submissions /\ req \in [Requests -> Submissions]
      /\ req[r].step = "apply" /\ Acting(req[r])
      /\ sink \in [effects : {0, 1}, closed : BOOLEAN]
  BY Zenon DEF CommandInv, SinkRight, Apply, At, Acting
<1>1. sink.effects = 0 /\ (Status = "admitted" \/ sink.closed) /\ Status \in Begun
  BY Zenon, <1>0 DEF CommandInv, Course
<1>2. Files' /\ Status' = Status /\ record' = record
  BY Zenon, FilesUnchanged DEF CommandInv, Status, Apply, journalVars
<1>3. PICK acts \in BOOLEAN, answers \in BOOLEAN :
         /\ acts => ~(SinkCloses /\ sink.closed)
         /\ sink' = IF acts THEN [sink EXCEPT !.effects = @ + 1] ELSE sink
         /\ req' = [req EXCEPT ![r].step = "terminal", ![r].next =
                      [from |-> "admitted",
                       to |-> IF acts /\ answers THEN "applied" ELSE "ambiguous"]]
  BY Zenon DEF Apply
<1> DEFINE outcome == [from |-> "admitted",
                       to |-> IF acts /\ answers THEN "applied" ELSE "ambiguous"]
           q == [req[r] EXCEPT !.step = "terminal", !.next = outcome]
<1>4. /\ outcome \in Outcomes /\ outcome.from = "admitted"
      /\ outcome.to = IF acts /\ answers THEN "applied" ELSE "ambiguous"
  BY Zenon DEF Outcomes, Terminal
<1>5. req' = [req EXCEPT ![r] = q]
  BY Zenon, <1>0, <1>3
<1> HIDE DEF outcome
<1>6. q \in Submissions /\ q.step = "terminal" /\ q.next = outcome
  BY Zenon, <1>0, <1>4 DEF Submissions, Steps
<1> HIDE DEF q
<1>7. \A t \in Requests \ {r} : req[t].step # "apply"
  BY Zenon, <1>0 DEF CommandInv, Acting
<1>8. CASE acts
  <2>1. ~sink.closed /\ Status = "admitted"
    BY Zenon, <1>1, <1>3, <1>8
  <2>2. sink' \in [effects : {0, 1}, closed : BOOLEAN] /\ sink'.effects = 1 /\ ~sink'.closed
    BY <1>0, <1>1, <1>3, <1>8, <2>1
  <2>3. SinkRight(sink', Status')
    BY Zenon, <1>1, <1>2, <2>2 DEF SinkRight
  <2>4. Rightful(outcome, sink')
    BY Zenon, <1>4, <2>2 DEF Rightful
  <2>5. Course(q, sink', Status')
    BY Zenon, <1>1, <1>2, <1>6, <2>4 DEF Course
  <2>6. CommandInv'
    BY Zenon, <1>0, <1>2, <1>5, <1>6, <1>7, <2>1, <2>2, <2>3, <2>5, OneProceeds
  <2> QED
    BY Zenon, <1>1, <1>2, <2>1, <2>2, <2>6 DEF Kept, Promised
<1>9. CASE ~acts
  <2>1. sink' = sink /\ outcome.to = "ambiguous"
    BY Zenon, <1>3, <1>4, <1>9
  <2>2. SinkRight(sink', Status')
    BY Zenon, <1>2, <2>1 DEF CommandInv
  <2>3. Rightful(outcome, sink')
    BY Zenon, <1>4, <2>1 DEF Rightful
  <2>4. Course(q, sink', Status')
    BY Zenon, <1>1, <1>2, <1>6, <2>3 DEF Course
  <2>5. CommandInv'
    BY Zenon, <1>0, <1>2, <1>5, <1>6, <1>7, <2>1, <2>2, <2>4, OneProceeds
  <2> QED
    BY Zenon, <1>2, <2>1, <2>5 DEF Kept, Promised
<1> QED
  BY Zenon, <1>8, <1>9

LEMMA StoreTerminalStep ==
    ASSUME CommandInv, NEW r \in Requests, StoreTerminal(r)
    PROVE  Kept
<1>0. UNCHANGED sink
  BY Zenon DEF StoreTerminal, world
<1>1. CASE Fail(r)
  BY Zenon, <1>0, <1>1, FailProceeds DEF Kept, Promised
<1>2. CASE /\ record # Nothing /\ UNCHANGED journalVars
           /\ req' = [req EXCEPT ![r].step = "store", ![r].seen = record]
  <2> DEFINE q == [req[r] EXCEPT !.step = "store", !.seen = record]
  <2>1. req[r] \in Submissions /\ req \in [Requests -> Submissions]
        /\ record \in CommandRecords /\ req[r].step = "terminal" /\ Course(req[r], sink, Status)
    BY Zenon, <1>2 DEF CommandInv, Files, StoreTerminal, At
  <2>2. req' = [req EXCEPT ![r] = q]
    BY Zenon, <1>2, <2>1
  <2>3. q \in Submissions /\ q.step = "store" /\ q.seen = record /\ q.next = req[r].next
    BY Zenon, <2>1 DEF Submissions, Steps
  <2> HIDE DEF q
  <2>4. Course(q, sink, Status) /\ (Acting(q) => Acting(req[r]))
    BY Zenon, <2>1, <2>3 DEF Course, Acting
  <2> QED
    BY Zenon, <1>0, <1>2, <2>2, <2>3, <2>4, ReadingProceeds DEF journalVars, Kept, Promised
<1> QED
  BY Zenon, <1>1, <1>2 DEF StoreTerminal

LEMMA StoreTransitionStep ==
    ASSUME CommandInv, NEW r \in Requests, StoreTransition(r)
    PROVE  Kept
<1> DEFINE next == req[r].next
           value == [state |-> next.to, history |-> req[r].seen.history]
<1>1. UNCHANGED sink /\ Transition(r, next.from, value, AtRest)
  BY Zenon DEF StoreTransition, world
<1>2. req[r].step = "store" /\ req[r].seen \in CommandRecords /\ Rightful(next, sink)
  BY Zenon DEF StoreTransition, At, CommandInv, Course
<1>3. CASE Fail(r)
  BY Zenon, <1>1, <1>3, FailProceeds DEF Kept, Promised
<1>4. CASE record # Nothing /\ record.state = next.from /\ commitRecord(r, value, AtRest)
  <2>1. next \in Outcomes
    BY Zenon, <1>2 DEF Rightful
  <2>2. value \in CommandRecords /\ value.state = next.to
    BY Zenon, <1>2, <2>1 DEF CommandRecords, Outcomes
  <2>3. commitRecord(r, value, AtRest)
    BY Zenon, <1>4
  <2>4. next.to \in Begun
    BY Zenon, <2>1 DEF Outcomes, Begun
  <2>5. SinkRight(sink, next.to)
    BY Zenon, <2>4 DEF CommandInv, SinkRight
  <2>6. pending = Nothing => Status = next.from
    BY Zenon, <1>4 DEF Status, StatusOf, Recorded
  <2>7. ASSUME NEW t \in Requests \ {r}, req[t].step = "apply", pending = Nothing
        PROVE  next.to = "admitted" \/ sink.closed
    <3>1. sink.effects = 0 /\ Acting(req[t]) /\ Status \in Begun
      BY Zenon, <2>7 DEF CommandInv, Course, Acting
    <3>2. ~Acting(req[r])
      BY Zenon, <2>7, <3>1 DEF CommandInv
    <3>3. next.to # "ambiguous"
      BY Zenon, <1>2, <3>2 DEF Acting
    <3>4. next.from # "prepared"
      BY Zenon, <2>6, <2>7, <3>1 DEF Begun, Terminal
    <3> QED
      BY <1>2, <3>1, <3>3, <3>4 DEF Rightful
  <2> HIDE DEF value, next
  <2>8. CommandInv' /\ (Status' = Status \/ (pending = Nothing /\ Status' = next.to))
    BY Zenon, <1>1, <2>2, <2>3, <2>4, <2>5, <2>7, AtRestOK, CommitProceeds
  <2>9. Promised(next.from, sink.effects, next.to, sink.effects)
    <3>1. sink.closed => sink.effects = 0
      BY Zenon DEF CommandInv, SinkRight
    <3> QED
      BY <1>2, <2>1, <3>1 DEF Rightful, Promised, Outcomes
  <2> QED
    BY Zenon, <1>1, <2>6, <2>8, <2>9 DEF Kept, Promised
<1> QED
  BY Zenon, <1>1, <1>3, <1>4 DEF Transition

LEMMA AttachStep ==
    ASSUME CommandInv, NEW r \in Requests, Attach(r)
    PROVE  Kept
<1> DEFINE seen == req[r].seen
           value == [seen EXCEPT !.history = @ \cup {r}]
           q == [req[r] EXCEPT !.step = "recover"]
           then == [req[r] EXCEPT !.step = "recover", !.seen = value]
<1>0. UNCHANGED sink /\ req[r] \in Submissions /\ req \in [Requests -> Submissions]
      /\ seen \in CommandRecords /\ seen.state \notin Terminal
  BY Zenon DEF Attach, At, world, CommandInv, Course
<1>1. value \in CommandRecords /\ value.state = seen.state
  BY Zenon, <1>0 DEF CommandRecords
<1>2. CASE Fail(r)
  BY Zenon, <1>0, <1>2, FailProceeds DEF Kept, Promised
<1>3. CASE req' = [req EXCEPT ![r].step = "recover"] /\ UNCHANGED journalVars
  <2>1. req' = [req EXCEPT ![r] = q]
    BY Zenon, <1>3
  <2>2. q \in Submissions /\ q.step = "recover" /\ q.seen = seen
    BY Zenon, <1>0 DEF Submissions, Steps
  <2> HIDE DEF q
  <2>3. Course(q, sink, Status) /\ ~Acting(q)
    BY Zenon, <1>0, <2>2 DEF Course, Acting
  <2> QED
    BY Zenon, <1>0, <1>3, <2>1, <2>2, <2>3, ReadingProceeds DEF journalVars, Kept, Promised
<1>4. CASE /\ record = meta.digest /\ record.state = seen.state
           /\ commitRecord(r, value, then)
  <2>1. commitRecord(r, value, then)
    BY Zenon, <1>4
  <2> HIDE DEF value
  <2>2. then \in Submissions /\ then.step = "recover" /\ then.seen = value
    BY Zenon, <1>0, <1>1 DEF Submissions, Steps
  <2> HIDE DEF then
  <2>3. Course(then, sink, value.state) /\ ~Acting(then)
    BY Zenon, <1>0, <1>1, <2>2 DEF Course, Acting
  <2>4. record # Nothing
    BY Zenon DEF CommandInv, Attach, At
  <2>5. pending = Nothing => Status = value.state
    BY Zenon, <1>1, <1>4, <2>4 DEF Status, StatusOf, Recorded
  <2>6. ASSUME NEW t \in Requests, req[t].step = "apply"
        PROVE  Status = "admitted" \/ sink.closed
    BY Zenon, <2>6 DEF CommandInv, Course
  <2>7. SinkRight(sink, Status)
    BY Zenon DEF CommandInv
  <2>8. CommandInv' /\ (Status' = Status \/ (pending = Nothing /\ Status' = value.state))
    BY Zenon, <1>0, <1>1, <2>1, <2>2, <2>3, <2>5, <2>6, <2>7, CommitProceeds
  <2> QED
    BY Zenon, <1>0, <2>5, <2>8 DEF Kept, Promised
<1> QED
  BY Zenon, <1>2, <1>3, <1>4 DEF Attach, JournalReadable

LEMMA RecoverStep ==
    ASSUME CommandInv, NEW r \in Requests, Recover(r)
    PROVE  Kept
<1> DEFINE from == req[r].seen.state
           Stored(q, to) == /\ q \in Submissions /\ q.step = "terminal"
                            /\ q.next.from = from /\ q.next.to = to /\ q.next \in Outcomes
<1>0. /\ req[r] \in Submissions /\ req \in [Requests -> Submissions] /\ ~Acting(req[r])
      /\ from \in {"prepared", "admitted", "ambiguous"}
      /\ sink \in [effects : {0, 1}, closed : BOOLEAN]
  BY Zenon DEF CommandInv, SinkRight, Course, Recover, At, CommandRecords, Acting
<1>1. Files' /\ Status' = Status /\ record' = record
      /\ UNCHANGED <<record, meta, metaFile, pending, highWater>>
  BY Zenon, FilesUnchanged DEF CommandInv, Status, Recover, journalVars
<1>2. ASSUME NEW to \in Terminal,
             req' = [req EXCEPT ![r].step = "terminal", ![r].next = [from |-> from, to |-> to]]
      PROVE  \E q : req' = [req EXCEPT ![r] = q] /\ Stored(q, to)
  <2> DEFINE next == [from |-> from, to |-> to]
             q == [req[r] EXCEPT !.step = "terminal", !.next = next]
  <2>1. next \in Outcomes /\ next.from = from /\ next.to = to
    BY Zenon, <1>0 DEF Outcomes
  <2>2. req' = [req EXCEPT ![r] = q]
    BY Zenon, <1>0, <1>2
  <2> HIDE DEF next
  <2>3. q \in Submissions /\ q.step = "terminal" /\ q.next = next
    BY Zenon, <1>0, <2>1 DEF Submissions, Steps
  <2> QED
    BY Zenon, <2>1, <2>2, <2>3
<1> HIDE DEF from
<1>3. ASSUME NEW to \in Terminal, UNCHANGED sink,
             req' = [req EXCEPT ![r].step = "terminal", ![r].next = [from |-> from, to |-> to]],
             \/ from = "prepared" /\ to = "rejected"
             \/ from # "prepared" /\ to = "applied" /\ sink.effects = 1
      PROVE  Kept
  <2>1. PICK q : req' = [req EXCEPT ![r] = q] /\ Stored(q, to)
    BY Zenon, <1>2, <1>3
  <2>2. Rightful(q.next, sink) /\ q.next.to # "ambiguous"
    BY Zenon, <1>3, <2>1 DEF Rightful, Terminal
  <2>3. Course(q, sink, Status) /\ ~Acting(q)
    BY Zenon, <2>1, <2>2 DEF Course, Acting
  <2> QED
    BY Zenon, <1>1, <1>3, <2>1, <2>3, ReadingProceeds DEF Kept, Promised
<1>4. ASSUME NEW to \in {"rejected", "conflict"}, from # "prepared", sink.effects = 0,
             sink' = [sink EXCEPT !.closed = TRUE],
             req' = [req EXCEPT ![r].step = "terminal", ![r].next = [from |-> from, to |-> to]]
      PROVE  Kept
  <2>1. PICK q : req' = [req EXCEPT ![r] = q] /\ Stored(q, to)
    BY Zenon, <1>2, <1>4 DEF Terminal
  <2>2. /\ sink' \in [effects : {0, 1}, closed : BOOLEAN] /\ sink'.effects = 0 /\ sink'.closed
        /\ sink'.effects = sink.effects
    BY Zenon, <1>0, <1>4
  <2>3. SinkRight(sink', Status')
    BY <2>2 DEF SinkRight
  <2>4. Rightful(q.next, sink') /\ q.next.to # "ambiguous"
    BY Zenon, <1>4, <2>1, <2>2 DEF Rightful
  <2>5. Course(q, sink', Status') /\ ~Acting(q)
    BY Zenon, <2>1, <2>4 DEF Course, Acting
  <2>6. CommandInv'
    BY Zenon, <1>1, <1>4, <2>1, <2>2, <2>3, <2>5, OneProceeds
  <2> QED
    BY Zenon, <1>1, <2>2, <2>6 DEF Kept, Promised
<1>5. CASE req' = [req EXCEPT ![r] = AtRest] /\ UNCHANGED sink
  BY Zenon, <1>1, <1>5, AtRestOK, ReadingProceeds DEF Kept, Promised
<1>6. sink.effects > 0 => sink.effects = 1
  BY <1>0
<1> QED
  BY Zenon, <1>3, <1>4, <1>5, <1>6 DEF Recover, from, Terminal

\* A step in which no request takes part.
LEMMA ElsewhereStep ==
    ASSUME CommandInv,
           \/ CommandCrash \/ ReopenJournal \/ FailOver \/ CommandExpires
           \/ UNCHANGED ownerCommandVars
    PROVE  Kept
<1>0. Files /\ req \in [Requests -> Submissions]
  BY Zenon DEF CommandInv
<1>1. Files' /\ Recorded' = Recorded /\ (record # Nothing => record' # Nothing)
  <2>1. CASE ReopenJournal
    BY Zenon, <1>0, <2>1, ReopenStep
  <2>2. CASE UNCHANGED <<record, meta, metaFile, pending, highWater>>
    BY Zenon, <1>0, <2>2, FilesUnchanged
  <2> QED
    BY Zenon, <2>1, <2>2 DEF CommandCrash, FailOver, CommandExpires, ownerCommandVars, journalVars
<1>2. Status' = Status
  BY Zenon, <1>1 DEF Status
<1>3. UNCHANGED sink
  BY Zenon DEF CommandCrash, ReopenJournal, FailOver, CommandExpires, ownerCommandVars
<1>4. req' = req \/ req' = [r \in Requests |-> AtRest]
  BY Zenon DEF CommandCrash, ReopenJournal, FailOver, CommandExpires, ownerCommandVars
<1>5. CASE req' = req
  BY Zenon, <1>1, <1>2, <1>3, <1>5 DEF CommandInv, Kept, Promised
<1>6. CASE req' = [r \in Requests |-> AtRest]
  <2>1. req' \in [Requests -> Submissions]
    BY Zenon, <1>6, AtRestOK
  <2>2. \A r \in Requests : req'[r] = AtRest
    BY Zenon, <1>6
  <2>3. SinkRight(sink', Status')
    BY Zenon, <1>2, <1>3 DEF CommandInv
  <2> QED
    BY Zenon, <1>1, <1>2, <1>3, <2>1, <2>2, <2>3, AtRestOK DEF CommandInv, Kept, Promised
<1> QED
  BY Zenon, <1>4, <1>5, <1>6

LEMMA CommandStep ==
    ASSUME SinkCloses, CommandInv, [OwnerCommandNext]_ownerCommandVars
    PROVE  Kept
  BY Zenon, SubmitCommandStep, BeginStep, FenceStep, AdmittingStep, ApplyStep, StoreTerminalStep,
     StoreTransitionStep, AttachStep, RecoverStep, ElsewhereStep DEF OwnerCommandNext

LEMMA CommandInvInit == OwnerCommandInit => CommandInv
<1> SUFFICES ASSUME OwnerCommandInit PROVE CommandInv
  BY Zenon
<1>1. Files
  BY Zenon DEF OwnerCommandInit, Files, Manifests
<1>2. req \in [Requests -> Submissions] /\ \A r \in Requests : req[r] = AtRest
  BY Zenon, AtRestOK DEF OwnerCommandInit
<1>3. SinkRight(sink, Status)
  BY DEF OwnerCommandInit, SinkRight
<1> QED
  BY Zenon, <1>1, <1>2, <1>3, AtRestOK DEF CommandInv

(***************************************************************************)
(* The theorems.                                                           *)
(***************************************************************************)

\* The invariant, in every reachable state, when the sink keeps its word.
THEOREM CommandInvariant == ASSUME SinkCloses PROVE OwnerCommandSpec => []CommandInv
<1>1. CommandInv /\ [OwnerCommandNext]_ownerCommandVars => CommandInv'
  BY Zenon, CommandStep DEF Kept
<1> QED
  BY <1>1, CommandInvInit, PTL DEF OwnerCommandSpec

\* However often the command is submitted, whatever requests overlap, crash or fail
\* at any write of the journal, and whoever the sink's authority fails over to: it
\* takes effect at most once, only after it was admitted, and what is finally
\* recorded is what happened (Service.Submit, recover, FileJournal).  The sink has
\* to refuse what it once reported as rejected.
THEOREM CommandTakesEffectOnce ==
    ASSUME SinkCloses PROVE OwnerCommandSpec => TakesEffectOnce
<1>1. OwnerCommandInit => Promise!CommandInit
  BY DEF OwnerCommandInit, Promise!CommandInit, Recorded
<1>2. CommandInv /\ [OwnerCommandNext]_ownerCommandVars
      => [Promise!CommandNext]_(Promise!commandVars)
  <2> SUFFICES ASSUME CommandInv, [OwnerCommandNext]_ownerCommandVars
               PROVE  [Promise!CommandNext]_(Promise!commandVars)
    BY Zenon
  <2>1. Promised(Status, sink.effects, Status', sink'.effects)
    BY Zenon, CommandStep DEF Kept
  <2> QED
    BY Zenon, <2>1 DEF Promised, Status, StatusOf, Promise!CommandNext, Promise!commandVars,
                Promise!Prepare, Promise!Admit, Promise!Refuse, Promise!TakeEffect,
                Promise!Doubt, Promise!Resolve
<1> QED
  BY <1>1, <1>2, CommandInvariant, PTL DEF OwnerCommandSpec, TakesEffectOnce, Promise!CommandSpec

(***************************************************************************)
(* Reopening does not depend on the sink, and neither does its proof: all  *)
(* it needs of the requests is that what they commit is a record.          *)
(***************************************************************************)

Shaped(q) ==
    /\ q \in Submissions
    /\ q.step \in {"attach", "recover"} => q.seen \in CommandRecords /\ q.seen.state \notin Terminal
    /\ q.step = "store" => q.seen \in CommandRecords
    /\ q.step \in {"terminal", "store"} => q.next \in Outcomes

JournalInv == Files /\ DOMAIN req = Requests /\ \A r \in Requests : Shaped(req[r])

LEMMA AtRestShaped == Shaped(AtRest)
  BY Zenon, AtRestOK DEF Shaped, AtRest

LEMMA OneShaped ==
    ASSUME JournalInv, Files', NEW r \in Requests, NEW q, Shaped(q), req' = [req EXCEPT ![r] = q]
    PROVE  JournalInv'
  BY Zenon DEF JournalInv

LEMMA StillFiles ==
    ASSUME JournalInv, UNCHANGED journalVars
    PROVE  Files'
  BY Zenon, FilesUnchanged DEF JournalInv, journalVars

LEMMA FailShaped ==
    ASSUME JournalInv, NEW r \in Requests, Fail(r)
    PROVE  JournalInv'
  BY Zenon, AtRestShaped, StillFiles, OneShaped DEF Fail

LEMMA CommitShaped ==
    ASSUME JournalInv, NEW r \in Requests, NEW value \in CommandRecords, NEW then, Shaped(then),
           commitRecord(r, value, then)
    PROVE  JournalInv'
<1>1. Files' /\ (req' = [req EXCEPT ![r] = AtRest] \/ req' = [req EXCEPT ![r] = then])
  BY Zenon, CommitStep DEF JournalInv
<1> QED
  BY Zenon, <1>1, AtRestShaped, OneShaped

LEMMA JournalStep ==
    ASSUME JournalInv, [OwnerCommandNext]_ownerCommandVars
    PROVE  JournalInv'
<1>0. Files /\ DOMAIN req = Requests /\ \A r \in Requests : Shaped(req[r]) /\ req[r] \in Submissions
  BY Zenon DEF JournalInv, Shaped
<1>1. ASSUME NEW r \in Requests, NEW step \in {"begin", "admit"},
             UNCHANGED journalVars, req' = [req EXCEPT ![r] = [req[r] EXCEPT !.step = step]]
      PROVE  JournalInv'
  <2> DEFINE q == [req[r] EXCEPT !.step = step]
  <2>1. q \in Submissions /\ q.step = step
    BY Zenon, <1>0 DEF Submissions, Steps
  <2>2. Shaped(q)
    BY Zenon, <2>1 DEF Shaped
  <2> QED
    BY Zenon, <1>1, <2>2, StillFiles, OneShaped
<1>2. ASSUME NEW r \in Requests, NEW seen \in CommandRecords, NEW step \in {"attach", "store"},
             step = "attach" => seen.state \notin Terminal,
             step = "store" => req[r].next \in Outcomes,
             UNCHANGED journalVars,
             req' = [req EXCEPT ![r] = [req[r] EXCEPT !.step = step, !.seen = seen]]
      PROVE  JournalInv'
  <2> DEFINE q == [req[r] EXCEPT !.step = step, !.seen = seen]
  <2>1. q \in Submissions /\ q.step = step /\ q.seen = seen /\ q.next = req[r].next
    BY Zenon, <1>0 DEF Submissions, Steps
  <2>2. Shaped(q)
    BY Zenon, <1>2, <2>1 DEF Shaped
  <2> QED
    BY Zenon, <1>2, <2>2, StillFiles, OneShaped
<1>3. ASSUME NEW r \in Requests, NEW next \in Outcomes, UNCHANGED journalVars,
             req' = [req EXCEPT ![r] = [req[r] EXCEPT !.step = "terminal", !.next = next]]
      PROVE  JournalInv'
  <2> DEFINE q == [req[r] EXCEPT !.step = "terminal", !.next = next]
  <2>1. q \in Submissions /\ q.step = "terminal" /\ q.next = next
    BY Zenon, <1>0 DEF Submissions, Steps
  <2>2. Shaped(q)
    BY Zenon, <2>1 DEF Shaped
  <2> QED
    BY Zenon, <1>3, <2>2, StillFiles, OneShaped
<1>4. ASSUME NEW r \in Requests, Submit(r)
      PROVE  JournalInv'
  <2>1. UNCHANGED journalVars /\ record \in CommandRecords \cup {Nothing}
    BY Zenon, <1>0, <1>4 DEF Submit, Files
  <2>2. CASE req' = [req EXCEPT ![r].step = "begin"]
    BY Zenon, <1>1, <2>1, <2>2
  <2>3. CASE /\ record # Nothing /\ record.state \notin Terminal
             /\ req' = [req EXCEPT ![r].step = "attach", ![r].seen = record]
    <3>1. req' = [req EXCEPT ![r] = [req[r] EXCEPT !.step = "attach", !.seen = record]]
      BY Zenon, <1>0, <2>3
    <3> QED
      BY Zenon, <1>2, <2>1, <2>3, <3>1
  <2> QED
    BY Zenon, <1>4, <2>2, <2>3 DEF Submit
<1>5. ASSUME NEW r \in Requests, Begin(r)
      PROVE  JournalInv'
  <2> DEFINE value == [state |-> "prepared", history |-> {r}]
             then == [AtRest EXCEPT !.step = "fence"]
  <2>1. value \in CommandRecords
    BY Zenon DEF CommandRecords
  <2>2. Shaped(then)
    BY Zenon DEF Shaped, AtRest, Submissions, Steps
  <2>3. Fail(r) \/ commitRecord(r, value, then)
    BY Zenon, <1>5 DEF Begin
  <2> HIDE DEF value, then
  <2> QED
    BY Zenon, <2>1, <2>2, <2>3, FailShaped, CommitShaped
<1>6. ASSUME NEW r \in Requests, Fence(r)
      PROVE  JournalInv'
  <2> DEFINE refused == [from |-> "prepared", to |-> "rejected"]
  <2>1. refused \in Outcomes
    BY Zenon DEF Outcomes, Terminal
  <2>2. \/ req' = [req EXCEPT ![r] = [req[r] EXCEPT !.step = "admit"]]
        \/ req' = [req EXCEPT ![r] = [req[r] EXCEPT !.step = "terminal", !.next = refused]]
    BY Zenon, <1>0, <1>6 DEF Fence
  <2>3. UNCHANGED journalVars
    BY Zenon, <1>6 DEF Fence
  <2> HIDE DEF refused
  <2> QED
    BY Zenon, <1>1, <1>3, <2>1, <2>2, <2>3
<1>7. ASSUME NEW r \in Requests, Admitting(r)
      PROVE  JournalInv'
  <2> DEFINE value == [state |-> "admitted", history |-> {r}]
             then == [AtRest EXCEPT !.step = "apply"]
  <2>1. value \in CommandRecords
    BY Zenon DEF CommandRecords
  <2>2. Shaped(then)
    BY Zenon DEF Shaped, AtRest, Submissions, Steps
  <2>3. Fail(r) \/ commitRecord(r, value, then)
    BY Zenon, <1>7 DEF Admitting, Transition
  <2> HIDE DEF value, then
  <2> QED
    BY Zenon, <2>1, <2>2, <2>3, FailShaped, CommitShaped
<1>8. ASSUME NEW r \in Requests, Apply(r)
      PROVE  JournalInv'
  <2>1. PICK to \in {"applied", "ambiguous"} :
          req' = [req EXCEPT ![r].step = "terminal", ![r].next = [from |-> "admitted", to |-> to]]
    BY Zenon, <1>8 DEF Apply
  <2> DEFINE next == [from |-> "admitted", to |-> to]
  <2>2. next \in Outcomes
    BY Zenon DEF Outcomes, Terminal
  <2>3. req' = [req EXCEPT ![r] = [req[r] EXCEPT !.step = "terminal", !.next = next]]
    BY Zenon, <1>0, <2>1
  <2>4. UNCHANGED journalVars
    BY Zenon, <1>8 DEF Apply
  <2> HIDE DEF next
  <2> QED
    BY Zenon, <1>3, <2>2, <2>3, <2>4
<1>9. ASSUME NEW r \in Requests, StoreTerminal(r)
      PROVE  JournalInv'
  <2>1. CASE Fail(r)
    BY Zenon, <2>1, FailShaped
  <2>2. CASE /\ record # Nothing /\ UNCHANGED journalVars
             /\ req' = [req EXCEPT ![r].step = "store", ![r].seen = record]
    <3>1. record \in CommandRecords /\ req[r].next \in Outcomes
      BY Zenon, <1>0, <1>9, <2>2 DEF StoreTerminal, At, Files, Shaped
    <3>2. req' = [req EXCEPT ![r] = [req[r] EXCEPT !.step = "store", !.seen = record]]
      BY Zenon, <1>0, <2>2
    <3> QED
      BY Zenon, <1>2, <2>2, <3>1, <3>2
  <2> QED
    BY Zenon, <1>9, <2>1, <2>2 DEF StoreTerminal
<1>10. ASSUME NEW r \in Requests, StoreTransition(r)
       PROVE  JournalInv'
  <2> DEFINE value == [state |-> req[r].next.to, history |-> req[r].seen.history]
  <2>1. req[r].seen \in CommandRecords /\ req[r].next \in Outcomes
    BY Zenon, <1>0, <1>10 DEF StoreTransition, At, Shaped
  <2>2. value \in CommandRecords
    BY Zenon, <2>1 DEF CommandRecords, Outcomes
  <2>3. Fail(r) \/ commitRecord(r, value, AtRest)
    BY Zenon, <1>10 DEF StoreTransition, Transition
  <2> HIDE DEF value
  <2> QED
    BY Zenon, <2>2, <2>3, AtRestShaped, FailShaped, CommitShaped
<1>11. ASSUME NEW r \in Requests, Attach(r)
       PROVE  JournalInv'
  <2> DEFINE seen == req[r].seen
             value == [seen EXCEPT !.history = @ \cup {r}]
             q == [req[r] EXCEPT !.step = "recover"]
             then == [req[r] EXCEPT !.step = "recover", !.seen = value]
  <2>1. seen \in CommandRecords /\ seen.state \notin Terminal
    BY Zenon, <1>0, <1>11 DEF Attach, At, Shaped
  <2>2. value \in CommandRecords /\ value.state = seen.state
    BY Zenon, <2>1 DEF CommandRecords
  <2>3. \/ Fail(r) \/ commitRecord(r, value, then)
        \/ req' = [req EXCEPT ![r] = q] /\ UNCHANGED journalVars
    BY Zenon, <1>11 DEF Attach
  <2> HIDE DEF value
  <2>4. then \in Submissions /\ then.step = "recover" /\ then.seen = value
    BY Zenon, <1>0, <2>2 DEF Submissions, Steps
  <2>5. q \in Submissions /\ q.step = "recover" /\ q.seen = seen
    BY Zenon, <1>0 DEF Submissions, Steps
  <2> HIDE DEF q, then
  <2>6. Shaped(then) /\ Shaped(q)
    BY Zenon, <2>1, <2>2, <2>4, <2>5 DEF Shaped
  <2> QED
    BY Zenon, <2>2, <2>3, <2>6, StillFiles, FailShaped, CommitShaped, OneShaped
<1>12. ASSUME NEW r \in Requests, Recover(r)
       PROVE  JournalInv'
  <2> DEFINE from == req[r].seen.state
  <2>1. from \in {"prepared", "admitted", "ambiguous"}
    BY Zenon, <1>0, <1>12 DEF Recover, At, Shaped, CommandRecords
  <2>2. UNCHANGED journalVars
    BY Zenon, <1>12 DEF Recover
  <2>3. \/ req' = [req EXCEPT ![r] = AtRest]
        \/ \E to \in Terminal :
             req' = [req EXCEPT ![r].step = "terminal", ![r].next = [from |-> from, to |-> to]]
    BY Zenon, <1>12 DEF Recover, Terminal
  <2> HIDE DEF from
  <2>4. ASSUME NEW to \in Terminal,
               req' = [req EXCEPT ![r].step = "terminal", ![r].next = [from |-> from, to |-> to]]
        PROVE  JournalInv'
    <3> DEFINE next == [from |-> from, to |-> to]
    <3>1. next \in Outcomes
      BY Zenon, <2>1 DEF Outcomes
    <3>2. req' = [req EXCEPT ![r] = [req[r] EXCEPT !.step = "terminal", !.next = next]]
      BY Zenon, <1>0, <2>4
    <3> HIDE DEF next
    <3> QED
      BY Zenon, <1>3, <2>2, <3>1, <3>2
  <2> QED
    BY Zenon, <2>2, <2>3, <2>4, AtRestShaped, StillFiles, OneShaped
<1>13. CASE CommandCrash \/ ReopenJournal \/ FailOver \/ CommandExpires
            \/ UNCHANGED ownerCommandVars
  <2>1. Files'
    <3>1. CASE ReopenJournal
      BY Zenon, <1>0, <3>1, ReopenStep
    <3>2. CASE UNCHANGED journalVars
      BY Zenon, <3>2, StillFiles
    <3> QED
      BY Zenon, <1>13, <3>1, <3>2
      DEF CommandCrash, FailOver, CommandExpires, ownerCommandVars, journalVars
  <2>2. req' = req \/ req' = [r \in Requests |-> AtRest]
    BY Zenon, <1>13 DEF CommandCrash, ReopenJournal, FailOver, CommandExpires, ownerCommandVars
  <2> QED
    BY Zenon, <1>0, <2>1, <2>2, AtRestShaped DEF JournalInv
<1> QED
  BY <1>4, <1>5, <1>6, <1>7, <1>8, <1>9, <1>10, <1>11, <1>12, <1>13 DEF OwnerCommandNext

\* A commit cut short at any of its steps, and then again by a second crash, leaves
\* files that OpenFileJournal accepts, and never files that are behind the external
\* high-water by more than the commit in doubt (commitRecord, reconcile).
THEOREM JournalReopensAtHighWater == OwnerCommandSpec => []ReopensAtHighWater
<1>1. OwnerCommandInit => JournalInv
  <2> SUFFICES ASSUME OwnerCommandInit PROVE JournalInv
    BY Zenon
  <2>1. Files
    BY Zenon DEF OwnerCommandInit, Files, Manifests
  <2> QED
    BY Zenon, <2>1, AtRestShaped DEF OwnerCommandInit, JournalInv
<1>2. JournalInv /\ [OwnerCommandNext]_ownerCommandVars => JournalInv'
  BY Zenon, JournalStep
<1>3. JournalInv => ReopensAtHighWater
  <2> SUFFICES ASSUME Files PROVE ReopensAtHighWater
    BY Zenon DEF JournalInv
  <2>1. JournalReopens
    BY Zenon DEF Files, JournalReopens
  <2>2. metaFile.revision \in Nat /\ highWater.revision \in Nat
    BY Zenon DEF Files, Manifests
  <2>3. CASE pending = Nothing
    BY <2>1, <2>2, <2>3 DEF Files, NoRollback, ReopensAtHighWater
  <2>4. CASE pending # Nothing
    <3>1. pending.prior \in Nat
      BY Zenon, <2>4 DEF Files, PendingCommits
    <3> QED
      BY Zenon, <2>1, <2>2, <2>4, <3>1 DEF Files, NoRollback, ReopensAtHighWater
  <2> QED
    BY Zenon, <2>3, <2>4
<1> QED
  BY <1>1, <1>2, <1>3, PTL DEF OwnerCommandSpec
=============================================================================
