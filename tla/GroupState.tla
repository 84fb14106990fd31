----------------------------- MODULE GroupState -----------------------------
(***************************************************************************)
(* The private state of MLS rooms: the ledger (pkg/eventlog/mls.go), the   *)
(* controller over it (mls_controller.go) and the binding rules of         *)
(* pkg/group/mls_profile.go.  A call reads the record, has the driver, a   *)
(* process of its own (openmls_sidecar.go), compute a successor of the     *)
(* state, and then replaces the record under the journal's lock if the     *)
(* state is still the one it read.  Only then is the driver's output, a    *)
(* commit, a ciphertext or a plaintext, handed to the caller.              *)
(*                                                                         *)
(* The opaque state is abstracted to the commit that made its epoch, the   *)
(* number of messages sealed in it and the set of messages opened in it;   *)
(* a digest is the value it is taken of.  A peer's commit to epoch e is    *)
(* <<e, "peer">>, one of this installation <<e, n>> for the n-th call.     *)
(***************************************************************************)
EXTENDS FiniteSets, Naturals

CONSTANTS
    MLSRooms, KeyPackages, Welcomes, MembershipChoices, PeerMessages,
    GroupCallers,
    MaxMLSEpoch, MaxGroupCalls, MaxGroupFaults, \* bounds of the model
    NoRecord

\* The commit that made an epoch: none for a founder's first, or the epoch and who made it.
CommitRefs == (Nat \X (Nat \cup {"peer"})) \cup {NoRecord}
MLSBindings ==
    [roomEpoch : Nat, epoch : 0..MaxMLSEpoch, members : MembershipChoices, ref : CommitRefs]
MLSStates == [commit : CommitRefs, sent : Nat, read : SUBSET PeerMessages]
MLSRecords ==
    [binding : MLSBindings, state : MLSStates,
     consumed : SUBSET KeyPackages, welcomed : SUBSET Welcomes]

\* The absence of a record is told apart from every record and every commit.
ASSUME GroupAssumption ==
    /\ MaxMLSEpoch \in Nat
    /\ NoRecord \notin MLSRecords
    /\ NoRecord \notin Nat \X (Nat \cup {"peer"})

VARIABLES
    mlsRecord, recordSafe,  \* room -> MLSRecord, and what a power loss leaves of it
    running,             \* caller -> the call between its read and its write
    sealed, committed,   \* messages and commits that were handed out
    opened,              \* [room, epoch, message] -> plaintexts handed out
    groupCalls, groupFaults

groupVars == <<mlsRecord, recordSafe, running, sealed, committed, opened, groupCalls, groupFaults>>

Opaque(ref) == [commit |-> ref, sent |-> 0, read |-> {}]
NewMLSRecord(binding, state, keyPackages, welcomes) ==
    [binding |-> binding, state |-> state, consumed |-> keyPackages, welcomed |-> welcomes]

GroupInit ==
    /\ mlsRecord = [r \in MLSRooms |-> NoRecord] /\ recordSafe = mlsRecord
    /\ running = [c \in GroupCallers |-> NoRecord]
    /\ sealed = {} /\ committed = {}
    /\ opened = [r \in MLSRooms |-> [e \in 0..MaxMLSEpoch |-> [m \in PeerMessages |-> 0]]]
    /\ groupCalls = 0 /\ groupFaults = 0

Called == groupCalls < MaxGroupCalls /\ groupCalls' = groupCalls + 1

\* Faulty variant: a key package is one-time within its room only.
keyPackageConsumedHere(k, r) == mlsRecord[r] # NoRecord /\ k \in mlsRecord[r].consumed
\* keyPackageConsumed: one-time across every room of the installation.
keyPackageConsumed(k, r) == \E s \in MLSRooms : mlsRecord[s] # NoRecord /\ k \in mlsRecord[s].consumed

\* Journal.replace: the whole record, then the directory.  It may fail before
\* the rename, and after it, when the new record is there and may yet be lost.
Replaced(r, new, done) ==
    \/ /\ mlsRecord' = [mlsRecord EXCEPT ![r] = new]
       /\ recordSafe' = [s \in MLSRooms |-> mlsRecord'[s]]
       /\ done /\ UNCHANGED groupFaults
    \/ /\ groupFaults < MaxGroupFaults /\ groupFaults' = groupFaults + 1
       /\ \/ UNCHANGED mlsRecord
          \/ mlsRecord' = [mlsRecord EXCEPT ![r] = new]
       /\ UNCHANGED <<recordSafe, sealed, committed, opened>>

\* The record is written once, by Join or by CreateFounder: a room that has one
\* is refused.
Install(r, k, new) ==
    /\ Called /\ mlsRecord[r] = NoRecord /\ ~keyPackageConsumed(k, r)
    /\ Replaced(r, new, UNCHANGED <<sealed, committed, opened>>)
    /\ UNCHANGED running

\* Join and InstallWelcome: the welcome names the epoch that is joined.
Join(r, k, w, e, m) ==
    Install(r, k, NewMLSRecord([roomEpoch |-> 1 + e, epoch |-> e, members |-> m, ref |-> <<e, "peer">>],
                               Opaque(<<e, "peer">>), {k}, {w}))

\* CreateFounder and InstallFounder.
CreateFounder(r, k, m) ==
    Install(r, k, NewMLSRecord([roomEpoch |-> 1, epoch |-> 0, members |-> m, ref |-> NoRecord],
                               Opaque(NoRecord), {k}, {}))

\* ValidateTransition: an update of the keys alone, or the next membership.
Successors(b, ref) ==
    {[b EXCEPT !.epoch = @ + 1, !.ref = ref]} \cup
    {[roomEpoch |-> b.roomEpoch + 1, epoch |-> b.epoch + 1, members |-> m, ref |-> ref] :
        m \in MembershipChoices \ {b.members}}

\* OpenMLSSidecar: what the driver's process makes of a state.  A commit, its own or a
\* peer's, begins an epoch in which nothing was sealed or opened.
SidecarSeal(s) == [s EXCEPT !.sent = @ + 1]
SidecarOpen(s, m) == [s EXCEPT !.read = @ \cup {m}]
SidecarCommit(ref) == Opaque(ref)

\* current, the driver's operation and checkState, without the lock.
Start(c, r, what, next, binding, output) ==
    running' = [running EXCEPT ![c] =
        [what |-> what, room |-> r, from |-> mlsRecord[r].state, next |-> next,
         binding |-> binding, output |-> output]]

StartSeal(c, r) ==
    LET s == mlsRecord[r].state
    IN  Start(c, r, "seal", SidecarSeal(s), mlsRecord[r].binding, groupCalls)

StartOpen(c, r, m) ==
    LET s == mlsRecord[r].state
    IN  m \notin s.read /\ Start(c, r, "open", SidecarOpen(s, m), mlsRecord[r].binding, m)

StartCommit(c, r) ==
    LET b == mlsRecord[r].binding
        ref == <<b.epoch + 1, groupCalls>>
    IN  /\ b.epoch < MaxMLSEpoch
        /\ \E next \in Successors(b, ref) : Start(c, r, "commit", SidecarCommit(ref), next, ref)

StartApply(c, r) ==
    LET b == mlsRecord[r].binding
        ref == <<b.epoch + 1, "peer">>
    IN  /\ b.epoch < MaxMLSEpoch
        /\ \E next \in Successors(b, ref) : Start(c, r, "apply", SidecarCommit(ref), next, ref)

StartCall(c, r) ==
    /\ running[c] = NoRecord /\ mlsRecord[r] # NoRecord /\ Called
    /\ \/ StartSeal(c, r) \/ (\E m \in PeerMessages : StartOpen(c, r, m))
       \/ StartCommit(c, r) \/ StartApply(c, r)
    /\ UNCHANGED <<mlsRecord, recordSafe, sealed, committed, opened, groupFaults>>

\* Faulty variant: the state that was read is not compared.
SamePriorBlind(c) == TRUE
\* The compare-and-swap of Ratchet and AdvanceFrom.
SamePrior(c) == mlsRecord[running[c].room].state = running[c].from

\* advanceFrom and Ratchet: what they replace, and what the controller returns.
HandOut(call) ==
    LET r == call.room
        b == call.binding
    IN  CASE call.what = "seal" ->
               /\ sealed' = sealed \cup {[room |-> r, epoch |-> b.ref, at |-> call.from.sent, text |-> call.output]}
               /\ UNCHANGED <<committed, opened>>
          [] call.what = "open" ->
               /\ opened' = [opened EXCEPT ![r][b.epoch][call.output] = @ + 1]
               /\ UNCHANGED <<sealed, committed>>
          [] call.what = "commit" ->
               /\ committed' = committed \cup {[room |-> r, epoch |-> b.epoch, ref |-> call.output]}
               /\ UNCHANGED <<sealed, opened>>
          [] OTHER -> UNCHANGED <<sealed, committed, opened>>

FinishCall(c) ==
    /\ running[c] # NoRecord
    /\ running' = [running EXCEPT ![c] = NoRecord] /\ UNCHANGED groupCalls
    /\ LET call == running[c]
           old == mlsRecord[call.room]
       IN  IF old = NoRecord \/ ~SamePrior(c)
           THEN UNCHANGED <<mlsRecord, recordSafe, sealed, committed, opened, groupFaults>>
           ELSE Replaced(call.room, [old EXCEPT !.binding = call.binding, !.state = call.next],
                         HandOut(call))

\* The process ends; with a loss of power what was not synced goes with it.
GroupCrash ==
    /\ groupFaults < MaxGroupFaults /\ groupFaults' = groupFaults + 1
    /\ running' = [c \in GroupCallers |-> NoRecord]
    /\ mlsRecord' \in {mlsRecord, recordSafe}
    /\ UNCHANGED <<recordSafe, sealed, committed, opened, groupCalls>>

GroupNext ==
    \/ \E r \in MLSRooms, k \in KeyPackages, m \in MembershipChoices :
          \/ CreateFounder(r, k, m)
          \/ \E w \in Welcomes, e \in 1..MaxMLSEpoch : Join(r, k, w, e, m)
    \/ \E c \in GroupCallers : FinishCall(c) \/ \E r \in MLSRooms : StartCall(c, r)
    \/ GroupCrash

GroupSpec == GroupInit /\ [][GroupNext]_groupVars

-----------------------------------------------------------------------------
\* The shape of the records; a record's state belongs to its binding.
GroupTypeOK ==
    \A r \in MLSRooms : mlsRecord[r] # NoRecord =>
        /\ mlsRecord[r].binding.epoch \in 0..MaxMLSEpoch
        /\ mlsRecord[r].binding.roomEpoch \in 1..MaxMLSEpoch + 1
        /\ mlsRecord[r].binding.members \in MembershipChoices
        /\ mlsRecord[r].consumed \subseteq KeyPackages /\ mlsRecord[r].welcomed \subseteq Welcomes
        /\ mlsRecord[r].state.commit = mlsRecord[r].binding.ref

\* A place of the sender ratchet encrypts one message: no interleaving of
\* callers, failed write or crash hands out two ciphertexts of it.
GenerationSealsOnce ==
    \A a, b \in sealed : a.room = b.room /\ a.epoch = b.epoch /\ a.at = b.at => a = b

\* At most one commit is handed out for an epoch of a room, and a record that
\* stands at that epoch stands on it: no fork of this installation's making.
CommitHandedOutOnce ==
    \A a \in committed :
        /\ \A b \in committed : a.room = b.room /\ a.epoch = b.epoch => a = b
        /\ mlsRecord[a.room].binding.epoch >= a.epoch
        /\ mlsRecord[a.room].binding.epoch = a.epoch => mlsRecord[a.room].binding.ref = a.ref

\* The plaintext of a message is handed out at most once.
OpenedOnce == \A r \in MLSRooms, e \in 0..MaxMLSEpoch, m \in PeerMessages : opened[r][e][m] <= 1

\* A key package joins one room of the installation.
KeyPackageJoinsOnce ==
    \A r, s \in MLSRooms : r # s /\ mlsRecord[r] # NoRecord /\ mlsRecord[s] # NoRecord =>
        mlsRecord[r].consumed \cap mlsRecord[s].consumed = {}

\* What a power loss leaves never goes back: an epoch is left for a later one
\* only, and within it the binding stays and the ratchets only move on.
DurableOnlyAdvances ==
    [][\A r \in MLSRooms : recordSafe[r] # NoRecord =>
         LET old == recordSafe[r]
             new == recordSafe'[r]
         IN  \/ new.binding.epoch > old.binding.epoch /\ new.binding.roomEpoch >= old.binding.roomEpoch
             \/ /\ new.binding = old.binding
                /\ new.state.sent >= old.state.sent /\ old.state.read \subseteq new.state.read]_groupVars

\* Everything that may be used once is used once: a place of the sender ratchet, an
\* epoch's commit, a message's plaintext and a key package.
GroupSecretsUsedOnce ==
    GenerationSealsOnce /\ CommitHandedOutOnce /\ OpenedOnce /\ KeyPackageJoinsOnce
=============================================================================
