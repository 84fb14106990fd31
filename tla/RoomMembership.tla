--------------------------- MODULE RoomMembership ---------------------------
(***************************************************************************)
(* Who is in a private room, who may change that, and who moderates: the   *)
(* membership, authority and role objects of pkg/room and the ledgers that *)
(* every installation keeps of them (pkg/eventlog rooms.go, room_roles.go  *)
(* and moderation.go), for one room.  An installation is named by the      *)
(* agent it belongs to.  Signed objects reach the installations in any     *)
(* order, repeatedly or never; one that has expired is as good as lost.    *)
(*                                                                         *)
(* The current authority signs a successor by recording it first, in the   *)
(* ledger of its own installation; any other member may sign one as well,  *)
(* and only the ledgers tell the two apart.  (The code that would sign is  *)
(* not in the repository: the signing actions are external.)               *)
(***************************************************************************)
EXTENDS FiniteSets, Naturals

CONSTANTS
    Agents, Founders, Founder,
    Bystanders,       \* agents that sign successors without having the authority
    MaxMembers,
    RoomTargets,      \* events of the room
    MaxRoomEpoch, MaxRevision, MaxDecision, \* bounds of the model
    MaxSigned, MaxRoomFaults,
    NoRoom

ASSUME FounderAssumption ==
    Founder \in Founders /\ Founder \notin Bystanders /\ Founders \subseteq Agents

\* What an installation records of the room; no record is told apart from every record.
RoomRecords == [epoch : Nat \ {0}, members : SUBSET Agents, authority : Agents]

ASSUME NoRoomAssumption == NoRoom \notin RoomRecords

VARIABLES
    rooms, roomsSafe,  \* agent -> its RoomRecord, and what a power loss leaves of it
    policy,              \* agent -> the RolePolicy it recorded
    decisions,           \* agent -> target -> its ModerationDecision
    transitions,         \* signed authorizations and transfers
    policies,            \* signed role policies
    moderations,         \* moderation events
    roomFaults

roomVars == <<rooms, roomsSafe, policy, decisions, transitions, policies, moderations, roomFaults>>

\* A signed successor of r: an authorization, or a transfer when by and to differ.
SignedTransition(r, members, by, to) ==
    [epoch |-> IF r = NoRoom THEN 1 ELSE r.epoch + 1,
     prior |-> IF r = NoRoom THEN {} ELSE r.members, members |-> members, by |-> by, to |-> to]

RoomInit ==
    /\ rooms = [a \in Agents |-> NoRoom] /\ roomsSafe = rooms
    /\ policy = [a \in Agents |-> NoRoom]
    /\ decisions = [a \in Agents |-> [t \in RoomTargets |-> NoRoom]]
    /\ transitions = {SignedTransition(NoRoom, Founders, Founder, Founder)}
    /\ policies = {} /\ moderations = {} /\ roomFaults = 0

\* Few objects are signed in a behaviour of the model.
Signs == Cardinality(transitions) + Cardinality(policies) + Cardinality(moderations) < MaxSigned

Memberships == {m \in SUBSET Agents : m # {} /\ Cardinality(m) <= MaxMembers}

\* Advance of a known room: the authority on record signs, stays, and changes something.
AcceptsAdvance(r, t) ==
    t.by = t.to /\ t.by = r.authority /\ t.to \in t.members /\ t.members # r.members
\* VerifyAuthorityTransfer: the authority on record hands this membership over to a
\* member of the next one, which may be the same.
AcceptsTransfer(r, t) ==
    t.by # t.to /\ t.by = r.authority /\ t.prior = r.members /\ t.to \in t.members

\* Faulty variant: whoever is a member may advance the room.
AcceptsAny(r, t) ==
    IF r = NoRoom THEN t.epoch = 1 /\ t.by = t.to /\ t.by \in t.members
    ELSE /\ t.epoch = r.epoch + 1 /\ t.to \in t.members
         /\ t.by = t.to => t.members # r.members
\* RoomLedger: a room begins with its first epoch and advances to exactly the next.
Accepts(r, t) ==
    IF r = NoRoom THEN t.epoch = 1 /\ t.by = t.to /\ t.by \in t.members
    ELSE t.epoch = r.epoch + 1 /\ (AcceptsAdvance(r, t) \/ AcceptsTransfer(r, t))

RoomRecord(t) == [epoch |-> t.epoch, members |-> t.members, authority |-> t.to]

\* Journal.replace of the record; it may fail before or after the rename.
Write(a, t, done) ==
    \/ /\ rooms' = [rooms EXCEPT ![a] = RoomRecord(t)]
       /\ roomsSafe' = [roomsSafe EXCEPT ![a] = RoomRecord(t)]
       /\ done /\ UNCHANGED roomFaults
    \/ /\ roomFaults < MaxRoomFaults /\ roomFaults' = roomFaults + 1
       /\ rooms' = [rooms EXCEPT ![a] = RoomRecord(t)]
       /\ UNCHANGED <<roomsSafe, transitions>>

\* The authority adds, removes or hands over: Add, Remove and
\* AdvanceForAuthorityTransfer, recorded at home and then sent.
Serialize(a) ==
    LET r == rooms[a]
    IN  /\ Signs /\ r # NoRoom /\ r.authority = a /\ r.epoch < MaxRoomEpoch
        /\ \E m \in Memberships, b \in Agents \ Bystanders :
              LET t == SignedTransition(r, m, a, b)
              IN  Accepts(r, t) /\ Write(a, t, transitions' = transitions \cup {t})
        /\ UNCHANGED <<policy, decisions, policies, moderations>>

\* A member that is not the authority signs a successor.
SignUnasked(a) ==
    LET r == rooms[a]
    IN  /\ Signs /\ a \in Bystanders /\ r # NoRoom /\ a \in r.members /\ r.epoch < MaxRoomEpoch
        /\ \E m \in {n \in Memberships : a \in n} :
              transitions' = transitions \cup {SignedTransition(r, m, a, a)}
        /\ UNCHANGED <<rooms, roomsSafe, policy, decisions, policies, moderations, roomFaults>>

ReceiveTransition(a, t) ==
    /\ t \in transitions /\ Accepts(rooms[a], t)
    /\ Write(a, t, UNCHANGED transitions)
    /\ UNCHANGED <<policy, decisions, policies, moderations>>

\* Faulty variant: a policy holds whatever the membership has become.
VerifyRolePolicyLoose(p, r) == r # NoRoom /\ p.authority = r.authority
\* VerifyRolePolicy: signed by the current authority for the current members.
VerifyRolePolicy(p, r) ==
    /\ r # NoRoom /\ p.epoch = r.epoch /\ p.members = r.members /\ p.authority = r.authority
    /\ p.moderators \subseteq r.members

\* The first revision is 1 and every later one exactly the next.
NextRevision(old, revision) == revision = IF old = NoRoom THEN 1 ELSE old.revision + 1

\* The authority signs and records the next revision; itself an administrator.
AssignRoles(a) ==
    LET r == rooms[a]
    IN  /\ Signs /\ r # NoRoom /\ r.authority = a
        /\ \E m \in SUBSET (r.members \ {a}), n \in 1..MaxRevision :
              LET p == [revision |-> n, epoch |-> r.epoch, members |-> r.members,
                        authority |-> a, moderators |-> m \cup {a}]
              IN  /\ NextRevision(policy[a], n)
                  /\ policy' = [policy EXCEPT ![a] = p] /\ policies' = policies \cup {p}
        /\ UNCHANGED <<rooms, roomsSafe, decisions, transitions, moderations, roomFaults>>

\* RoomRoleLedger.Advance.
ReceivePolicy(a, p) ==
    /\ p \in policies /\ VerifyRolePolicy(p, rooms[a]) /\ NextRevision(policy[a], p.revision)
    /\ policy' = [policy EXCEPT ![a] = p]
    /\ UNCHANGED <<rooms, roomsSafe, decisions, transitions, policies, moderations, roomFaults>>

\* RoomRoleLedger.AllowsCurrent for the action moderate.
AllowsModerate(a, agent) ==
    policy[a] # NoRoom /\ VerifyRolePolicy(policy[a], rooms[a]) /\ agent \in policy[a].moderators

\* A member sends a moderation event, to hide or to restore the target, that
\* names the authority it knows of.
Moderate(a, t, n) ==
    /\ Signs /\ rooms[a] # NoRoom /\ policy[a] # NoRoom
    /\ moderations' = moderations \cup
          {[target |-> t, revision |-> n, epoch |-> rooms[a].epoch, policy |-> policy[a].revision,
            actor |-> a]}
    /\ UNCHANGED <<rooms, roomsSafe, policy, decisions, transitions, policies, roomFaults>>

\* ModerationLedger.Apply.
ApplyModeration(a, d) ==
    /\ d \in moderations /\ rooms[a] # NoRoom /\ policy[a] # NoRoom
    /\ d.epoch = rooms[a].epoch /\ d.policy = policy[a].revision
    /\ AllowsModerate(a, d.actor) /\ NextRevision(decisions[a][d.target], d.revision)
    /\ decisions' = [decisions EXCEPT ![a][d.target] = d]
    /\ UNCHANGED <<rooms, roomsSafe, policy, transitions, policies, moderations, roomFaults>>

\* An installation ends; with a loss of power what was not synced is gone.
RoomCrash(a) ==
    /\ roomFaults < MaxRoomFaults /\ roomFaults' = roomFaults + 1
    /\ rooms' = [rooms EXCEPT ![a] = roomsSafe[a]]
    /\ UNCHANGED <<roomsSafe, policy, decisions, transitions, policies, moderations>>

RoomNext ==
    \E a \in Agents :
        \/ Serialize(a) \/ SignUnasked(a) \/ (\E t \in transitions : ReceiveTransition(a, t))
        \/ AssignRoles(a) \/ (\E p \in policies : ReceivePolicy(a, p))
        \/ \E t \in RoomTargets, n \in 1..MaxDecision : Moderate(a, t, n)
        \/ \E d \in moderations : ApplyModeration(a, d)
        \/ RoomCrash(a)

RoomSpec == RoomInit /\ [][RoomNext]_roomVars

-----------------------------------------------------------------------------
\* The shape of the records; the authority on record is a member, which the
\* ledger requires of a record it reads.
RoomTypeOK ==
    \A a \in Agents : rooms[a] # NoRoom =>
        /\ rooms[a].epoch \in 1..MaxRoomEpoch /\ rooms[a].members \in Memberships
        /\ rooms[a].authority \in rooms[a].members

\* Installations that stand at the same epoch agree on the members and on the
\* authority, whatever other members sign and in whatever order it arrives.
RoomsAgree ==
    \A a, b \in Agents : rooms[a] # NoRoom /\ rooms[b] # NoRoom /\ rooms[a].epoch = rooms[b].epoch =>
        rooms[a] = rooms[b]

\* Who may moderate is a member now, named by the present authority for the
\* present epoch: a removal or a transfer leaves no power behind.
PowerIsCurrent ==
    \A a, agent \in Agents : AllowsModerate(a, agent) =>
        /\ agent \in rooms[a].members
        /\ \E p \in policies : /\ p.epoch = rooms[a].epoch /\ p.authority = rooms[a].authority
                               /\ agent \in p.moderators

\* A recorded decision was made by a moderator of the policy and the epoch it
\* names.
DecidedByModerator ==
    \A a \in Agents, t \in RoomTargets : decisions[a][t] # NoRoom =>
        LET d == decisions[a][t]
        IN  \E p \in policies : p.revision = d.policy /\ p.epoch = d.epoch /\ d.actor \in p.moderators

\* A room has one government: installations at one epoch agree on it, and power to
\* moderate comes from its present authority only.
RoomsAreGoverned == RoomsAgree /\ PowerIsCurrent /\ DecidedByModerator
=============================================================================
