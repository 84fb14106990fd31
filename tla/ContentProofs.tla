--------------------------- MODULE ContentProofs ----------------------------
(***************************************************************************)
(* Shared content, for any number of calls, crashes and failed writes:     *)
(* rooms and their MLS groups, attachments and who may fetch them, and the *)
(* bags behind Sites.                                                      *)
(***************************************************************************)
EXTENDS RoomMembership, GroupState, AttachmentUpload, AttachmentAccess, SitesBags, TLAPS

(***************************************************************************)
(* Rooms. Rooms, for every set of agents, rooms, callers and key packages  *)
(* and every number of epochs, objects, calls and faults: a room has one   *)
(* government, and what its MLS state may use once is used once.           *)
(***************************************************************************)

(***************************************************************************)
(* The MLS state of a room: GroupState.                                    *)
(*                                                                         *)
(* GroupSecretsUsedOnce is not inductive: it speaks of what was handed     *)
(* out, and says nothing of the records that decide what is handed out     *)
(* next.  The strengthening says that whatever was handed out is already   *)
(* behind the record (SealedBehind, CommitsBehind, OpenedBehind), both the *)
(* one in force and the one a loss of power would leave, because nothing   *)
(* is handed out before the record is durable; and that a call, however    *)
(* long ago it read the record, takes its place from the very state it     *)
(* compares (CallsFaithful).                                               *)
(***************************************************************************)

\* The epoch that a commit began.
EpochOf(ref) == IF ref = NoRecord THEN 0 ELSE ref[1]

\* A record's state is that of its binding's epoch.
Bound(binding, state) == state.commit = binding.ref /\ binding.epoch = EpochOf(binding.ref)

\* The record of a room in `records', which is what is in force or what is safe.
RecordsBound(records) ==
    /\ records \in [MLSRooms -> MLSRecords \cup {NoRecord}]
    /\ \A r \in MLSRooms : records[r] # NoRecord => Bound(records[r].binding, records[r].state)

\* The ratchet has moved past every place that was handed out.
SealedBehind(records, seals) ==
    \A a \in seals :
        LET record == records[a.room]
        IN  /\ record # NoRecord /\ record.binding.epoch >= EpochOf(a.epoch)
            /\ record.binding.ref = a.epoch => record.state.sent > a.at

\* The room stands on the commits that were handed out, or beyond them.
CommitsBehind(records, commits) ==
    \A a \in commits :
        LET record == records[a.room]
        IN  /\ record # NoRecord /\ record.binding.epoch >= a.epoch
            /\ record.binding.epoch = a.epoch => record.binding.ref = a.ref

\* A message whose plaintext was handed out is marked as read in its epoch.
OpenedBehind(records, plain) ==
    \A r \in MLSRooms, e \in 0..MaxMLSEpoch, m \in PeerMessages : plain[r][e][m] # 0 =>
        /\ records[r] # NoRecord /\ records[r].binding.epoch >= e
        /\ records[r].binding.epoch = e => m \in records[r].state.read

\* The rooms used different key packages.
KeysApart(records) ==
    \A r, s \in MLSRooms : r # s /\ records[r] # NoRecord /\ records[s] # NoRecord =>
        records[r].consumed \cap records[s].consumed = {}

Behind(records, seals, commits, plain) ==
    /\ RecordsBound(records) /\ KeysApart(records)
    /\ SealedBehind(records, seals) /\ CommitsBehind(records, commits)
    /\ OpenedBehind(records, plain)

\* What a call between its read and its write will do, relative to what it read.
Faithful(call) ==
    /\ call.what \in {"seal", "open", "commit", "apply"} /\ call.room \in MLSRooms
    /\ call.from \in MLSStates /\ call.next \in MLSStates /\ call.binding \in MLSBindings
    /\ Bound(call.binding, call.next)
    /\ call.what \in {"seal", "open"} =>
          /\ call.next.commit = call.from.commit
          /\ call.next.sent >= call.from.sent /\ call.from.read \subseteq call.next.read
    /\ call.what = "seal" => call.next.sent > call.from.sent
    /\ call.what = "open" =>
          /\ call.output \in PeerMessages
          /\ call.output \notin call.from.read /\ call.output \in call.next.read
    /\ call.what \in {"commit", "apply"} => call.binding.epoch = EpochOf(call.from.commit) + 1
    /\ call.what = "commit" => call.output = call.binding.ref

CallsFaithful ==
    /\ DOMAIN running = GroupCallers
    /\ \A c \in GroupCallers : running[c] # NoRecord => Faithful(running[c])

\* What was handed out has its shape.
HandedOutShapes(seals, commits, plain) ==
    /\ \A a \in seals : a.room \in MLSRooms /\ a.epoch \in CommitRefs /\ a.at \in Nat
    /\ \A a \in commits : a.room \in MLSRooms /\ a.epoch \in 0..MaxMLSEpoch
    /\ plain \in [MLSRooms -> [0..MaxMLSEpoch -> [PeerMessages -> {0, 1}]]]

OneCommitPerEpoch ==
    \A a, b \in committed : a.room = b.room /\ a.epoch = b.epoch => a = b

GroupInv ==
    /\ groupCalls \in Nat
    /\ HandedOutShapes(sealed, committed, opened)
    /\ GenerationSealsOnce /\ OneCommitPerEpoch
    /\ CallsFaithful
    /\ Behind(mlsRecord, sealed, committed, opened)
    /\ Behind(recordSafe, sealed, committed, opened)

\* From one record of a room to another: an epoch is left for a later one only, and
\* within it the binding stays and the ratchets move on.
Advances(old, new) ==
    old # NoRecord =>
        /\ new # NoRecord
        /\ \/ /\ new.binding.epoch > old.binding.epoch
              /\ new.binding.roomEpoch >= old.binding.roomEpoch
           \/ /\ new.binding = old.binding
              /\ new.state.sent >= old.state.sent /\ old.state.read \subseteq new.state.read

\* What is in force is what is safe, or further.
InForceAdvanced == \A r \in MLSRooms : Advances(recordSafe[r], mlsRecord[r])

\* The room a call is about has left the epoch the call read, or the call would
\* write the binding in force or one that continues it.
Timely(call, record) ==
    /\ record # NoRecord
    /\ \/ record.binding.epoch > EpochOf(call.from.commit)
       \/ /\ record.binding.epoch = EpochOf(call.from.commit)
          /\ call.what \in {"seal", "open"} => call.binding = record.binding
          /\ call.what \in {"commit", "apply"} => call.binding.roomEpoch >= record.binding.roomEpoch

CallsTimely ==
    \A c \in GroupCallers : running[c] # NoRecord => Timely(running[c], mlsRecord[running[c].room])

DurableInv == GroupInv /\ InForceAdvanced /\ CallsTimely

-----------------------------------------------------------------------------
(* Records *)

\* A commit's epoch is a number, and that of a new commit is the one it names.
LEMMA EpochOfRef ==
    /\ \A ref \in CommitRefs : EpochOf(ref) \in Nat
    /\ EpochOf(NoRecord) = 0
    /\ \A e \in Nat : \A by \in Nat \cup {"peer"} :
          <<e, by>> \in CommitRefs /\ EpochOf(<<e, by>>) = e
BY GroupAssumption DEF EpochOf, CommitRefs

\* A room that had no record gets one.
LEMMA InstallKeepsBehind ==
    ASSUME NEW records, NEW seals, NEW commits, NEW plain,
           HandedOutShapes(seals, commits, plain), Behind(records, seals, commits, plain),
           NEW r \in MLSRooms, records[r] = NoRecord,
           NEW new \in MLSRecords, Bound(new.binding, new.state),
           \A s \in MLSRooms : records[s] # NoRecord => records[s].consumed \cap new.consumed = {}
    PROVE  Behind([records EXCEPT ![r] = new], seals, commits, plain)
<1> DEFINE after == [records EXCEPT ![r] = new]
<1>1. records \in [MLSRooms -> MLSRecords \cup {NoRecord}]
  BY Zenon DEF Behind, RecordsBound
<1>2. after[r] = new /\ \A s \in MLSRooms : s # r => after[s] = records[s]
  BY Zenon, <1>1
<1>3. after \in [MLSRooms -> MLSRecords \cup {NoRecord}]
  BY Zenon, <1>1
<1> HIDE DEF after
<1>4. RecordsBound(after)
  BY Zenon, <1>2, <1>3 DEF Behind, RecordsBound
<1>5. KeysApart(after)
  BY Zenon, <1>2 DEF Behind, KeysApart
<1>6. SealedBehind(after, seals)
  <2>1. \A a \in seals : a.room \in MLSRooms /\ a.room # r
    BY Zenon DEF Behind, SealedBehind, HandedOutShapes
  <2> QED
    BY Zenon, <1>2, <2>1 DEF Behind, SealedBehind
<1>7. CommitsBehind(after, commits)
  <2>1. \A a \in commits : a.room \in MLSRooms /\ a.room # r
    BY Zenon DEF Behind, CommitsBehind, HandedOutShapes
  <2> QED
    BY Zenon, <1>2, <2>1 DEF Behind, CommitsBehind
<1>8. OpenedBehind(after, plain)
  BY <1>2 DEF Behind, OpenedBehind
<1> QED
  BY Zenon, <1>4, <1>5, <1>6, <1>7, <1>8 DEF Behind, after

\* The record `new' follows `old': the same epoch with its ratchets moved on, or the next.
Follows(old, new) ==
    /\ new \in MLSRecords /\ Bound(new.binding, new.state) /\ new.consumed = old.consumed
    /\ \/ /\ new.binding.ref = old.binding.ref
          /\ new.state.sent >= old.state.sent /\ old.state.read \subseteq new.state.read
       \/ new.binding.epoch = old.binding.epoch + 1

\* A room's record is replaced by one that follows it.
LEMMA FollowingKeepsBehind ==
    ASSUME NEW records, NEW seals, NEW commits, NEW plain,
           HandedOutShapes(seals, commits, plain), Behind(records, seals, commits, plain),
           NEW r \in MLSRooms, records[r] # NoRecord, NEW new, Follows(records[r], new)
    PROVE  Behind([records EXCEPT ![r] = new], seals, commits, plain)
<1> DEFINE after == [records EXCEPT ![r] = new]
           old == records[r]
<1>1. records \in [MLSRooms -> MLSRecords \cup {NoRecord}] /\ old \in MLSRecords /\ new \in MLSRecords
  BY Zenon DEF Behind, RecordsBound, Follows
<1>2. after[r] = new /\ \A s \in MLSRooms : s # r => after[s] = records[s]
  BY Zenon, <1>1
<1>3. after \in [MLSRooms -> MLSRecords \cup {NoRecord}] /\ new # NoRecord
  BY Zenon, <1>1, GroupAssumption
<1>4. /\ old.binding.epoch \in Nat /\ new.binding.epoch \in Nat
      /\ old.state.sent \in Nat /\ new.state.sent \in Nat
      /\ old.binding.ref \in CommitRefs /\ new.binding.ref \in CommitRefs
  BY SMTT(40), <1>1, GroupAssumption DEF MLSRecords, MLSBindings, MLSStates
<1>5. /\ old.binding.epoch = EpochOf(old.binding.ref) /\ new.binding.epoch = EpochOf(new.binding.ref)
  BY Zenon, <1>1 DEF Behind, RecordsBound, Bound, Follows
<1>6. \/ /\ new.binding.ref = old.binding.ref /\ new.binding.epoch = old.binding.epoch
         /\ new.state.sent >= old.state.sent /\ old.state.read \subseteq new.state.read
      \/ new.binding.epoch = old.binding.epoch + 1
  BY Zenon, <1>5 DEF Follows
<1>7. new.consumed = old.consumed /\ Bound(new.binding, new.state)
  BY Zenon DEF Follows
<1> HIDE DEF after, old
<1>8. RecordsBound(after)
  BY Zenon, <1>2, <1>3, <1>7 DEF Behind, RecordsBound
<1>9. KeysApart(after)
  <2>1. \A s \in MLSRooms : (after[s] # NoRecord <=> records[s] # NoRecord)
                            /\ after[s].consumed = records[s].consumed
    BY Zenon, <1>2, <1>3, <1>7 DEF old
  <2> QED
    BY Zenon, <2>1 DEF Behind, KeysApart
<1>10. SealedBehind(after, seals)
  <2> SUFFICES ASSUME NEW a \in seals
               PROVE  /\ after[a.room] # NoRecord /\ after[a.room].binding.epoch >= EpochOf(a.epoch)
                      /\ after[a.room].binding.ref = a.epoch => after[a.room].state.sent > a.at
    BY Zenon DEF SealedBehind
  <2>1. a.room \in MLSRooms /\ a.at \in Nat /\ EpochOf(a.epoch) \in Nat
    BY Zenon, EpochOfRef DEF HandedOutShapes
  <2>2. /\ records[a.room] # NoRecord /\ records[a.room].binding.epoch >= EpochOf(a.epoch)
        /\ records[a.room].binding.ref = a.epoch => records[a.room].state.sent > a.at
    BY Zenon DEF Behind, SealedBehind
  <2>3. CASE a.room # r
    BY Zenon, <1>2, <2>1, <2>2, <2>3
  <2>4. CASE a.room = r
    <3>1. /\ old.binding.epoch >= EpochOf(a.epoch)
          /\ old.binding.ref = a.epoch => old.state.sent > a.at
      BY Zenon, <2>2, <2>4 DEF old
    <3>2. new.binding.epoch >= EpochOf(a.epoch)
      BY <1>4, <1>6, <2>1, <3>1
    <3>3. new.binding.ref = a.epoch => new.state.sent > a.at
      BY <1>4, <1>5, <1>6, <2>1, <3>1
    <3> QED
      BY Zenon, <1>2, <1>3, <2>4, <3>2, <3>3
  <2> QED
    BY Zenon, <2>3, <2>4
<1>11. CommitsBehind(after, commits)
  <2> SUFFICES ASSUME NEW a \in commits
               PROVE  /\ after[a.room] # NoRecord /\ after[a.room].binding.epoch >= a.epoch
                      /\ after[a.room].binding.epoch = a.epoch => after[a.room].binding.ref = a.ref
    BY Zenon DEF CommitsBehind
  <2>1. a.room \in MLSRooms /\ a.epoch \in Nat
    BY SMTT(40), GroupAssumption DEF HandedOutShapes
  <2>2. /\ records[a.room] # NoRecord /\ records[a.room].binding.epoch >= a.epoch
        /\ records[a.room].binding.epoch = a.epoch => records[a.room].binding.ref = a.ref
    BY Zenon DEF Behind, CommitsBehind
  <2>3. CASE a.room # r
    BY Zenon, <1>2, <2>1, <2>2, <2>3
  <2>4. CASE a.room = r
    BY <1>2, <1>3, <1>4, <1>6, <2>1, <2>2, <2>4 DEF old
  <2> QED
    BY Zenon, <2>3, <2>4
<1>12. OpenedBehind(after, plain)
  <2> SUFFICES ASSUME NEW s \in MLSRooms, NEW e \in 0..MaxMLSEpoch, NEW m \in PeerMessages,
                      plain[s][e][m] # 0
               PROVE  /\ after[s] # NoRecord /\ after[s].binding.epoch >= e
                      /\ after[s].binding.epoch = e => m \in after[s].state.read
    BY Zenon DEF OpenedBehind
  <2>1. /\ records[s] # NoRecord /\ records[s].binding.epoch >= e
        /\ records[s].binding.epoch = e => m \in records[s].state.read
    BY Zenon DEF Behind, OpenedBehind
  <2>2. CASE s # r
    BY Zenon, <1>2, <2>1, <2>2
  <2>3. CASE s = r
    BY <1>2, <1>3, <1>4, <1>6, <2>1, <2>3, GroupAssumption DEF old
  <2> QED
    BY Zenon, <2>2, <2>3
<1> QED
  BY Zenon, <1>8, <1>9, <1>10, <1>11, <1>12 DEF Behind, after

-----------------------------------------------------------------------------
(* The steps *)

\* At the start there is no record and nothing was handed out.
LEMMA GroupInvInit == GroupInit => GroupInv
<1> SUFFICES ASSUME GroupInit PROVE GroupInv
  BY Zenon
<1>1. \A r \in MLSRooms : mlsRecord[r] = NoRecord /\ recordSafe[r] = NoRecord
  BY Zenon DEF GroupInit
<1>2. \A r \in MLSRooms, e \in 0..MaxMLSEpoch, m \in PeerMessages : opened[r][e][m] = 0
  BY Zenon DEF GroupInit
<1>3. HandedOutShapes(sealed, committed, opened)
  BY Zenon DEF GroupInit, HandedOutShapes
<1>4. GenerationSealsOnce /\ OneCommitPerEpoch /\ groupCalls \in Nat /\ CallsFaithful
  BY Zenon DEF GroupInit, GenerationSealsOnce, OneCommitPerEpoch, CallsFaithful
<1>5. ASSUME NEW records \in {mlsRecord, recordSafe}
      PROVE  Behind(records, sealed, committed, opened)
  <2>1. RecordsBound(records)
    BY Zenon, <1>1 DEF GroupInit, RecordsBound
  <2>2. KeysApart(records) /\ OpenedBehind(records, opened)
    BY Zenon, <1>1, <1>2 DEF KeysApart, OpenedBehind
  <2>3. SealedBehind(records, sealed) /\ CommitsBehind(records, committed)
    BY Zenon DEF GroupInit, SealedBehind, CommitsBehind
  <2> QED
    BY Zenon, <2>1, <2>2, <2>3 DEF Behind
<1> QED
  BY Zenon, <1>3, <1>4, <1>5 DEF GroupInv

\* A write that hands nothing out: the new record is there or not, and safe or not.
LEMMA QuietWriteKeepsInv ==
    ASSUME GroupInv, NEW after, Behind(after, sealed, committed, opened),
           mlsRecord' = mlsRecord \/ mlsRecord' = after,
           recordSafe' = recordSafe \/ recordSafe' = mlsRecord',
           UNCHANGED <<sealed, committed, opened>>, CallsFaithful', groupCalls' \in Nat
    PROVE  GroupInv'
<1>1. Behind(mlsRecord', sealed, committed, opened)
  BY Zenon DEF GroupInv
<1>2. Behind(recordSafe', sealed, committed, opened)
  BY Zenon, <1>1 DEF GroupInv
<1>3. GenerationSealsOnce' /\ OneCommitPerEpoch'
  BY Zenon DEF GroupInv, GenerationSealsOnce, OneCommitPerEpoch
<1>4. HandedOutShapes(sealed', committed', opened')
  BY Zenon DEF GroupInv
<1> QED
  BY Zenon, <1>1, <1>2, <1>3, <1>4 DEF GroupInv

\* The record of a room in force is again a function of the rooms when all of it is safe.
LEMMA AllSafe ==
    ASSUME NEW records \in [MLSRooms -> MLSRecords \cup {NoRecord}]
    PROVE  [s \in MLSRooms |-> records[s]] = records
BY Zenon

\* Join and CreateFounder write the first record of a room.
LEMMA InstallKeepsInv ==
    ASSUME GroupInv, NEW r \in MLSRooms, NEW k \in KeyPackages, NEW new \in MLSRecords,
           Bound(new.binding, new.state), new.consumed = {k}, Install(r, k, new)
    PROVE  GroupInv'
<1> DEFINE after == [mlsRecord EXCEPT ![r] = new]
<1>1. mlsRecord[r] = NoRecord /\ running' = running /\ groupCalls' = groupCalls + 1
  BY Zenon DEF Install, Called
<1>2. \A s \in MLSRooms : mlsRecord[s] # NoRecord => mlsRecord[s].consumed \cap new.consumed = {}
  BY Zenon DEF Install, keyPackageConsumed
<1>3. Behind(after, sealed, committed, opened)
  BY Zenon, <1>1, <1>2, InstallKeepsBehind DEF GroupInv
<1>4. after \in [MLSRooms -> MLSRecords \cup {NoRecord}]
  BY Zenon, <1>3 DEF Behind, RecordsBound
<1>5. /\ mlsRecord' = mlsRecord \/ mlsRecord' = after
      /\ recordSafe' = recordSafe \/ recordSafe' = mlsRecord'
      /\ UNCHANGED <<sealed, committed, opened>>
  <2>1. CASE /\ mlsRecord' = after /\ recordSafe' = [s \in MLSRooms |-> mlsRecord'[s]]
             /\ UNCHANGED <<sealed, committed, opened>>
    BY Zenon, <1>4, <2>1, AllSafe
  <2>2. CASE /\ mlsRecord' = mlsRecord \/ mlsRecord' = after
             /\ UNCHANGED <<recordSafe, sealed, committed, opened>>
    BY Zenon, <2>2
  <2> QED
    BY Zenon, <2>1, <2>2 DEF Install, Replaced
<1>6. CallsFaithful' /\ groupCalls' \in Nat
  BY <1>1 DEF GroupInv, CallsFaithful
<1> HIDE DEF after
<1> QED
  BY Zenon, <1>3, <1>5, <1>6, QuietWriteKeepsInv

\* What the two install is a record of the room.
LEMMA JoinKeepsInv ==
    ASSUME GroupInv, NEW r \in MLSRooms, NEW k \in KeyPackages, NEW w \in Welcomes,
           NEW e \in 1..MaxMLSEpoch, NEW m \in MembershipChoices, Join(r, k, w, e, m)
    PROVE  GroupInv'
<1> DEFINE b == [roomEpoch |-> 1 + e, epoch |-> e, members |-> m, ref |-> <<e, "peer">>]
           new == NewMLSRecord(b, Opaque(<<e, "peer">>), {k}, {w})
<1>1. e \in Nat /\ <<e, "peer">> \in CommitRefs /\ EpochOf(<<e, "peer">>) = e
  <2>1. e \in Nat
    BY GroupAssumption
  <2>2. "peer" \in Nat \cup {"peer"}
    BY Zenon
  <2> QED
    BY Zenon, <2>1, <2>2, EpochOfRef
<1>2. new \in MLSRecords /\ new.consumed = {k}
  BY <1>1 DEF NewMLSRecord, Opaque, MLSRecords, MLSBindings, MLSStates
<1>3. Bound(new.binding, new.state)
  BY Zenon, <1>1 DEF NewMLSRecord, Opaque, Bound
<1>4. Install(r, k, new)
  BY Zenon DEF Join
<1> HIDE DEF new
<1> QED
  BY Zenon, <1>2, <1>3, <1>4, InstallKeepsInv

LEMMA FoundKeepsInv ==
    ASSUME GroupInv, NEW r \in MLSRooms, NEW k \in KeyPackages,
           NEW m \in MembershipChoices, CreateFounder(r, k, m)
    PROVE  GroupInv'
<1> DEFINE b == [roomEpoch |-> 1, epoch |-> 0, members |-> m, ref |-> NoRecord]
           new == NewMLSRecord(b, Opaque(NoRecord), {k}, {})
<1>1. NoRecord \in CommitRefs /\ EpochOf(NoRecord) = 0 /\ 0 \in 0..MaxMLSEpoch
  BY SMTT(40), EpochOfRef, GroupAssumption DEF CommitRefs
<1>2. new \in MLSRecords /\ new.consumed = {k}
  BY Zenon, <1>1 DEF NewMLSRecord, Opaque, MLSRecords, MLSBindings, MLSStates
<1>3. Bound(new.binding, new.state)
  BY Zenon, <1>1 DEF NewMLSRecord, Opaque, Bound
<1>4. Install(r, k, new)
  BY Zenon DEF CreateFounder
<1> HIDE DEF new
<1> QED
  BY Zenon, <1>2, <1>3, <1>4, InstallKeepsInv

\* A started call is faithful to the record it read, which is the one in force.
LEMMA StartedIsFaithful ==
    ASSUME GroupInv, NEW c \in GroupCallers, NEW r \in MLSRooms, StartCall(c, r)
    PROVE  \E call : /\ Faithful(call) /\ call.room = r /\ Timely(call, mlsRecord[r])
                    /\ running' = [running EXCEPT ![c] = call]
<1> DEFINE b == mlsRecord[r].binding
           s == mlsRecord[r].state
<1>1. /\ b \in MLSBindings /\ s \in MLSStates /\ Bound(b, s)
      /\ groupCalls \in Nat /\ b.epoch \in Nat /\ b.epoch = EpochOf(s.commit)
      /\ mlsRecord[r] # NoRecord
  <2>1. mlsRecord[r] \in MLSRecords /\ Bound(b, s)
    BY Zenon DEF StartCall, GroupInv, Behind, RecordsBound
  <2>2. b \in MLSBindings /\ s \in MLSStates
    BY Zenon, <2>1 DEF MLSRecords
  <2>3. b.epoch \in 0..MaxMLSEpoch
    BY Zenon, <2>2 DEF MLSBindings
  <2> QED
    BY SMTT(40), <2>1, <2>2, <2>3, GroupAssumption DEF GroupInv, Bound, StartCall
<1> DEFINE Call(what, next, binding, output) ==
              [what |-> what, room |-> r, from |-> s, next |-> next,
               binding |-> binding, output |-> output]
<1>2. CASE StartSeal(c, r)
  <2>1. running' = [running EXCEPT ![c] = Call("seal", SidecarSeal(s), b, groupCalls)]
    BY Zenon, <1>2 DEF StartSeal, Start
  <2>2. /\ SidecarSeal(s) \in MLSStates /\ SidecarSeal(s).sent > s.sent
        /\ SidecarSeal(s).sent >= s.sent
        /\ SidecarSeal(s).commit = s.commit /\ SidecarSeal(s).read = s.read
    BY SMTT(40), <1>1 DEF SidecarSeal, MLSStates
  <2>3. Faithful(Call("seal", SidecarSeal(s), b, groupCalls))
    BY ZenonT(40), <1>1, <2>2 DEF Faithful, Bound
  <2>4. Timely(Call("seal", SidecarSeal(s), b, groupCalls), mlsRecord[r])
    BY Zenon, <1>1 DEF Timely
  <2> QED
    BY Zenon, <2>1, <2>3, <2>4
<1>3. CASE \E m \in PeerMessages : StartOpen(c, r, m)
  <2>1. PICK m \in PeerMessages : StartOpen(c, r, m)
    BY Zenon, <1>3
  <2>2. /\ m \notin s.read
        /\ running' = [running EXCEPT ![c] = Call("open", SidecarOpen(s, m), b, m)]
    BY Zenon, <2>1 DEF StartOpen, Start
  <2>3. /\ SidecarOpen(s, m) \in MLSStates /\ SidecarOpen(s, m).sent >= s.sent
        /\ SidecarOpen(s, m).commit = s.commit /\ SidecarOpen(s, m).read = s.read \cup {m}
    BY SMTT(40), <1>1 DEF SidecarOpen, MLSStates
  <2>4. Faithful(Call("open", SidecarOpen(s, m), b, m))
    BY ZenonT(40), <1>1, <2>2, <2>3 DEF Faithful, Bound
  <2>5. Timely(Call("open", SidecarOpen(s, m), b, m), mlsRecord[r])
    BY ZenonT(40), <1>1 DEF Timely
  <2> QED
    BY Zenon, <2>2, <2>4, <2>5
<1>4. ASSUME NEW by \in Nat \cup {"peer"}, b.epoch < MaxMLSEpoch,
             NEW next \in Successors(b, <<b.epoch + 1, by>>)
      PROVE  /\ next \in MLSBindings /\ next.epoch = EpochOf(s.commit) + 1
             /\ next.ref = <<b.epoch + 1, by>> /\ next.roomEpoch >= b.roomEpoch
             /\ SidecarCommit(<<b.epoch + 1, by>>) \in MLSStates
             /\ Bound(next, SidecarCommit(<<b.epoch + 1, by>>))
  <2> DEFINE ref == <<b.epoch + 1, by>>
  <2>1. b.epoch + 1 \in Nat /\ b.epoch + 1 \in 0..MaxMLSEpoch
    BY <1>1, <1>4, GroupAssumption
  <2>2. ref \in CommitRefs /\ EpochOf(ref) = b.epoch + 1
    BY Zenon, <1>4, <2>1, EpochOfRef
  <2> HIDE DEF ref
  <2>3. /\ next \in MLSBindings /\ next.epoch = b.epoch + 1 /\ next.ref = ref
        /\ next.roomEpoch >= b.roomEpoch
    <3>1. \/ next = [b EXCEPT !.epoch = @ + 1, !.ref = ref]
          \/ \E m \in MembershipChoices :
                next = [roomEpoch |-> b.roomEpoch + 1, epoch |-> b.epoch + 1, members |-> m, ref |-> ref]
      BY Zenon, <1>4 DEF Successors, ref
    <3>2. b.roomEpoch \in Nat /\ b.roomEpoch + 1 \in Nat
      BY <1>1 DEF MLSBindings
    <3>3. CASE next = [b EXCEPT !.epoch = @ + 1, !.ref = ref]
      <4>1. next \in MLSBindings /\ next.epoch = b.epoch + 1 /\ next.ref = ref
        BY Zenon, <1>1, <2>1, <2>2, <3>3 DEF MLSBindings
      <4>2. next.roomEpoch = b.roomEpoch
        BY Zenon, <1>1, <3>3 DEF MLSBindings
      <4>3. next.roomEpoch >= b.roomEpoch
        BY SMTT(40), <3>2, <4>2
      <4> QED
        BY Zenon, <4>1, <4>3
    <3>4. ASSUME NEW m \in MembershipChoices,
                 next = [roomEpoch |-> b.roomEpoch + 1, epoch |-> b.epoch + 1, members |-> m, ref |-> ref]
          PROVE  /\ next \in MLSBindings /\ next.epoch = b.epoch + 1 /\ next.ref = ref
                 /\ next.roomEpoch >= b.roomEpoch
      BY <2>1, <2>2, <3>2, <3>4 DEF MLSBindings
    <3> QED
      BY Zenon, <3>1, <3>3, <3>4
  <2>4. SidecarCommit(ref) \in MLSStates /\ SidecarCommit(ref).commit = ref
    BY Zenon, <2>2 DEF SidecarCommit, Opaque, MLSStates
  <2> QED
    BY Zenon, <1>1, <2>2, <2>3, <2>4 DEF Bound, ref
<1>5. CASE StartCommit(c, r)
  <2> DEFINE ref == <<b.epoch + 1, groupCalls>>
  <2>1. PICK next \in Successors(b, ref) :
             running' = [running EXCEPT ![c] = Call("commit", SidecarCommit(ref), next, ref)]
    BY Zenon, <1>5 DEF StartCommit, Start
  <2>2. b.epoch < MaxMLSEpoch /\ groupCalls \in Nat \cup {"peer"}
    BY Zenon, <1>1, <1>5 DEF StartCommit
  <2>3. /\ next \in MLSBindings /\ next.epoch = EpochOf(s.commit) + 1 /\ next.ref = ref
        /\ next.roomEpoch >= b.roomEpoch
        /\ SidecarCommit(ref) \in MLSStates /\ Bound(next, SidecarCommit(ref))
    BY ZenonT(30), <1>4, <2>2
  <2> HIDE DEF ref
  <2>4. Faithful(Call("commit", SidecarCommit(ref), next, ref))
    BY ZenonT(40), <1>1, <2>3 DEF Faithful
  <2>5. Timely(Call("commit", SidecarCommit(ref), next, ref), mlsRecord[r])
    BY Zenon, <1>1, <2>3 DEF Timely
  <2> QED
    BY Zenon, <2>1, <2>4, <2>5
<1>6. CASE StartApply(c, r)
  <2> DEFINE ref == <<b.epoch + 1, "peer">>
  <2>1. PICK next \in Successors(b, ref) :
             running' = [running EXCEPT ![c] = Call("apply", SidecarCommit(ref), next, ref)]
    BY Zenon, <1>6 DEF StartApply, Start
  <2>2. b.epoch < MaxMLSEpoch
    BY Zenon, <1>6 DEF StartApply
  <2>3. "peer" \in Nat \cup {"peer"}
    BY Zenon
  <2>4. /\ next \in MLSBindings /\ next.epoch = EpochOf(s.commit) + 1 /\ next.ref = ref
        /\ next.roomEpoch >= b.roomEpoch
        /\ SidecarCommit(ref) \in MLSStates /\ Bound(next, SidecarCommit(ref))
    BY ZenonT(40), <1>4, <2>2, <2>3
  <2> HIDE DEF ref
  <2>5. Faithful(Call("apply", SidecarCommit(ref), next, ref))
    BY ZenonT(40), <1>1, <2>4 DEF Faithful
  <2>6. Timely(Call("apply", SidecarCommit(ref), next, ref), mlsRecord[r])
    BY Zenon, <1>1, <2>4 DEF Timely
  <2> QED
    BY Zenon, <2>1, <2>5, <2>6
<1> QED
  BY Zenon, <1>2, <1>3, <1>5, <1>6 DEF StartCall

LEMMA StartKeepsInv ==
    ASSUME GroupInv, NEW c \in GroupCallers, NEW r \in MLSRooms, StartCall(c, r)
    PROVE  GroupInv'
<1>1. PICK call : Faithful(call) /\ running' = [running EXCEPT ![c] = call]
  BY Zenon, StartedIsFaithful
<1>2. CallsFaithful'
  BY Zenon, <1>1 DEF GroupInv, CallsFaithful
<1>3. groupCalls' \in Nat
  BY SMTT(40) DEF StartCall, Called, GroupInv
<1>4. UNCHANGED <<mlsRecord, recordSafe, sealed, committed, opened>>
  BY Zenon DEF StartCall
<1> QED
  BY Zenon, <1>2, <1>3, <1>4, QuietWriteKeepsInv DEF GroupInv

\* A call that finds the record as it read it writes one that follows it.
LEMMA FinishedFollows ==
    ASSUME GroupInv, NEW c \in GroupCallers, running[c] # NoRecord,
           mlsRecord[running[c].room] # NoRecord, SamePrior(c)
    PROVE  LET call == running[c]
               old == mlsRecord[call.room]
               new == [old EXCEPT !.binding = call.binding, !.state = call.next]
           IN  /\ Follows(old, new) /\ old.state = call.from
               /\ new.binding = call.binding /\ new.state = call.next
               /\ old \in MLSRecords /\ Bound(old.binding, old.state) /\ Faithful(call)
<1> DEFINE call == running[c]
           old == mlsRecord[call.room]
           new == [old EXCEPT !.binding = call.binding, !.state = call.next]
<1>1. Faithful(call) /\ call.room \in MLSRooms
  BY Zenon DEF GroupInv, CallsFaithful, Faithful
<1>2. old \in MLSRecords /\ Bound(old.binding, old.state) /\ old.state = call.from
  BY ZenonT(40), <1>1 DEF GroupInv, Behind, RecordsBound, SamePrior
<1>3. /\ call.binding \in MLSBindings /\ call.next \in MLSStates
      /\ Bound(call.binding, call.next)
      /\ call.what \in {"seal", "open", "commit", "apply"}
  BY Zenon, <1>1 DEF Faithful
<1>4. /\ new \in MLSRecords /\ new.binding = call.binding /\ new.state = call.next
      /\ new.consumed = old.consumed
  BY Zenon, <1>2, <1>3 DEF MLSRecords
<1> HIDE DEF new, old, call
<1>5. CASE call.what \in {"seal", "open"}
  <2>1. /\ call.next.commit = call.from.commit
        /\ call.next.sent >= call.from.sent /\ call.from.read \subseteq call.next.read
    BY SMTT(40), <1>1, <1>5 DEF Faithful
  <2>2. new.binding.ref = old.binding.ref
    BY Zenon, <1>2, <1>3, <1>4, <2>1 DEF Bound
  <2> QED
    BY Zenon, <1>1, <1>2, <1>3, <1>4, <2>1, <2>2 DEF Follows, new, old, call
<1>6. CASE call.what \in {"commit", "apply"}
  <2>1. call.binding.epoch = EpochOf(call.from.commit) + 1
    BY Zenon, <1>1, <1>6 DEF Faithful
  <2>2. new.binding.epoch = old.binding.epoch + 1
    BY Zenon, <1>2, <1>4, <2>1 DEF Bound
  <2> QED
    BY Zenon, <1>1, <1>2, <1>3, <1>4, <2>2 DEF Follows, new, old, call
<1> QED
  BY Zenon, <1>3, <1>5, <1>6

\* What a successful write hands out is behind the record it wrote, and new.
LEMMA HandOutKeepsInv ==
    ASSUME GroupInv, NEW c \in GroupCallers, running[c] # NoRecord,
           mlsRecord[running[c].room] # NoRecord, SamePrior(c), HandOut(running[c]),
           mlsRecord' = [mlsRecord EXCEPT ![running[c].room] =
              [mlsRecord[running[c].room] EXCEPT !.binding = running[c].binding,
                                                 !.state = running[c].next]]
    PROVE  /\ Behind(mlsRecord', sealed', committed', opened')
           /\ HandedOutShapes(sealed', committed', opened')
           /\ GenerationSealsOnce' /\ OneCommitPerEpoch'
<1> DEFINE call == running[c]
           r == call.room
           b == call.binding
           old == mlsRecord[r]
           new == [old EXCEPT !.binding = call.binding, !.state = call.next]
<1>1. /\ Follows(old, new) /\ old.state = call.from /\ new.binding = b /\ new.state = call.next
      /\ old \in MLSRecords /\ Bound(old.binding, old.state) /\ Faithful(call)
  BY Zenon, FinishedFollows
<1>2. r \in MLSRooms /\ b \in MLSBindings /\ call.from \in MLSStates /\ call.next \in MLSStates
  BY Zenon, <1>1 DEF Faithful
<1>3. Behind(mlsRecord', sealed, committed, opened)
  BY Zenon, <1>1, <1>2, FollowingKeepsBehind DEF GroupInv
<1>4. mlsRecord'[r] = new /\ new # NoRecord
  <2>1. mlsRecord \in [MLSRooms -> MLSRecords \cup {NoRecord}]
    BY Zenon DEF GroupInv, Behind, RecordsBound
  <2>2. new # NoRecord
    BY Zenon, <1>1, GroupAssumption DEF Follows
  <2> QED
    BY Zenon, <1>2, <2>1, <2>2
<1>5. /\ b.epoch \in Nat /\ b.epoch \in 0..MaxMLSEpoch /\ b.ref \in CommitRefs
      /\ b.epoch = EpochOf(b.ref) /\ call.from.sent \in Nat /\ call.next.sent \in Nat
      /\ b.ref = call.next.commit
  BY <1>1, <1>2, GroupAssumption DEF MLSBindings, MLSStates, Faithful, Bound
<1>6. /\ old.binding.epoch \in Nat /\ old.binding.ref = call.from.commit
      /\ old.binding.epoch = EpochOf(call.from.commit) /\ old # NoRecord
  BY <1>1, GroupAssumption DEF MLSRecords, MLSBindings, Bound
<1> HIDE DEF new, old, b, r, call
<1>7. CASE call.what = "seal"
  <2> DEFINE x == [room |-> r, epoch |-> b.ref, at |-> call.from.sent, text |-> call.output]
  <2>1. sealed' = sealed \cup {x} /\ UNCHANGED <<committed, opened>>
    BY Zenon, <1>7 DEF HandOut, call, r, b
  <2>2. /\ x.room = r /\ x.epoch = b.ref /\ x.at = call.from.sent
    BY Zenon
  <2> HIDE DEF x
  <2>3. call.next.sent > call.from.sent /\ call.next.commit = call.from.commit
    BY Zenon, <1>1, <1>7 DEF Faithful
  <2>4. SealedBehind(mlsRecord', sealed')
    <3>1. /\ mlsRecord'[x.room] # NoRecord /\ mlsRecord'[x.room].binding.epoch >= EpochOf(x.epoch)
          /\ mlsRecord'[x.room].state.sent > x.at
      <4>1. mlsRecord'[x.room] = new /\ new.binding = b /\ new.state = call.next
        BY Zenon, <1>1, <1>4, <2>2
      <4>2. b.epoch >= EpochOf(x.epoch) /\ call.next.sent > x.at
        BY <1>5, <2>2, <2>3
      <4> QED
        BY Zenon, <1>4, <4>1, <4>2
    <3> QED
      BY Zenon, <1>3, <2>1, <3>1 DEF Behind, SealedBehind
  <2>5. \A a \in sealed : ~(a.room = x.room /\ a.epoch = x.epoch /\ a.at = x.at)
    <3> SUFFICES ASSUME NEW a \in sealed, a.room = r, a.epoch = b.ref, a.at = call.from.sent
                 PROVE  FALSE
      BY Zenon, <2>2
    <3>1. old.binding.ref = a.epoch => old.state.sent > a.at
      BY Zenon DEF GroupInv, Behind, SealedBehind, old
    <3>2. old.binding.ref = a.epoch
      BY Zenon, <1>5, <1>6, <2>3
    <3> QED
      BY <1>1, <1>5, <3>1, <3>2
  <2>6. GenerationSealsOnce'
    BY <2>1, <2>5 DEF GroupInv, GenerationSealsOnce
  <2>7. OneCommitPerEpoch'
    BY Zenon, <2>1 DEF GroupInv, OneCommitPerEpoch
  <2>8. HandedOutShapes(sealed', committed', opened')
    BY Zenon, <1>2, <1>5, <2>1, <2>2 DEF GroupInv, HandedOutShapes
  <2> QED
    BY Zenon, <1>3, <2>1, <2>4, <2>6, <2>7, <2>8 DEF Behind
<1>8. CASE call.what = "open"
  <2> DEFINE m == call.output
             e == b.epoch
  <2>1. opened' = [opened EXCEPT ![r] = [opened[r] EXCEPT ![e] =
                      [opened[r][e] EXCEPT ![m] = opened[r][e][m] + 1]]]
        /\ UNCHANGED <<sealed, committed>>
    BY Zenon, <1>8 DEF HandOut, call, r, b
  <2>2. /\ m \in PeerMessages /\ m \notin call.from.read /\ m \in call.next.read
        /\ call.next.commit = call.from.commit
    BY Zenon, <1>1, <1>8 DEF Faithful
  <2>3. opened[r][e][m] = 0
    <3>1. old.binding.epoch = e
      BY Zenon, <1>5, <1>6, <2>2
    <3>2. m \notin old.state.read
      BY Zenon, <1>1, <2>2
    <3> QED
      BY Zenon, <1>2, <1>5, <2>2, <3>1, <3>2 DEF GroupInv, Behind, OpenedBehind, old
  <2>4. opened \in [MLSRooms -> [0..MaxMLSEpoch -> [PeerMessages -> {0, 1}]]]
    BY Zenon DEF GroupInv, HandedOutShapes
  <2> HIDE DEF m, e
  <2>5. opened' \in [MLSRooms -> [0..MaxMLSEpoch -> [PeerMessages -> {0, 1}]]]
    <3>1. opened[r] \in [0..MaxMLSEpoch -> [PeerMessages -> {0, 1}]]
      BY Zenon, <1>2, <2>4
    <3>2. opened[r][e] \in [PeerMessages -> {0, 1}]
      BY Zenon, <1>5, <3>1 DEF e
    <3>3. opened[r][e][m] + 1 = 1
      BY <2>3
    <3>4. [opened[r][e] EXCEPT ![m] = opened[r][e][m] + 1] \in [PeerMessages -> {0, 1}]
      BY Zenon, <3>2, <3>3
    <3>5. [opened[r] EXCEPT ![e] = [opened[r][e] EXCEPT ![m] = opened[r][e][m] + 1]]
             \in [0..MaxMLSEpoch -> [PeerMessages -> {0, 1}]]
      BY Zenon, <3>1, <3>4
    <3> QED
      BY Zenon, <2>1, <2>4, <3>5
  <2>6. \A s \in MLSRooms, f \in 0..MaxMLSEpoch, n \in PeerMessages :
           (s = r /\ f = e /\ n = m) \/ opened'[s][f][n] = opened[s][f][n]
    BY <1>2, <1>5, <2>1, <2>2, <2>4 DEF e
  <2>7. OpenedBehind(mlsRecord', opened')
    <3>1. /\ mlsRecord'[r] # NoRecord /\ mlsRecord'[r].binding.epoch = e
          /\ m \in mlsRecord'[r].state.read
      BY Zenon, <1>1, <1>4, <2>2 DEF e
    <3>2. e >= e
      BY <1>5 DEF e
    <3> QED
      BY <1>3, <2>6, <3>1, <3>2 DEF Behind, OpenedBehind
  <2>8. GenerationSealsOnce' /\ OneCommitPerEpoch'
    BY Zenon, <2>1 DEF GroupInv, GenerationSealsOnce, OneCommitPerEpoch
  <2>9. HandedOutShapes(sealed', committed', opened')
    BY Zenon, <2>1, <2>5 DEF GroupInv, HandedOutShapes
  <2> QED
    BY SMTT(40), <1>3, <2>1, <2>7, <2>8, <2>9 DEF Behind
<1>9. CASE call.what = "commit"
  <2> DEFINE x == [room |-> r, epoch |-> b.epoch, ref |-> call.output]
  <2>1. committed' = committed \cup {x} /\ UNCHANGED <<sealed, opened>>
    BY Zenon, <1>9 DEF HandOut, call, r, b
  <2>2. /\ x.room = r /\ x.epoch = b.epoch /\ x.ref = b.ref
    BY Zenon, <1>1, <1>9 DEF Faithful, b
  <2> HIDE DEF x
  <2>3. b.epoch = old.binding.epoch + 1
    BY Zenon, <1>1, <1>6, <1>9 DEF Faithful, b
  <2>4. CommitsBehind(mlsRecord', committed')
    <3>1. /\ mlsRecord'[x.room] # NoRecord /\ mlsRecord'[x.room].binding.epoch >= x.epoch
          /\ mlsRecord'[x.room].binding.ref = x.ref
      <4>1. mlsRecord'[x.room] = new /\ new.binding = b
        BY Zenon, <1>1, <1>4, <2>2
      <4>2. b.epoch >= x.epoch /\ b.ref = x.ref
        BY <1>5, <2>2
      <4> QED
        BY Zenon, <1>4, <4>1, <4>2
    <3> QED
      BY Zenon, <1>3, <2>1, <3>1 DEF Behind, CommitsBehind
  <2>5. \A a \in committed : ~(a.room = x.room /\ a.epoch = x.epoch)
    <3> SUFFICES ASSUME NEW a \in committed, a.room = r, a.epoch = b.epoch PROVE FALSE
      BY Zenon, <2>2
    <3>1. old.binding.epoch >= a.epoch
      BY Zenon DEF GroupInv, Behind, CommitsBehind, old
    <3> QED
      BY <1>5, <1>6, <2>3, <3>1
  <2>6. OneCommitPerEpoch'
    BY Zenon, <2>1, <2>5 DEF GroupInv, OneCommitPerEpoch
  <2>7. GenerationSealsOnce'
    BY Zenon, <2>1 DEF GroupInv, GenerationSealsOnce
  <2>8. HandedOutShapes(sealed', committed', opened')
    BY Zenon, <1>2, <1>5, <2>1, <2>2 DEF GroupInv, HandedOutShapes
  <2> QED
    BY Zenon, <1>3, <2>1, <2>4, <2>6, <2>7, <2>8 DEF Behind
<1>10. CASE call.what = "apply"
  <2>1. UNCHANGED <<sealed, committed, opened>>
    BY Zenon, <1>10 DEF HandOut, call
  <2>2. GenerationSealsOnce' /\ OneCommitPerEpoch'
    BY Zenon, <2>1 DEF GroupInv, GenerationSealsOnce, OneCommitPerEpoch
  <2> QED
    BY Zenon, <1>3, <2>1, <2>2 DEF GroupInv
<1> QED
  BY Zenon, <1>1, <1>7, <1>8, <1>9, <1>10 DEF Faithful

\* A call that lost the comparison changes nothing; one that won writes, and hands
\* out only when the write succeeded.
LEMMA FinishKeepsInv ==
    ASSUME GroupInv, NEW c \in GroupCallers, FinishCall(c)
    PROVE  GroupInv'
<1> DEFINE call == running[c]
           old == mlsRecord[call.room]
           new == [old EXCEPT !.binding = call.binding, !.state = call.next]
           after == [mlsRecord EXCEPT ![call.room] = new]
<1>1. running[c] # NoRecord /\ running' = [running EXCEPT ![c] = NoRecord] /\ groupCalls' = groupCalls
  BY Zenon DEF FinishCall
<1>2. CallsFaithful' /\ groupCalls' \in Nat
  BY Zenon, <1>1 DEF GroupInv, CallsFaithful
<1>3. CASE old = NoRecord \/ ~SamePrior(c)
  <2>1. UNCHANGED <<mlsRecord, recordSafe, sealed, committed, opened>>
    BY Zenon, <1>3 DEF FinishCall
  <2> QED
    BY Zenon, <1>2, <2>1, QuietWriteKeepsInv DEF GroupInv
<1>4. CASE old # NoRecord /\ SamePrior(c)
  <2>1. Replaced(call.room, new, HandOut(call))
    BY Zenon, <1>4 DEF FinishCall
  <2>2. CASE /\ mlsRecord' = after /\ recordSafe' = [s \in MLSRooms |-> mlsRecord'[s]]
             /\ HandOut(call)
    <3>1. /\ Behind(mlsRecord', sealed', committed', opened')
          /\ HandedOutShapes(sealed', committed', opened')
          /\ GenerationSealsOnce' /\ OneCommitPerEpoch'
      BY Zenon, <1>1, <1>4, <2>2, HandOutKeepsInv
    <3>2. recordSafe' = mlsRecord'
      BY Zenon, <2>2, <3>1, AllSafe DEF Behind, RecordsBound
    <3> QED
      BY ZenonT(30), <1>2, <3>1, <3>2 DEF GroupInv
  <2>3. CASE /\ mlsRecord' = mlsRecord \/ mlsRecord' = after
             /\ UNCHANGED <<recordSafe, sealed, committed, opened>>
    <3>1. Follows(old, new) /\ call.room \in MLSRooms
      BY Zenon, <1>1, <1>4, FinishedFollows DEF Faithful
    <3>2. Behind(after, sealed, committed, opened)
      BY Zenon, <1>4, <3>1, FollowingKeepsBehind DEF GroupInv
    <3> HIDE DEF after
    <3> QED
      BY Zenon, <1>2, <2>3, <3>2, QuietWriteKeepsInv
  <2> QED
    BY Zenon, <2>1, <2>2, <2>3 DEF Replaced
<1> QED
  BY Zenon, <1>3, <1>4

\* A crash ends the calls and may bring back what is safe.
LEMMA CrashKeepsInv ==
    ASSUME GroupInv, GroupCrash
    PROVE  GroupInv'
<1>1. CallsFaithful' /\ groupCalls' \in Nat
  BY Zenon DEF GroupCrash, GroupInv, CallsFaithful
<1>2. /\ mlsRecord' = mlsRecord \/ mlsRecord' = recordSafe
      /\ UNCHANGED <<recordSafe, sealed, committed, opened>>
  BY Zenon DEF GroupCrash
<1> QED
  BY Zenon, <1>1, <1>2, QuietWriteKeepsInv DEF GroupInv

\* Every step keeps the invariant.
LEMMA GroupInvStep == GroupInv /\ [GroupNext]_groupVars => GroupInv'
<1> SUFFICES ASSUME GroupInv, [GroupNext]_groupVars PROVE GroupInv'
  BY Zenon
<1>1. CASE UNCHANGED groupVars
  <2>1. CallsFaithful' /\ groupCalls' \in Nat
    BY Zenon, <1>1 DEF groupVars, GroupInv, CallsFaithful
  <2> QED
    BY Zenon, <1>1, <2>1, QuietWriteKeepsInv DEF groupVars, GroupInv
<1>2. CASE GroupNext
  BY Zenon, <1>2, JoinKeepsInv, FoundKeepsInv, StartKeepsInv, FinishKeepsInv, CrashKeepsInv
     DEF GroupNext
<1> QED
  BY Zenon, <1>1, <1>2

\* Everything that may be used once is used once (Ratchet, AdvanceFrom, Join and
\* CreateFounder): no interleaving of calls, failed write or crash hands out two
\* ciphertexts of one place of the sender ratchet, two commits of one epoch or one
\* plaintext twice, and no key package joins two rooms.
THEOREM GroupSecretsOnce == GroupSpec => []GroupSecretsUsedOnce
<1>1. ASSUME GroupInv PROVE GroupSecretsUsedOnce
  <2>1. GenerationSealsOnce
    BY Zenon, <1>1 DEF GroupInv
  <2>2. CommitHandedOutOnce
    BY Zenon, <1>1 DEF GroupInv, OneCommitPerEpoch, Behind, CommitsBehind, CommitHandedOutOnce
  <2>3. OpenedOnce
    <3> SUFFICES ASSUME NEW r \in MLSRooms, NEW e \in 0..MaxMLSEpoch, NEW m \in PeerMessages
                 PROVE  opened[r][e][m] <= 1
      BY Zenon DEF OpenedOnce
    <3>1. opened[r][e][m] \in {0, 1}
      BY Zenon, <1>1 DEF GroupInv, HandedOutShapes
    <3> QED
      BY <3>1
  <2>4. KeyPackageJoinsOnce
    BY Zenon, <1>1 DEF GroupInv, Behind, KeysApart, KeyPackageJoinsOnce
  <2> QED
    BY Zenon, <2>1, <2>2, <2>3, <2>4 DEF GroupSecretsUsedOnce
<1> QED
  BY <1>1, GroupInvInit, GroupInvStep, PTL DEF GroupSpec

-----------------------------------------------------------------------------
(* What a loss of power leaves only advances *)


\* Records advance from themselves, and over several steps.
LEMMA AdvancesOrder ==
    /\ \A x \in MLSRecords \cup {NoRecord} : Advances(x, x)
    /\ \A x, y, z \in MLSRecords \cup {NoRecord} : Advances(x, y) /\ Advances(y, z) => Advances(x, z)
<1>1. \A x \in MLSRecords : /\ x.binding.epoch \in Nat /\ x.binding.roomEpoch \in Nat
                            /\ x.state.sent \in Nat
  BY GroupAssumption DEF MLSRecords, MLSBindings, MLSStates
<1>2. ASSUME NEW x \in MLSRecords \cup {NoRecord} PROVE Advances(x, x)
  BY <1>1 DEF Advances
<1>3. ASSUME NEW x \in MLSRecords \cup {NoRecord}, NEW y \in MLSRecords \cup {NoRecord},
             NEW z \in MLSRecords \cup {NoRecord}, Advances(x, y), Advances(y, z), x # NoRecord
      PROVE  Advances(x, z)
  <2>1. x \in MLSRecords /\ y \in MLSRecords /\ z \in MLSRecords /\ z # NoRecord
    BY Zenon, <1>3 DEF Advances
  <2>2. /\ x.binding.epoch \in Nat /\ x.binding.roomEpoch \in Nat /\ x.state.sent \in Nat
        /\ y.binding.epoch \in Nat /\ y.binding.roomEpoch \in Nat /\ y.state.sent \in Nat
        /\ z.binding.epoch \in Nat /\ z.binding.roomEpoch \in Nat /\ z.state.sent \in Nat
    BY Zenon, <1>1, <2>1
  <2>3. CASE y.binding = x.binding /\ z.binding = y.binding
    <3>1. /\ x.state.sent <= y.state.sent /\ x.state.read \subseteq y.state.read
          /\ y.state.sent <= z.state.sent /\ y.state.read \subseteq z.state.read
      BY <1>3, <2>1, <2>2, <2>3 DEF Advances
    <3> QED
      BY <2>1, <2>2, <2>3, <3>1 DEF Advances
  <2>4. CASE ~(y.binding = x.binding /\ z.binding = y.binding)
    <3>1. /\ y.binding.epoch > x.binding.epoch /\ y.binding.roomEpoch >= x.binding.roomEpoch
          \/ y.binding = x.binding
      BY Zenon, <1>3 DEF Advances
    <3>2. /\ z.binding.epoch > y.binding.epoch /\ z.binding.roomEpoch >= y.binding.roomEpoch
          \/ z.binding = y.binding
      BY Zenon, <1>3, <2>1 DEF Advances
    <3>3. z.binding.epoch > x.binding.epoch /\ z.binding.roomEpoch >= x.binding.roomEpoch
      BY <2>2, <2>4, <3>1, <3>2
    <3> QED
      BY Zenon, <2>1, <3>3 DEF Advances
  <2> QED
    BY ZenonT(30), <2>3, <2>4
<1> QED
  BY <1>2, <1>3 DEF Advances

\* A call stays timely while its room's record advances.
LEMMA TimelyKept ==
    ASSUME NEW call, Faithful(call), NEW old \in MLSRecords, NEW new \in MLSRecords \cup {NoRecord},
           old # NoRecord, Timely(call, old), Advances(old, new)
    PROVE  Timely(call, new)
<1>1. new \in MLSRecords /\ new # NoRecord
  BY Zenon DEF Advances
<1>2. old.binding.epoch \in Nat /\ new.binding.epoch \in Nat /\ EpochOf(call.from.commit) \in Nat
  BY <1>1, EpochOfRef, GroupAssumption DEF MLSRecords, MLSBindings, MLSStates, Faithful
<1>3. CASE new.binding = old.binding
  BY Zenon, <1>1, <1>3 DEF Timely
<1>4. CASE new.binding # old.binding
  <2>1. new.binding.epoch > old.binding.epoch
    BY Zenon, <1>4 DEF Advances
  <2> QED
    BY <1>1, <1>2, <2>1 DEF Timely
<1> QED
  BY Zenon, <1>3, <1>4

\* The winner of the comparison writes an advance of the record.
LEMMA FinishedAdvances ==
    ASSUME DurableInv, NEW c \in GroupCallers, running[c] # NoRecord,
           mlsRecord[running[c].room] # NoRecord, SamePrior(c)
    PROVE  LET old == mlsRecord[running[c].room]
           IN  Advances(old, [old EXCEPT !.binding = running[c].binding, !.state = running[c].next])
<1> DEFINE call == running[c]
           old == mlsRecord[call.room]
           new == [old EXCEPT !.binding = call.binding, !.state = call.next]
<1>1. /\ Follows(old, new) /\ old.state = call.from
      /\ new.binding = call.binding /\ new.state = call.next
      /\ old \in MLSRecords /\ Bound(old.binding, old.state) /\ Faithful(call)
  BY Zenon, FinishedFollows DEF DurableInv
<1>2. Timely(call, old)
  BY Zenon DEF DurableInv, CallsTimely
<1>3. new \in MLSRecords /\ new # NoRecord
  BY Zenon, <1>1, GroupAssumption DEF Follows
<1>4. /\ old.binding.epoch \in Nat /\ new.binding.epoch \in Nat
      /\ old.binding.epoch = EpochOf(call.from.commit)
  <2> HIDE DEF new, old, call
  <2>1. \A x \in MLSRecords : x.binding.epoch \in Nat
    BY GroupAssumption DEF MLSRecords, MLSBindings
  <2>2. old.binding.epoch = EpochOf(call.from.commit)
    BY Zenon, <1>1 DEF Bound
  <2> QED
    BY Zenon, <1>1, <1>3, <2>1, <2>2
<1> HIDE DEF new, old, call
<1>5. /\ call.what \in {"seal", "open"} => call.binding = old.binding
      /\ call.what \in {"commit", "apply"} => call.binding.roomEpoch >= old.binding.roomEpoch
  BY <1>2, <1>4 DEF Timely
<1>6. CASE call.what \in {"seal", "open"}
  <2>1. call.next.sent >= call.from.sent /\ call.from.read \subseteq call.next.read
    BY Zenon, <1>1, <1>6 DEF Faithful
  <2> QED
    BY Zenon, <1>1, <1>3, <1>5, <1>6, <2>1 DEF Advances, new, old, call
<1>7. CASE call.what \in {"commit", "apply"}
  <2>1. new.binding.epoch = old.binding.epoch + 1
    BY Zenon, <1>1, <1>4, <1>7 DEF Faithful
  <2>2. new.binding.epoch > old.binding.epoch
    BY SMTT(40), <1>4, <2>1
  <2> QED
    BY Zenon, <1>1, <1>3, <1>5, <1>7, <2>2 DEF Advances, new, old, call
<1> QED
  BY Zenon, <1>1, <1>6, <1>7 DEF Faithful

\* A step that is not a crash: records in force advance, and what becomes safe is
\* what is in force.
Forward ==
    /\ \A r \in MLSRooms : Advances(mlsRecord[r], mlsRecord'[r])
    /\ recordSafe' = recordSafe \/ recordSafe' = mlsRecord'

\* Every step but a crash goes forward, and its calls read the record in force.
LEMMA StepForward ==
    ASSUME DurableInv, GroupInv', GroupNext, ~GroupCrash
    PROVE  /\ Forward
           /\ \A c \in GroupCallers :
                 \/ running'[c] = NoRecord \/ running'[c] = running[c]
                 \/ /\ Timely(running'[c], mlsRecord[running'[c].room])
                    /\ mlsRecord' = mlsRecord
<1>1. /\ mlsRecord \in [MLSRooms -> MLSRecords \cup {NoRecord}]
      /\ mlsRecord' \in [MLSRooms -> MLSRecords \cup {NoRecord}]
      /\ DOMAIN running = GroupCallers
  BY Zenon DEF DurableInv, GroupInv, Behind, RecordsBound, CallsFaithful
<1>2. [s \in MLSRooms |-> mlsRecord'[s]] = mlsRecord'
  BY Zenon, <1>1
<1>3. \A r \in MLSRooms : Advances(mlsRecord[r], mlsRecord[r])
  BY Zenon, <1>1, AdvancesOrder
<1>4. ASSUME NEW r \in MLSRooms, NEW new, Advances(mlsRecord[r], new),
             \/ /\ mlsRecord' = [mlsRecord EXCEPT ![r] = new]
                /\ recordSafe' = [s \in MLSRooms |-> mlsRecord'[s]]
             \/ /\ mlsRecord' = mlsRecord \/ mlsRecord' = [mlsRecord EXCEPT ![r] = new]
                /\ recordSafe' = recordSafe
      PROVE  Forward
  <2>1. \A s \in MLSRooms : mlsRecord'[s] = mlsRecord[s] \/ (s = r /\ mlsRecord'[s] = new)
    BY Zenon, <1>1, <1>4
  <2>2. \A s \in MLSRooms : Advances(mlsRecord[s], mlsRecord'[s])
    BY Zenon, <1>3, <1>4, <2>1
  <2> QED
    BY Zenon, <1>2, <1>4, <2>2 DEF Forward
<1>5. ASSUME NEW r \in MLSRooms, NEW k, NEW new, Install(r, k, new)
      PROVE  Forward /\ running' = running
  <2>1. Advances(mlsRecord[r], new)
    BY Zenon, <1>5 DEF Install, Advances
  <2> QED
    BY Zenon, <1>4, <1>5, <2>1 DEF Install, Replaced
<1>6. ASSUME NEW c \in GroupCallers, NEW r \in MLSRooms, StartCall(c, r)
      PROVE  /\ Forward /\ mlsRecord' = mlsRecord
             /\ \A d \in GroupCallers :
                   \/ running'[d] = running[d]
                   \/ Timely(running'[d], mlsRecord[running'[d].room])
  <2>1. PICK call : /\ Faithful(call) /\ call.room = r /\ Timely(call, mlsRecord[r])
                    /\ running' = [running EXCEPT ![c] = call]
    BY Zenon, <1>6, StartedIsFaithful DEF DurableInv
  <2>2. UNCHANGED <<mlsRecord, recordSafe>>
    BY Zenon, <1>6 DEF StartCall
  <2> QED
    BY Zenon, <1>1, <1>3, <2>1, <2>2 DEF Forward
<1>7. ASSUME NEW c \in GroupCallers, FinishCall(c)
      PROVE  Forward /\ \A d \in GroupCallers : running'[d] = NoRecord \/ running'[d] = running[d]
  <2>1. running[c] # NoRecord /\ running' = [running EXCEPT ![c] = NoRecord]
    BY Zenon, <1>7 DEF FinishCall
  <2>2. running[c].room \in MLSRooms
    BY Zenon, <2>1 DEF DurableInv, GroupInv, CallsFaithful, Faithful
  <2>3. CASE mlsRecord[running[c].room] = NoRecord \/ ~SamePrior(c)
    <3>1. UNCHANGED <<mlsRecord, recordSafe>>
      BY Zenon, <1>7, <2>3 DEF FinishCall
    <3> QED
      BY Zenon, <1>1, <1>3, <2>1, <3>1 DEF Forward
  <2>4. CASE mlsRecord[running[c].room] # NoRecord /\ SamePrior(c)
    <3> DEFINE old == mlsRecord[running[c].room]
               new == [old EXCEPT !.binding = running[c].binding, !.state = running[c].next]
    <3>1. Advances(old, new)
      BY Zenon, <2>1, <2>4, FinishedAdvances
    <3>2. Replaced(running[c].room, new, HandOut(running[c]))
      BY Zenon, <1>7, <2>4 DEF FinishCall
    <3> HIDE DEF new
    <3>3. Forward
      BY Zenon, <1>4, <2>2, <3>1, <3>2 DEF Replaced
    <3> QED
      BY SMTT(40), <1>1, <2>1, <3>3
  <2> QED
    BY Zenon, <2>3, <2>4
<1>8. ASSUME NEW r \in MLSRooms, NEW k \in KeyPackages, NEW m \in MembershipChoices, CreateFounder(r, k, m)
      PROVE  Forward /\ running' = running
  BY Zenon, <1>5, <1>8 DEF CreateFounder
<1>9. ASSUME NEW r \in MLSRooms, NEW k \in KeyPackages, NEW w \in Welcomes, NEW e \in 1..MaxMLSEpoch,
             NEW m \in MembershipChoices, Join(r, k, w, e, m)
      PROVE  Forward /\ running' = running
  BY Zenon, <1>5, <1>9 DEF Join
<1> QED
  BY ZenonT(30), <1>6, <1>7, <1>8, <1>9 DEF GroupNext

\* A step keeps the invariant and advances what is safe.
LEMMA DurableStep ==
    ASSUME DurableInv, [GroupNext]_groupVars
    PROVE  DurableInv' /\ \A r \in MLSRooms : Advances(recordSafe[r], recordSafe'[r])
<1>1. GroupInv'
  BY Zenon, GroupInvStep DEF DurableInv
<1>2. /\ mlsRecord \in [MLSRooms -> MLSRecords \cup {NoRecord}]
      /\ mlsRecord' \in [MLSRooms -> MLSRecords \cup {NoRecord}]
      /\ recordSafe \in [MLSRooms -> MLSRecords \cup {NoRecord}]
  BY Zenon, <1>1 DEF DurableInv, GroupInv, Behind, RecordsBound
<1>3. \A r \in MLSRooms : /\ Advances(mlsRecord[r], mlsRecord[r])
                          /\ Advances(mlsRecord'[r], mlsRecord'[r])
                          /\ Advances(recordSafe[r], recordSafe[r])
  BY Zenon, <1>2, AdvancesOrder
<1>4. CASE GroupNext /\ ~GroupCrash
  <2>1. Forward
    BY Zenon, <1>1, <1>4, StepForward
  <2>2. \A r \in MLSRooms : Advances(recordSafe[r], mlsRecord'[r])
    BY Zenon, <1>2, <2>1, AdvancesOrder DEF Forward, DurableInv, InForceAdvanced
  <2>3. InForceAdvanced' /\ \A r \in MLSRooms : Advances(recordSafe[r], recordSafe'[r])
    BY Zenon, <1>3, <2>1, <2>2 DEF Forward, InForceAdvanced
  <2>4. CallsTimely'
    <3> SUFFICES ASSUME NEW c \in GroupCallers, running'[c] # NoRecord
                 PROVE  Timely(running'[c], mlsRecord'[running'[c].room])
      BY Zenon DEF CallsTimely
    <3>1. CASE running'[c] = running[c]
      <4>1. Faithful(running[c]) /\ Timely(running[c], mlsRecord[running[c].room])
        BY Zenon, <3>1 DEF DurableInv, GroupInv, CallsFaithful, CallsTimely
      <4>2. running[c].room \in MLSRooms
        BY Zenon, <4>1 DEF Faithful
      <4>3. mlsRecord[running[c].room] \in MLSRecords /\ mlsRecord[running[c].room] # NoRecord
        BY Zenon, <1>2, <4>1, <4>2 DEF Timely
      <4>4. mlsRecord'[running[c].room] \in MLSRecords \cup {NoRecord}
        BY Zenon, <1>2, <4>2
      <4>5. Advances(mlsRecord[running[c].room], mlsRecord'[running[c].room])
        BY Zenon, <2>1, <4>2 DEF Forward
      <4> QED
        BY Zenon, <3>1, <4>1, <4>3, <4>4, <4>5, TimelyKept
    <3>2. CASE running'[c] # running[c]
      BY Zenon, <1>1, <1>4, <3>2, StepForward
    <3> QED
      BY Zenon, <3>1, <3>2
  <2> QED
    BY Zenon, <1>1, <2>3, <2>4 DEF DurableInv
<1>5. CASE GroupCrash
  <2>1. /\ mlsRecord' = mlsRecord \/ mlsRecord' = recordSafe
        /\ recordSafe' = recordSafe /\ \A c \in GroupCallers : running'[c] = NoRecord
    BY Zenon, <1>5 DEF GroupCrash
  <2> QED
    BY Zenon, <1>1, <1>3, <2>1 DEF DurableInv, InForceAdvanced, CallsTimely
<1>6. CASE UNCHANGED groupVars
  BY Zenon, <1>1, <1>3, <1>6 DEF groupVars, DurableInv, InForceAdvanced, CallsTimely
<1> QED
  BY Zenon, <1>4, <1>5, <1>6

\* What a loss of power leaves of a room never goes back (Ratchet and AdvanceFrom over
\* Journal.replace): an epoch is left for a later one only, and within it the binding
\* stays and the ratchets only move on, whatever calls overlap and whatever write fails.
THEOREM DurableAdvances == GroupSpec => DurableOnlyAdvances
<1>1. GroupInit => DurableInv
  BY SMTT(40), GroupInvInit DEF GroupInit, DurableInv, InForceAdvanced, CallsTimely, Advances
<1>2. DurableInv /\ [GroupNext]_groupVars => DurableInv'
  BY Zenon, DurableStep
<1>3. DurableInv /\ [GroupNext]_groupVars =>
        [\A r \in MLSRooms : recordSafe[r] # NoRecord =>
           LET old == recordSafe[r]
               new == recordSafe'[r]
           IN  \/ new.binding.epoch > old.binding.epoch /\ new.binding.roomEpoch >= old.binding.roomEpoch
               \/ /\ new.binding = old.binding
                  /\ new.state.sent >= old.state.sent /\ old.state.read \subseteq new.state.read]_groupVars
  BY Zenon, DurableStep DEF Advances
<1> QED
  BY <1>1, <1>2, <1>3, PTL DEF GroupSpec, DurableOnlyAdvances

(***************************************************************************)
(* The government of a room: RoomMembership.                               *)
(*                                                                         *)
(* RoomsAgree is not inductive: it says nothing of the objects that are    *)
(* signed and not yet received, nor of what a loss of power brings back.   *)
(* The strengthening follows the successors the authority itself signed.   *)
(* There is one per epoch (OnePerEpoch).  A record on disk is what one of  *)
(* them says (DurableIsSigned); a record in force may besides be one that  *)
(* the holder of the last of them wrote and could not yet send             *)
(* (InForceIsSigned).  Whoever was handed the room by a successor that is  *)
(* not the last has durably moved past it (HolderMovedOn), so that no      *)
(* crash brings an authority back to an epoch it has left.                 *)
(***************************************************************************)

\* The successors that an authority signed, the founding object included.
Genuine == {t \in transitions : t.by \notin Bystanders}

TransitionSet ==
    [epoch : Nat \ {0}, prior : SUBSET Agents, members : SUBSET Agents, by : Agents, to : Agents]

\* The signed objects and the records have their shapes; an authority is no
\* bystander, and no bystander signs a founding object.
Shapes ==
    /\ transitions \subseteq TransitionSet
    /\ rooms \in [Agents -> RoomRecords \cup {NoRoom}]
    /\ roomsSafe \in [Agents -> RoomRecords \cup {NoRoom}]
    /\ \A t \in transitions : IF t.by \in Bystanders THEN t.epoch > 1 ELSE t.to \notin Bystanders

OnePerEpoch == \A s, t \in Genuine : s.epoch = t.epoch => s = t

\* t is the last successor that was signed.
LastSigned(t) == t \in Genuine /\ \A s \in Genuine : s.epoch <= t.epoch

DurableIsSigned ==
    \A a \in Agents : roomsSafe[a] # NoRoom => \E t \in Genuine : roomsSafe[a] = RoomRecord(t)

\* Agent a recorded a successor of its own that was not sent.
Unsent(a) ==
    /\ rooms[a].authority \notin Bystanders
    /\ \E t \in Genuine : LastSigned(t) /\ t.to = a /\ t.epoch < rooms[a].epoch

InForceIsSigned ==
    \A a \in Agents : rooms[a] # NoRoom =>
        (\E t \in Genuine : rooms[a] = RoomRecord(t)) \/ Unsent(a)

\* What is in force is never behind what is on disk.
InForceIsLater ==
    \A a \in Agents : roomsSafe[a] # NoRoom =>
        rooms[a] # NoRoom /\ roomsSafe[a].epoch <= rooms[a].epoch

HolderMovedOn ==
    \A s, t \in Genuine : s.epoch < t.epoch =>
        roomsSafe[s.to] # NoRoom /\ roomsSafe[s.to].epoch > s.epoch

\* What the role and moderation ledgers hold was signed.
PowerIsSigned ==
    /\ policy \in [Agents -> policies \cup {NoRoom}]
    /\ decisions \in [Agents -> [RoomTargets -> moderations \cup {NoRoom}]]
    /\ \A d \in moderations : d.target \in RoomTargets
    /\ DecidedByModerator

RoomInv ==
    /\ Shapes /\ OnePerEpoch /\ DurableIsSigned /\ InForceIsSigned
    /\ InForceIsLater /\ HolderMovedOn /\ PowerIsSigned

-----------------------------------------------------------------------------
(* The government of a room *)

\* The record of a signed object has the record's shape and is not the absence of one.
LEMMA RecordShape ==
    ASSUME NEW t \in TransitionSet
    PROVE  /\ RoomRecord(t) \in RoomRecords /\ RoomRecord(t) # NoRoom
           /\ RoomRecord(t).epoch = t.epoch /\ RoomRecord(t).members = t.members
           /\ RoomRecord(t).authority = t.to
BY NoRoomAssumption DEF RoomRecord, RoomRecords, TransitionSet

\* The founding object is signed and nothing is recorded.
LEMMA GovernmentInit == RoomInit => RoomInv
<1> SUFFICES ASSUME RoomInit PROVE RoomInv
  BY Zenon
<1> DEFINE first == SignedTransition(NoRoom, Founders, Founder, Founder)
<1>1. /\ first \in TransitionSet /\ first.epoch = 1
      /\ first.by \notin Bystanders /\ first.to \notin Bystanders
  BY FounderAssumption DEF SignedTransition, TransitionSet
<1>2. transitions = {first} /\ Genuine = {first}
  BY Zenon, <1>1 DEF RoomInit, Genuine
<1> HIDE DEF first
<1>3. Shapes
  BY Zenon, <1>1, <1>2 DEF RoomInit, Shapes
<1>4. OnePerEpoch /\ HolderMovedOn
  <2>1. \A s, t \in Genuine : s = t /\ s.epoch = 1 /\ t.epoch = 1
    BY Zenon, <1>1, <1>2
  <2> QED
    BY <2>1 DEF OnePerEpoch, HolderMovedOn
<1>5. DurableIsSigned /\ InForceIsSigned /\ InForceIsLater
  BY Zenon DEF RoomInit, DurableIsSigned, InForceIsSigned, InForceIsLater
<1>6. PowerIsSigned
  BY Zenon DEF RoomInit, PowerIsSigned, DecidedByModerator
<1> QED
  BY Zenon, <1>3, <1>4, <1>5, <1>6 DEF RoomInv

\* An installation whose agent has the authority on record, in force or on
\* disk, stands at the last successor or beyond it.
LEMMA AuthorityHoldsLast ==
    ASSUME RoomInv, NEW a \in Agents, rooms[a] # NoRoom, rooms[a].authority = a
    PROVE  \E t \in Genuine : LastSigned(t) /\ t.to = a /\ t.epoch <= rooms[a].epoch
<1>1. CASE Unsent(a)
  <2>1. PICK t \in Genuine : LastSigned(t) /\ t.to = a /\ t.epoch < rooms[a].epoch
    BY Zenon, <1>1 DEF Unsent
  <2>2. t.epoch \in Nat /\ rooms[a].epoch \in Nat
    BY Zenon DEF RoomInv, Shapes, Genuine, TransitionSet, RoomRecords
  <2> QED
    BY <2>1, <2>2
<1>2. CASE \E t \in Genuine : rooms[a] = RoomRecord(t)
  <2>1. PICK t \in Genuine : rooms[a] = RoomRecord(t)
    BY Zenon, <1>2
  <2>2. t \in TransitionSet
    BY Zenon DEF RoomInv, Shapes, Genuine
  <2>3. t.to = a /\ t.epoch = rooms[a].epoch /\ t.epoch \in Nat
    BY Zenon, <2>1, <2>2, RecordShape DEF TransitionSet
  <2>4. ASSUME NEW s \in Genuine PROVE s.epoch <= t.epoch
    <3>1. s.epoch \in Nat
      BY Zenon DEF RoomInv, Shapes, Genuine, TransitionSet
    <3>2. SUFFICES ASSUME t.epoch < s.epoch PROVE FALSE
      BY <3>1, <2>3
    <3>3. roomsSafe[a] # NoRoom /\ roomsSafe[a].epoch > t.epoch
      BY Zenon, <3>2, <2>3 DEF RoomInv, HolderMovedOn
    <3>4. roomsSafe[a].epoch <= rooms[a].epoch
      BY Zenon, <3>3 DEF RoomInv, InForceIsLater
    <3>5. roomsSafe[a].epoch \in Nat
      BY Zenon, <3>3 DEF RoomInv, Shapes, RoomRecords
    <3> QED
      BY <3>3, <3>4, <3>5, <2>3
  <2>5. LastSigned(t)
    BY Zenon, <2>4 DEF LastSigned
  <2> QED
    BY <2>3, <2>5
<1> QED
  BY Zenon, <1>1, <1>2 DEF RoomInv, InForceIsSigned

\* There is one last successor.
LEMMA OneLast ==
    ASSUME RoomInv, NEW s, NEW t, LastSigned(s), LastSigned(t)
    PROVE  s = t
<1>1. s.epoch \in Nat /\ t.epoch \in Nat
  BY Zenon DEF RoomInv, Shapes, LastSigned, Genuine, TransitionSet
<1>2. s.epoch <= t.epoch /\ t.epoch <= s.epoch
  BY Zenon DEF LastSigned
<1> QED
  BY <1>1, <1>2 DEF RoomInv, OnePerEpoch, LastSigned

\* An installation accepts an authority's successors only.
LEMMA AcceptedIsGenuine ==
    ASSUME RoomInv, NEW a \in Agents, NEW t \in transitions, Accepts(rooms[a], t)
    PROVE  /\ t \in Genuine
           /\ rooms[a] # NoRoom => t.epoch = rooms[a].epoch + 1
<1>1. CASE rooms[a] = NoRoom
  <2>1. t.epoch = 1
    BY Zenon, <1>1 DEF Accepts
  <2>2. t.by \notin Bystanders
    BY <2>1 DEF RoomInv, Shapes
  <2> QED
    BY Zenon, <1>1, <2>2 DEF Genuine
<1>2. CASE rooms[a] # NoRoom
  <2>1. t.epoch = rooms[a].epoch + 1 /\ t.by = rooms[a].authority
    BY Zenon, <1>2 DEF Accepts, AcceptsAdvance, AcceptsTransfer
  <2>2. rooms[a].authority \notin Bystanders
    <3>1. CASE Unsent(a)
      BY Zenon, <3>1 DEF Unsent
    <3>2. CASE \E s \in Genuine : rooms[a] = RoomRecord(s)
      <4>1. PICK s \in Genuine : rooms[a] = RoomRecord(s)
        BY Zenon, <3>2
      <4>2. s \in TransitionSet /\ s.to \notin Bystanders
        BY Zenon DEF RoomInv, Shapes, Genuine
      <4> QED
        BY Zenon, <4>1, <4>2, RecordShape
    <3> QED
      BY Zenon, <1>2, <3>1, <3>2 DEF RoomInv, InForceIsSigned
  <2> QED
    BY Zenon, <2>1, <2>2 DEF Genuine
<1> QED
  BY Zenon, <1>1, <1>2

\* The part of the invariant about the records.
Government ==
    /\ Shapes /\ OnePerEpoch /\ DurableIsSigned /\ InForceIsSigned
    /\ InForceIsLater /\ HolderMovedOn

\* An accepted object that was signed before is recorded, durably or not yet.
LEMMA ReceiveKeepsGovernment ==
    ASSUME RoomInv, NEW a \in Agents, NEW t \in transitions, ReceiveTransition(a, t)
    PROVE  Government'
<1>1. /\ t \in Genuine /\ t \in TransitionSet
      /\ rooms[a] # NoRoom => t.epoch = rooms[a].epoch + 1
  BY Zenon, AcceptedIsGenuine DEF ReceiveTransition, RoomInv, Shapes
<1>2. /\ transitions' = transitions
      /\ rooms' = [rooms EXCEPT ![a] = RoomRecord(t)]
      /\ \/ roomsSafe' = [roomsSafe EXCEPT ![a] = RoomRecord(t)]
         \/ roomsSafe' = roomsSafe
  BY Zenon DEF ReceiveTransition, Write
<1>3. Genuine' = Genuine /\ \A s : LastSigned(s)' = LastSigned(s)
  BY Zenon, <1>2 DEF Genuine, LastSigned
<1>4. RoomRecord(t) \in RoomRecords /\ RoomRecord(t) # NoRoom /\ RoomRecord(t).epoch = t.epoch
  BY Zenon, <1>1, RecordShape
<1>5. Shapes'
  BY Zenon, <1>2, <1>4 DEF RoomInv, Shapes
<1>6. OnePerEpoch'
  BY Zenon, <1>3 DEF RoomInv, OnePerEpoch
<1>7. DurableIsSigned'
  BY Zenon, <1>1, <1>2, <1>3 DEF RoomInv, DurableIsSigned, Shapes
<1>8. InForceIsSigned'
  <2>1. ASSUME NEW b \in Agents, b # a, rooms'[b] # NoRoom
        PROVE  (\E s \in Genuine : rooms'[b] = RoomRecord(s)) \/ Unsent(b)'
    <3>1. rooms'[b] = rooms[b]
      BY Zenon, <1>2, <2>1 DEF RoomInv, Shapes
    <3> QED
      BY Zenon, <1>3, <2>1, <3>1 DEF RoomInv, InForceIsSigned, Unsent
  <2>2. rooms'[a] = RoomRecord(t)
    BY Zenon, <1>2 DEF RoomInv, Shapes
  <2> QED
    BY Zenon, <1>1, <1>3, <2>1, <2>2 DEF InForceIsSigned
<1>9. roomsSafe[a] # NoRoom => roomsSafe[a].epoch < t.epoch
  <2>1. ASSUME roomsSafe[a] # NoRoom PROVE roomsSafe[a].epoch < t.epoch
    <3>1. rooms[a] # NoRoom /\ roomsSafe[a].epoch <= rooms[a].epoch
      BY Zenon, <2>1 DEF RoomInv, InForceIsLater
    <3>2. roomsSafe[a].epoch \in Nat /\ rooms[a].epoch \in Nat
      BY Zenon, <2>1, <3>1 DEF RoomInv, Shapes, RoomRecords
    <3> QED
      BY <1>1, <3>1, <3>2
  <2> QED
    BY Zenon, <2>1
<1>10. t.epoch \in Nat /\ \A b \in Agents : roomsSafe[b] # NoRoom => roomsSafe[b].epoch \in Nat
  BY Zenon, <1>1 DEF RoomInv, Shapes, RoomRecords, TransitionSet
<1>11. InForceIsLater'
  BY <1>2, <1>4, <1>9, <1>10 DEF RoomInv, InForceIsLater, Shapes
<1>12. HolderMovedOn'
  <2> SUFFICES ASSUME NEW s \in Genuine, NEW u \in Genuine, s.epoch < u.epoch
               PROVE  roomsSafe'[s.to] # NoRoom /\ roomsSafe'[s.to].epoch > s.epoch
    BY Zenon, <1>3 DEF HolderMovedOn
  <2>1. roomsSafe[s.to] # NoRoom /\ roomsSafe[s.to].epoch > s.epoch
    BY Zenon DEF RoomInv, HolderMovedOn
  <2>2. s.to \in Agents /\ s.epoch \in Nat
    BY Zenon DEF RoomInv, Shapes, Genuine, TransitionSet
  <2>3. CASE s.to = a
    BY <1>2, <1>4, <1>9, <1>10, <2>1, <2>2, <2>3 DEF RoomInv, Shapes
  <2>4. CASE s.to # a
    BY Zenon, <1>2, <2>1, <2>2, <2>4 DEF RoomInv, Shapes
  <2> QED
    BY Zenon, <2>3, <2>4
<1> QED
  BY Zenon, <1>5, <1>6, <1>7, <1>8, <1>11, <1>12 DEF Government

\* The authority records a successor and sends it.
LEMMA SerializeKeepsGovernment ==
    ASSUME RoomInv, NEW a \in Agents, Serialize(a)
    PROVE  Government'
<1>1. rooms[a] # NoRoom /\ rooms[a].authority = a
  BY Zenon DEF Serialize
<1>2. PICK m \in Memberships, b \in Agents \ Bystanders :
           /\ Accepts(rooms[a], SignedTransition(rooms[a], m, a, b))
           /\ Write(a, SignedTransition(rooms[a], m, a, b),
                    transitions' = transitions \cup {SignedTransition(rooms[a], m, a, b)})
  BY Zenon DEF Serialize
<1> DEFINE t == SignedTransition(rooms[a], m, a, b)
<1>3. PICK top \in Genuine : LastSigned(top) /\ top.to = a /\ top.epoch <= rooms[a].epoch
  BY Zenon, <1>1, AuthorityHoldsLast
<1>4. a \notin Bystanders
  BY Zenon, <1>3 DEF RoomInv, Shapes, Genuine
<1>5. rooms[a] \in RoomRecords /\ rooms[a].epoch \in Nat /\ rooms[a].members \subseteq Agents
  BY Zenon, <1>1 DEF RoomInv, Shapes, RoomRecords
<1>6. t.epoch = rooms[a].epoch + 1 /\ t.by = a /\ t.to = b /\ t \in TransitionSet
  BY <1>1, <1>5 DEF SignedTransition, TransitionSet, Memberships
<1>7. /\ rooms' = [rooms EXCEPT ![a] = RoomRecord(t)]
      /\ \/ /\ roomsSafe' = [roomsSafe EXCEPT ![a] = RoomRecord(t)]
            /\ transitions' = transitions \cup {t}
         \/ roomsSafe' = roomsSafe /\ transitions' = transitions
  BY Zenon, <1>2 DEF Write
<1> HIDE DEF t
<1>8. /\ RoomRecord(t) \in RoomRecords /\ RoomRecord(t) # NoRoom
      /\ RoomRecord(t).epoch = rooms[a].epoch + 1 /\ RoomRecord(t).authority = b
  BY Zenon, <1>6, RecordShape
<1>9. \A s \in Genuine : s.epoch \in Nat /\ s.epoch <= top.epoch /\ s.epoch < rooms[a].epoch + 1
  <2> TAKE s \in Genuine
  <2>1. s.epoch \in Nat /\ top.epoch \in Nat
    BY Zenon DEF RoomInv, Shapes, Genuine, TransitionSet
  <2>2. s.epoch <= top.epoch
    BY Zenon, <1>3 DEF LastSigned
  <2> QED
    BY <1>3, <1>5, <2>1, <2>2
<1>10. roomsSafe[a] # NoRoom => roomsSafe[a].epoch \in Nat /\ roomsSafe[a].epoch < rooms[a].epoch + 1
  <2>1. ASSUME roomsSafe[a] # NoRoom
        PROVE  roomsSafe[a].epoch \in Nat /\ roomsSafe[a].epoch < rooms[a].epoch + 1
    <3>1. roomsSafe[a].epoch \in Nat
      BY Zenon, <2>1 DEF RoomInv, Shapes, RoomRecords
    <3>2. roomsSafe[a].epoch <= rooms[a].epoch
      BY Zenon, <2>1 DEF RoomInv, InForceIsLater
    <3> QED
      BY <1>5, <3>1, <3>2
  <2> QED
    BY Zenon, <2>1
<1>11. Shapes'
  <2>1. \A u \in transitions' : u \in TransitionSet
    BY Zenon, <1>6, <1>7 DEF RoomInv, Shapes
  <2>2. \A u \in transitions' : IF u.by \in Bystanders THEN u.epoch > 1 ELSE u.to \notin Bystanders
    BY Zenon, <1>4, <1>6, <1>7 DEF RoomInv, Shapes
  <2>3. /\ rooms' \in [Agents -> RoomRecords \cup {NoRoom}]
        /\ roomsSafe' \in [Agents -> RoomRecords \cup {NoRoom}]
    BY Zenon, <1>7, <1>8 DEF RoomInv, Shapes
  <2> QED
    BY Zenon, <2>1, <2>2, <2>3 DEF Shapes
<1>12. InForceIsLater'
  BY <1>5, <1>7, <1>8, <1>10 DEF RoomInv, InForceIsLater, Shapes
<1>13. CASE roomsSafe' = roomsSafe /\ transitions' = transitions
  <2>1. Genuine' = Genuine /\ \A s : LastSigned(s)' = LastSigned(s)
    BY Zenon, <1>13 DEF Genuine, LastSigned
  <2>2. OnePerEpoch' /\ DurableIsSigned' /\ HolderMovedOn'
    BY Zenon, <1>13, <2>1 DEF RoomInv, OnePerEpoch, DurableIsSigned, HolderMovedOn
  <2>3. Unsent(a)'
    <3>1. rooms'[a] = RoomRecord(t)
      BY Zenon, <1>7 DEF RoomInv, Shapes
    <3> QED
      BY Zenon, <1>3, <1>8, <1>9, <2>1, <3>1 DEF Unsent
  <2>4. ASSUME NEW c \in Agents, c # a, rooms'[c] # NoRoom
        PROVE  (\E s \in Genuine : rooms'[c] = RoomRecord(s)) \/ Unsent(c)'
    <3>1. rooms'[c] = rooms[c]
      BY Zenon, <1>7, <2>4 DEF RoomInv, Shapes
    <3> QED
      BY Zenon, <2>1, <2>4, <3>1 DEF RoomInv, InForceIsSigned, Unsent
  <2>5. InForceIsSigned'
    BY Zenon, <2>1, <2>3, <2>4 DEF InForceIsSigned
  <2> QED
    BY Zenon, <1>11, <1>12, <2>2, <2>5 DEF Government
<1>14. CASE /\ roomsSafe' = [roomsSafe EXCEPT ![a] = RoomRecord(t)]
            /\ transitions' = transitions \cup {t}
  <2>1. Genuine' = Genuine \cup {t}
    BY Zenon, <1>4, <1>6, <1>14 DEF Genuine
  <2>2. OnePerEpoch'
    <3>1. \A s \in Genuine : s.epoch # t.epoch
      BY <1>5, <1>6, <1>9
    <3> QED
      BY Zenon, <2>1, <3>1 DEF RoomInv, OnePerEpoch
  <2>3. rooms'[a] = RoomRecord(t) /\ roomsSafe'[a] = RoomRecord(t)
    BY Zenon, <1>7, <1>14 DEF RoomInv, Shapes
  <2>4. \A c \in Agents : c # a => rooms'[c] = rooms[c] /\ roomsSafe'[c] = roomsSafe[c]
    BY Zenon, <1>7, <1>14 DEF RoomInv, Shapes
  <2>5. DurableIsSigned'
    BY Zenon, <2>1, <2>3, <2>4 DEF RoomInv, DurableIsSigned
  <2>6. InForceIsSigned'
    <3>1. ASSUME NEW c \in Agents, c # a, rooms[c] # NoRoom
          PROVE  \E s \in Genuine : rooms[c] = RoomRecord(s)
      <4>1. ASSUME Unsent(c) PROVE FALSE
        <5>1. PICK s \in Genuine : LastSigned(s) /\ s.to = c
          BY Zenon, <4>1 DEF Unsent
        <5>2. s = top
          BY Zenon, <1>3, <5>1, OneLast
        <5> QED
          BY Zenon, <1>3, <3>1, <5>1, <5>2
      <4> QED
        BY Zenon, <3>1, <4>1 DEF RoomInv, InForceIsSigned
    <3> QED
      BY Zenon, <2>1, <2>3, <2>4, <3>1 DEF InForceIsSigned
  <2>7. HolderMovedOn'
    <3> SUFFICES ASSUME NEW s \in Genuine', NEW u \in Genuine', s.epoch < u.epoch
                 PROVE  roomsSafe'[s.to] # NoRoom /\ roomsSafe'[s.to].epoch > s.epoch
      BY Zenon DEF HolderMovedOn
    <3>1. s \in Genuine
      <4>1. t.epoch \in Nat /\ \A v \in Genuine : v.epoch \in Nat /\ v.epoch < t.epoch
        BY <1>5, <1>6, <1>9
      <4>2. \A v \in Genuine' : ~(t.epoch < v.epoch)
        BY <2>1, <4>1
      <4> QED
        BY Zenon, <2>1, <4>2
    <3>2. s.to \in Agents /\ s.epoch \in Nat /\ s.epoch < rooms[a].epoch + 1
      BY Zenon, <1>9, <3>1 DEF RoomInv, Shapes, Genuine, TransitionSet
    <3>3. CASE s.to = a
      BY Zenon, <1>8, <2>3, <3>2, <3>3
    <3>4. CASE s.to # a
      <4>1. s # top
        BY Zenon, <1>3, <3>4
      <4>2. s.epoch # top.epoch
        BY Zenon, <3>1, <4>1 DEF RoomInv, OnePerEpoch
      <4>3. s.epoch < top.epoch
        BY <1>9, <3>1, <4>2
      <4>4. roomsSafe[s.to] # NoRoom /\ roomsSafe[s.to].epoch > s.epoch
        BY Zenon, <3>1, <4>3 DEF RoomInv, HolderMovedOn
      <4> QED
        BY Zenon, <2>4, <3>2, <3>4, <4>4
    <3> QED
      BY Zenon, <3>3, <3>4
  <2> QED
    BY Zenon, <1>11, <1>12, <2>2, <2>5, <2>6, <2>7 DEF Government
<1> QED
  BY Zenon, <1>7, <1>13, <1>14

\* A bystander's successor is not an authority's.
LEMMA UnaskedKeepsGovernment ==
    ASSUME RoomInv, NEW a \in Agents, SignUnasked(a)
    PROVE  Government'
<1>1. PICK m \in Memberships : transitions' = transitions \cup {SignedTransition(rooms[a], m, a, a)}
  BY Zenon DEF SignUnasked
<1> DEFINE t == SignedTransition(rooms[a], m, a, a)
<1>2. rooms[a] # NoRoom /\ a \in Bystanders /\ rooms' = rooms /\ roomsSafe' = roomsSafe
  BY Zenon DEF SignUnasked
<1>3. rooms[a].epoch \in Nat \ {0} /\ rooms[a].members \subseteq Agents
  BY Zenon, <1>2 DEF RoomInv, Shapes, RoomRecords
<1>4. t \in TransitionSet /\ t.by \in Bystanders /\ t.epoch > 1
  BY <1>2, <1>3 DEF SignedTransition, TransitionSet, Memberships
<1> HIDE DEF t
<1>5. Genuine' = Genuine /\ \A s : LastSigned(s)' = LastSigned(s)
  BY Zenon, <1>1, <1>4 DEF Genuine, LastSigned, t
<1>6. Shapes'
  <2>1. \A u \in transitions' : /\ u \in TransitionSet
                                /\ IF u.by \in Bystanders THEN u.epoch > 1 ELSE u.to \notin Bystanders
    BY Zenon, <1>1, <1>4 DEF RoomInv, Shapes, t
  <2> QED
    BY Zenon, <1>2, <2>1 DEF RoomInv, Shapes
<1>7. /\ OnePerEpoch' /\ DurableIsSigned' /\ InForceIsSigned'
      /\ InForceIsLater' /\ HolderMovedOn'
  BY Zenon, <1>2, <1>5 DEF RoomInv, OnePerEpoch, DurableIsSigned, InForceIsSigned, InForceIsLater,
                    HolderMovedOn, Unsent
<1> QED
  BY Zenon, <1>6, <1>7 DEF Government

\* A loss of power brings back what is on disk.
LEMMA CrashKeepsGovernment ==
    ASSUME RoomInv, NEW a \in Agents, RoomCrash(a)
    PROVE  Government'
<1>1. /\ transitions' = transitions /\ roomsSafe' = roomsSafe
      /\ rooms' = [rooms EXCEPT ![a] = roomsSafe[a]]
  BY Zenon DEF RoomCrash
<1>2. Genuine' = Genuine /\ \A s : LastSigned(s)' = LastSigned(s)
  BY Zenon, <1>1 DEF Genuine, LastSigned
<1>3. Shapes' /\ OnePerEpoch' /\ DurableIsSigned' /\ HolderMovedOn'
  BY Zenon, <1>1, <1>2 DEF RoomInv, Shapes, OnePerEpoch, DurableIsSigned, HolderMovedOn
<1>4. rooms'[a] = roomsSafe[a] /\ \A c \in Agents : c # a => rooms'[c] = rooms[c]
  BY Zenon, <1>1 DEF RoomInv, Shapes
<1>5. InForceIsSigned'
  BY <1>2, <1>4 DEF RoomInv, InForceIsSigned, DurableIsSigned, Unsent
<1>6. roomsSafe[a] # NoRoom => roomsSafe[a].epoch <= roomsSafe[a].epoch
  BY DEF RoomInv, Shapes, RoomRecords
<1>7. InForceIsLater'
  BY Zenon, <1>1, <1>4, <1>6 DEF RoomInv, InForceIsLater
<1> QED
  BY Zenon, <1>3, <1>5, <1>7 DEF Government

\* The other steps leave the room's records and their signed objects alone.
LEMMA OthersKeepGovernment ==
    ASSUME RoomInv, UNCHANGED <<rooms, roomsSafe, transitions>>
    PROVE  Government'
<1>1. Genuine' = Genuine /\ \A s : LastSigned(s)' = LastSigned(s)
  BY Zenon DEF Genuine, LastSigned
<1> QED
  BY Zenon, <1>1 DEF RoomInv, Government, Shapes, OnePerEpoch, DurableIsSigned, InForceIsSigned,
              InForceIsLater, HolderMovedOn, Unsent

-----------------------------------------------------------------------------
(* The roles and the decisions *)

\* What is signed stays signed, so steps that leave the ledgers alone keep it.
LEMMA LedgersKept ==
    ASSUME RoomInv, policies \subseteq policies', moderations \subseteq moderations',
           UNCHANGED <<policy, decisions>>, \A d \in moderations' : d.target \in RoomTargets
    PROVE  PowerIsSigned'
BY Zenon DEF RoomInv, PowerIsSigned, DecidedByModerator

LEMMA PolicyKeepsPower ==
    ASSUME RoomInv, NEW a \in Agents, NEW p \in policies', policies \subseteq policies',
           policy' = [policy EXCEPT ![a] = p], UNCHANGED <<decisions, moderations>>
    PROVE  PowerIsSigned'
<1>1. policy' \in [Agents -> policies' \cup {NoRoom}]
  BY Zenon DEF RoomInv, PowerIsSigned
<1>2. decisions' \in [Agents -> [RoomTargets -> moderations' \cup {NoRoom}]]
  BY Zenon DEF RoomInv, PowerIsSigned
<1>3. DecidedByModerator'
  BY Zenon DEF RoomInv, PowerIsSigned, DecidedByModerator
<1>4. \A d \in moderations' : d.target \in RoomTargets
  BY Zenon DEF RoomInv, PowerIsSigned
<1> QED
  BY Zenon, <1>1, <1>2, <1>3, <1>4 DEF PowerIsSigned

\* A decision is recorded under the policy it names.
LEMMA ModerationKeepsPower ==
    ASSUME RoomInv, NEW a \in Agents, NEW d \in moderations, ApplyModeration(a, d)
    PROVE  PowerIsSigned'
<1>1. UNCHANGED <<policy, policies, moderations>>
  BY Zenon DEF ApplyModeration
<1>2. decisions' = [decisions EXCEPT ![a] = [decisions[a] EXCEPT ![d.target] = d]]
  BY Zenon DEF ApplyModeration
<1>3. decisions' \in [Agents -> [RoomTargets -> moderations' \cup {NoRoom}]]
  BY Zenon, <1>1, <1>2 DEF RoomInv, PowerIsSigned
<1>4. d.target \in RoomTargets
  BY Zenon DEF RoomInv, PowerIsSigned
<1>5. /\ policy[a] \in policies /\ policy[a].revision = d.policy
      /\ policy[a].epoch = d.epoch /\ d.actor \in policy[a].moderators
  BY Zenon DEF ApplyModeration, AllowsModerate, VerifyRolePolicy, RoomInv, PowerIsSigned
<1>6. DecidedByModerator'
  <2> SUFFICES ASSUME NEW b \in Agents, NEW t \in RoomTargets, decisions'[b][t] # NoRoom
               PROVE  \E p \in policies : /\ p.revision = decisions'[b][t].policy
                                          /\ p.epoch = decisions'[b][t].epoch
                                          /\ decisions'[b][t].actor \in p.moderators
    BY Zenon, <1>1 DEF DecidedByModerator
  <2>1. CASE b = a /\ t = d.target
    <3>1. decisions'[b][t] = d
      BY Zenon, <1>2, <1>4, <2>1 DEF RoomInv, PowerIsSigned
    <3> QED
      BY Zenon, <1>5, <3>1
  <2>2. CASE ~(b = a /\ t = d.target)
    <3>1. decisions'[b][t] = decisions[b][t]
      BY Zenon, <1>2, <1>4, <2>2 DEF RoomInv, PowerIsSigned
    <3> QED
      BY <3>1 DEF RoomInv, PowerIsSigned, DecidedByModerator
  <2> QED
    BY Zenon, <2>1, <2>2
<1> QED
  BY Zenon, <1>1, <1>3, <1>6 DEF RoomInv, PowerIsSigned

\* Every step of every installation keeps the invariant.
LEMMA RoomInvStep == RoomInv /\ [RoomNext]_roomVars => RoomInv'
<1> SUFFICES ASSUME RoomInv, [RoomNext]_roomVars PROVE RoomInv'
  BY Zenon
<1> SUFFICES Government' /\ PowerIsSigned'
  BY Zenon DEF RoomInv, Government
<1>0. \A d \in moderations : d.target \in RoomTargets
  BY Zenon DEF RoomInv, PowerIsSigned
<1>1. ASSUME NEW a \in Agents, Serialize(a) PROVE Government' /\ PowerIsSigned'
  BY Zenon, <1>0, <1>1, SerializeKeepsGovernment, LedgersKept DEF Serialize
<1>2. ASSUME NEW a \in Agents, SignUnasked(a) PROVE Government' /\ PowerIsSigned'
  BY Zenon, <1>0, <1>2, UnaskedKeepsGovernment, LedgersKept DEF SignUnasked
<1>3. ASSUME NEW a \in Agents, NEW t \in transitions, ReceiveTransition(a, t)
      PROVE  Government' /\ PowerIsSigned'
  BY Zenon, <1>0, <1>3, ReceiveKeepsGovernment, LedgersKept DEF ReceiveTransition
<1>4. ASSUME NEW a \in Agents, AssignRoles(a) PROVE Government' /\ PowerIsSigned'
  <2>1. PICK p : policy' = [policy EXCEPT ![a] = p] /\ policies' = policies \cup {p}
    BY Zenon, <1>4 DEF AssignRoles
  <2> QED
    BY Zenon, <1>4, <2>1, OthersKeepGovernment, PolicyKeepsPower DEF AssignRoles
<1>5. ASSUME NEW a \in Agents, NEW p \in policies, ReceivePolicy(a, p)
      PROVE  Government' /\ PowerIsSigned'
  BY Zenon, <1>5, OthersKeepGovernment, PolicyKeepsPower DEF ReceivePolicy
<1>6. ASSUME NEW a \in Agents, NEW t \in RoomTargets, NEW n \in 1..MaxDecision, Moderate(a, t, n)
      PROVE  Government' /\ PowerIsSigned'
  <2>1. \A d \in moderations' : d.target \in RoomTargets
    BY <1>0, <1>6 DEF Moderate
  <2> QED
    BY Zenon, <1>6, <2>1, OthersKeepGovernment, LedgersKept DEF Moderate
<1>7. ASSUME NEW a \in Agents, NEW d \in moderations, ApplyModeration(a, d)
      PROVE  Government' /\ PowerIsSigned'
  BY Zenon, <1>7, OthersKeepGovernment, ModerationKeepsPower DEF ApplyModeration
<1>8. ASSUME NEW a \in Agents, RoomCrash(a) PROVE Government' /\ PowerIsSigned'
  BY Zenon, <1>0, <1>8, CrashKeepsGovernment, LedgersKept DEF RoomCrash
<1>9. ASSUME UNCHANGED roomVars PROVE Government' /\ PowerIsSigned'
  BY Zenon, <1>0, <1>9, OthersKeepGovernment, LedgersKept DEF roomVars
<1> QED
  BY Zenon, <1>1, <1>2, <1>3, <1>4, <1>5, <1>6, <1>7, <1>8, <1>9 DEF RoomNext

\* Two installations at one epoch: both stand on the one successor signed for
\* it, or both on one that is not sent, which only its one signer can.
LEMMA AgreeByInv == RoomInv => RoomsAgree
<1> SUFFICES ASSUME RoomInv, NEW a \in Agents, NEW b \in Agents,
                    rooms[a] # NoRoom, rooms[b] # NoRoom, rooms[a].epoch = rooms[b].epoch
             PROVE  rooms[a] = rooms[b]
  BY Zenon DEF RoomsAgree
<1>1. \A c \in Agents : rooms[c] # NoRoom => rooms[c].epoch \in Nat
  BY Zenon DEF RoomInv, Shapes, RoomRecords
<1>2. \A t \in Genuine : /\ t.epoch \in Nat /\ RoomRecord(t).epoch = t.epoch
  BY Zenon, RecordShape DEF RoomInv, Shapes, Genuine, TransitionSet
<1>3. CASE (\E t \in Genuine : rooms[a] = RoomRecord(t)) /\ (\E t \in Genuine : rooms[b] = RoomRecord(t))
  BY <1>2, <1>3 DEF RoomInv, OnePerEpoch
<1>4. CASE Unsent(a) /\ Unsent(b)
  <2>1. PICK s \in Genuine : LastSigned(s) /\ s.to = a
    BY Zenon, <1>4 DEF Unsent
  <2>2. PICK t \in Genuine : LastSigned(t) /\ t.to = b
    BY Zenon, <1>4 DEF Unsent
  <2> QED
    BY Zenon, <2>1, <2>2, OneLast
<1>5. ASSUME NEW c \in Agents, NEW e \in Agents, rooms[c] # NoRoom, rooms[e] # NoRoom,
             rooms[c].epoch = rooms[e].epoch,
             Unsent(c), \E t \in Genuine : rooms[e] = RoomRecord(t)
      PROVE  FALSE
  <2>1. PICK s \in Genuine : LastSigned(s) /\ s.epoch < rooms[c].epoch
    BY Zenon, <1>5 DEF Unsent
  <2>2. PICK t \in Genuine : rooms[e] = RoomRecord(t)
    BY Zenon, <1>5
  <2>3. t.epoch <= s.epoch
    BY Zenon, <2>1 DEF LastSigned
  <2> QED
    BY <1>1, <1>2, <1>5, <2>1, <2>2, <2>3
<1> QED
  BY Zenon, <1>3, <1>4, <1>5 DEF RoomInv, InForceIsSigned

\* A policy that still holds was signed for the epoch on record.
LEMMA PowerByInv == RoomInv => PowerIsCurrent /\ DecidedByModerator
BY Zenon DEF RoomInv, PowerIsSigned, PowerIsCurrent, AllowsModerate, VerifyRolePolicy

\* A room has one government (RoomLedger.Advance, VerifyAuthorityTransfer and
\* RoomRoleLedger.AllowsCurrent): whatever is lost, repeated, reordered or signed by a
\* member without the authority, whatever write fails and whenever an installation ends,
\* installations at one epoch agree on the members and the authority, and power to
\* moderate comes from that authority, for that epoch.
THEOREM RoomsGoverned == RoomSpec => []RoomsAreGoverned
<1>1. RoomInv => RoomsAreGoverned
  BY Zenon, AgreeByInv, PowerByInv DEF RoomsAreGoverned
<1> QED
  BY <1>1, GovernmentInit, RoomInvStep, PTL DEF RoomSpec

-----------------------------------------------------------------------------
(***************************************************************************)
(* Who may fetch an attachment. For any requests, capacities and clocks: a *)
(* signed request acts once, since its claim outlives its expiry.          *)
(***************************************************************************)

\* Whatever was performed is claimed until the recorded time is past its expiry; a call
\* was let in before its request's expiry.
AccessInv ==
    /\ handling \in [Handlers -> [request : AttachmentRequests, now : Nat] \cup {NoAccess}]
    /\ wallClock \in Nat /\ clockHigh \in Nat
    /\ performed \in [AttachmentRequests -> {0, 1}]
    /\ \A h \in Handlers : handling[h] # NoAccess =>
          handling[h].now < RequestExpires[handling[h].request]
    /\ \A r \in AttachmentRequests : performed[r] = 1 =>
          r \in attachmentClaims \/ RequestExpires[r] <= clockHigh

LEMMA AuthorizeStep ==
    ASSUME AccessInv, NEW h \in Handlers, NEW r \in AttachmentRequests, AuthorizeAccess(h, r)
    PROVE  AccessInv'
<1>1. [request |-> r, now |-> wallClock] \in [request : AttachmentRequests, now : Nat]
  BY Zenon DEF AccessInv
<1> QED
  BY Zenon, <1>1 DEF AccessInv, AuthorizeAccess, AccessVerified

\* The claims that a handler's time leaves still hold whatever was performed.
LEMMA ClaimStep ==
    ASSUME AccessInv, NEW h \in Handlers, ClaimAttachment(h)
    PROVE  AccessInv'
<1> DEFINE r == handling[h].request
           now == handling[h].now
           live == LiveClaimsAt(now)
<1>1. r \in AttachmentRequests /\ now \in Nat /\ now < RequestExpires[r]
  BY Zenon DEF AccessInv, ClaimAttachment
<1>2. /\ handling' = [handling EXCEPT ![h] = NoAccess]
      /\ UNCHANGED wallClock
  BY Zenon DEF ClaimAttachment
<1>3. CASE UNCHANGED <<attachmentClaims, clockHigh, performed>>
  BY Zenon, <1>2, <1>3 DEF AccessInv
<1>4. CASE clockHigh <= now
  <2>1. \A q \in AttachmentRequests : RequestExpires[q] \in Nat
    BY Zenon, AccessAssumption
  <2>2. \A q \in AttachmentRequests : performed[q] = 1 => q \in live \/ RequestExpires[q] <= now
    BY <1>1, <1>4, <2>1 DEF AccessInv, LiveClaimsAt
  <2>3. live \subseteq attachmentClaims
    BY Zenon DEF LiveClaimsAt
  <2>4. r \notin live => performed[r] = 0
    BY <1>1, <2>1, <2>2 DEF AccessInv
  <2>5. \/ UNCHANGED <<attachmentClaims, clockHigh, performed>>
        \/ /\ clockHigh' = now
           /\ live \subseteq attachmentClaims'
           /\ \/ performed' = performed
              \/ /\ r \notin live /\ r \in attachmentClaims'
                 /\ performed' = [performed EXCEPT ![r] = @ + 1]
    <3>1. \/ UNCHANGED <<attachmentClaims, clockHigh, performed>>
          \/ /\ clockHigh' = now
             /\ \/ attachmentClaims' \in {attachmentClaims, live, live \cup {r}} /\ performed' = performed
                \/ /\ r \notin live /\ attachmentClaims' = live \cup {r}
                   /\ performed' = [performed EXCEPT ![r] = @ + 1]
      BY Zenon DEF ClaimAttachment
    <3> HIDE DEF live, r, now
    <3> QED
      BY Zenon, <2>3, <3>1
  <2>6. CASE clockHigh' = now /\ live \subseteq attachmentClaims' /\ performed' = performed
    BY Zenon, <1>1, <1>2, <2>2, <2>6 DEF AccessInv
  <2>7. CASE /\ clockHigh' = now /\ live \subseteq attachmentClaims'
             /\ r \notin live /\ r \in attachmentClaims'
             /\ performed' = [performed EXCEPT ![r] = @ + 1]
    <3>1. \A q \in AttachmentRequests : performed'[q] = IF q = r THEN 1 ELSE performed[q]
      BY <1>1, <2>4, <2>7 DEF AccessInv
    <3>2. performed' \in [AttachmentRequests -> {0, 1}]
      BY Zenon, <1>1, <2>7, <3>1 DEF AccessInv
    <3> QED
      BY Zenon, <1>1, <1>2, <2>2, <2>7, <3>1, <3>2 DEF AccessInv
  <2> QED
    BY Zenon, <1>3, <2>5, <2>6, <2>7
<1> QED
  BY Zenon, <1>3, <1>4 DEF ClaimAttachment, advanceAccessClock

LEMMA WallClockStep ==
    ASSUME AccessInv, WallClockMoves
    PROVE  AccessInv'
<1>1. wallClock' \in Nat
  BY DEF AccessInv, WallClockMoves
<1> QED
  BY Zenon, <1>1 DEF AccessInv, WallClockMoves

\* A signed request of the attachment storage acts at most once: however many handlers
\* carry copies of it, with whatever time they read, whatever was purged in between,
\* whatever fails, and however the wall clock is set back (claimAccess,
\* advanceAccessClock).
THEOREM AttachmentAccessOnce == AccessSpec => []AccessActsOnce
<1>1. AccessInit => AccessInv
  BY DEF AccessInit, AccessInv
<1>2. AccessInv /\ [AccessNext]_accessVars => AccessInv'
  <2> SUFFICES ASSUME AccessInv, [AccessNext]_accessVars PROVE AccessInv'
    BY Zenon
  <2>1. CASE UNCHANGED accessVars
    BY Zenon, <2>1 DEF AccessInv, accessVars
  <2> QED
    BY Zenon, <2>1, AuthorizeStep, ClaimStep, WallClockStep DEF AccessNext
<1>3. AccessInv => AccessActsOnce
  BY DEF AccessInv, AccessActsOnce
<1> QED
  BY <1>1, <1>2, <1>3, PTL DEF AccessSpec

-----------------------------------------------------------------------------
(***************************************************************************)
(* Attachments. For any keys, rounds, chunks, retention and grace: what a  *)
(* recipient is told of can be fetched. The emitter and the storage        *)
(* operator each keep records, so UploadInv has two halves: what the       *)
(* Commit that holds the lock has behind it (CommitKnows), and that an     *)
(* acknowledgement which still counts is a lease that is there, whole      *)
(* (LeaseOfAcknowledged, LeaseIsWhole).                                    *)
(***************************************************************************)

CommitSteps == {"compose", "send", "lease", "partial", "stored", "queued"}
Commits == [key : UploadKeys, step : CommitSteps]

UploadTypes ==
    /\ tx \in [UploadKeys -> Transactions \cup {NoManifest}]
    /\ commit \in {NoCommit} \cup Commits
    /\ composed \in [UploadKeys -> Manifests \cup {NoManifest}]
    /\ queuedManifests \in [UploadKeys -> Manifests \cup {NoManifest}]
    /\ completed \subseteq UploadKeys
    /\ uploadClock \in Nat
    /\ \A m \in DOMAIN attached : attached[m] \in Nat

\* A transaction that was composed is the one its composition names: a key is
\* begun anew only while nothing was composed under it.
ComposedIsBegun ==
    \A k \in UploadKeys : Begun(k) /\ composed[k] # NoManifest => composed[k] = ManifestOf(k)

\* What the Commit that holds the lock has behind it.
CommitKnows ==
    commit # NoCommit =>
        /\ Begun(commit.key)
        /\ commit.step # "compose" => composed[commit.key] = ManifestOf(commit.key)
        /\ commit.step \in {"stored", "queued"} => composed[commit.key] \in DOMAIN attached
        /\ commit.step = "queued" => queuedManifests[commit.key] # NoManifest

\* An acknowledgement that still counts is the lease that is there.
LeaseOfAcknowledged ==
    \A m \in DOMAIN attached : attached[m] > uploadClock =>
        m \in DOMAIN leases /\ leases[m] = attached[m]

EmitterInv ==
    /\ UploadTypes /\ ComposedIsBegun /\ CommitKnows /\ QueuedWasStored /\ CompleteIsQueued
LeasesTyped == \A m \in DOMAIN leases : leases[m] \in Nat
StorageInv == LeaseIsWhole /\ LeaseOfAcknowledged /\ LeasesTyped
UploadInv == EmitterInv /\ StorageInv

-----------------------------------------------------------------------------

LEMMA AssignIs ==
    ASSUME NEW f, NEW x, NEW v
    PROVE  /\ DOMAIN Assign(f, x, v) = DOMAIN f \cup {x}
           /\ Assign(f, x, v)[x] = v
           /\ \A y \in DOMAIN f \ {x} : Assign(f, x, v)[y] = f[y]
BY Zenon DEF Assign

LEMMA RemovedIs ==
    ASSUME NEW f, NEW gone
    PROVE  /\ DOMAIN Removed(f, gone) = DOMAIN f \ gone
           /\ \A y \in DOMAIN f \ gone : Removed(f, gone)[y] = f[y]
BY Zenon DEF Removed

LEMMA CommitFields ==
    ASSUME UploadTypes
    PROVE  /\ commit.step \in CommitSteps =>
                 commit \in Commits /\ commit # NoCommit /\ commit.key \in UploadKeys
           /\ \A s \in CommitSteps : commit \in Commits =>
                 /\ [commit EXCEPT !.step = s] \in Commits
                 /\ [commit EXCEPT !.step = s].step = s
                 /\ [commit EXCEPT !.step = s].key = commit.key
           /\ \A k \in UploadKeys, s \in CommitSteps :
                 /\ [key |-> k, step |-> s] \in Commits
                 /\ [key |-> k, step |-> s].key = k /\ [key |-> k, step |-> s].step = s
           /\ NoCommit \notin Commits
BY DEF UploadTypes, Commits, CommitSteps, NoCommit

LEMMA ManifestType ==
    ASSUME UploadTypes, NEW k \in UploadKeys, Begun(k)
    PROVE  /\ ManifestOf(k) \in Manifests /\ ManifestOf(k) # NoManifest
           /\ tx[k] \in Transactions /\ tx[k].expires \in Nat
<1>1. tx[k] \in Transactions
  BY Zenon DEF UploadTypes, Begun
<1>2. tx[k].round \in Rounds /\ tx[k].expires \in Nat
  BY Zenon, <1>1 DEF Transactions
<1> QED
  BY <1>1, <1>2, UploadAssumption DEF ManifestOf, Manifests

\* The storage operator's half is about its own state and the clock.
LEMMA StorageQuiet ==
    ASSUME UploadInv, UNCHANGED storageVars, uploadClock' \in Nat, uploadClock <= uploadClock'
    PROVE  StorageInv'
<1>1. objects' = objects /\ leases' = leases /\ attached' = attached /\ uploadClock \in Nat
  BY Zenon DEF storageVars, UploadInv, EmitterInv, UploadTypes
<1>2. LeaseIsWhole'
  BY Zenon, <1>1 DEF UploadInv, StorageInv, LeaseIsWhole, ObjectsOf
<1>3. LeaseOfAcknowledged'
  <2> SUFFICES ASSUME NEW m \in DOMAIN attached, attached[m] > uploadClock'
               PROVE  m \in DOMAIN leases /\ leases[m] = attached[m]
    BY Zenon, <1>1 DEF LeaseOfAcknowledged
  <2>1. attached[m] \in Nat
    BY Zenon DEF UploadInv, EmitterInv, UploadTypes
  <2>2. attached[m] > uploadClock
    BY <1>1, <2>1
  <2> QED
    BY Zenon, <2>2 DEF UploadInv, StorageInv, LeaseOfAcknowledged
<1>4. LeasesTyped'
  BY Zenon, <1>1 DEF UploadInv, StorageInv, LeasesTyped
<1> QED
  BY Zenon, <1>2, <1>3, <1>4 DEF StorageInv

\* The emitter's half holds as long as acknowledgements are only added.
LEMMA EmitterQuiet ==
    ASSUME UploadInv, tx' = tx, commit' \in {commit, NoCommit}, composed' = composed,
           queuedManifests' = queuedManifests, completed' = completed,
           uploadClock' \in Nat, DOMAIN attached \subseteq DOMAIN attached',
           \A m \in DOMAIN attached' : attached'[m] \in Nat
    PROVE  EmitterInv'
<1>1. UploadTypes'
  BY Zenon DEF UploadInv, EmitterInv, UploadTypes
<1>2. ComposedIsBegun' /\ CompleteIsQueued'
  BY Zenon DEF UploadInv, EmitterInv, ComposedIsBegun, CompleteIsQueued, Begun, ManifestOf
<1>3. QueuedWasStored'
  BY Zenon DEF UploadInv, EmitterInv, QueuedWasStored
<1>4. CommitKnows'
  <2>1. CASE commit' = commit
    BY Zenon, <2>1 DEF UploadInv, EmitterInv, CommitKnows, Begun, ManifestOf
  <2>2. CASE commit' = NoCommit
    BY Zenon, <2>2 DEF CommitKnows
  <2> QED
    BY Zenon, <2>1, <2>2
<1> QED
  BY Zenon, <1>1, <1>2, <1>3, <1>4 DEF EmitterInv

\* The transaction of one key is replaced.
LEMMA TxReplaced ==
    ASSUME UploadInv, NEW k \in UploadKeys, NEW t \in Transactions \cup {NoManifest},
           tx' = [tx EXCEPT ![k] = t], composed' = composed,
           t # NoManifest /\ composed[k] # NoManifest => composed[k] = <<k, t.round>>
    PROVE  /\ tx' \in [UploadKeys -> Transactions \cup {NoManifest}]
           /\ tx'[k] = t /\ \A j \in UploadKeys \ {k} : tx'[j] = tx[j]
           /\ ComposedIsBegun'
<1>1. /\ tx' \in [UploadKeys -> Transactions \cup {NoManifest}]
      /\ tx'[k] = t /\ \A j \in UploadKeys \ {k} : tx'[j] = tx[j]
  BY Zenon DEF UploadInv, EmitterInv, UploadTypes
<1>2. ASSUME NEW j \in UploadKeys, tx'[j] # NoManifest, composed[j] # NoManifest
      PROVE  composed[j] = <<j, tx'[j].round>>
  <2>1. CASE j = k
    BY Zenon, <1>1, <1>2, <2>1
  <2>2. CASE j # k
    BY Zenon, <1>1, <1>2, <2>2 DEF UploadInv, EmitterInv, ComposedIsBegun, Begun, ManifestOf
  <2> QED
    BY Zenon, <2>1, <2>2
<1>3. ComposedIsBegun'
  BY Zenon, <1>2 DEF ComposedIsBegun, Begun, ManifestOf
<1> QED
  BY Zenon, <1>1, <1>3

\* A step between two Commits: a transaction is replaced, the queue and the
\* compositions stay.
LEMMA Between ==
    ASSUME UploadInv, NEW k \in UploadKeys, NEW t \in Transactions \cup {NoManifest},
           tx' = [tx EXCEPT ![k] = t], commit' = NoCommit, composed' = composed,
           queuedManifests' = queuedManifests, attached' = attached, uploadClock' = uploadClock,
           t # NoManifest /\ composed[k] # NoManifest => composed[k] = <<k, t.round>>,
           completed' \in {completed, completed \cup {k}},
           completed' # completed => queuedManifests[k] # NoManifest
    PROVE  EmitterInv'
<1>1. tx' \in [UploadKeys -> Transactions \cup {NoManifest}] /\ ComposedIsBegun'
  BY Zenon, TxReplaced
<1>2. UploadTypes'
  BY Zenon, <1>1 DEF UploadInv, EmitterInv, UploadTypes
<1>3. CommitKnows'
  BY Zenon DEF CommitKnows
<1>4. QueuedWasStored'
  BY Zenon DEF UploadInv, EmitterInv, QueuedWasStored
<1>5. CompleteIsQueued'
  BY Zenon DEF UploadInv, EmitterInv, CompleteIsQueued
<1> QED
  BY Zenon, <1>1, <1>2, <1>3, <1>4, <1>5 DEF EmitterInv

\* A transaction of the same round satisfies what Between asks.
LEMMA SameRound ==
    ASSUME UploadInv, NEW k \in UploadKeys, Begun(k), NEW t, t.round = tx[k].round,
           composed[k] # NoManifest
    PROVE  composed[k] = <<k, t.round>>
BY Zenon DEF UploadInv, EmitterInv, ComposedIsBegun, ManifestOf

LEMMA BeginStep ==
    ASSUME UploadInv, NEW k \in UploadKeys, BeginUpload(k)
    PROVE  UploadInv'
<1>0. UploadTypes /\ uploadClock \in Nat
  BY Zenon DEF UploadInv, EmitterInv, UploadTypes
<1>1. /\ commit' = NoCommit /\ composed' = composed /\ queuedManifests' = queuedManifests
      /\ UNCHANGED storageVars /\ attached' = attached /\ uploadClock' = uploadClock
  BY Zenon DEF BeginUpload, EmitterFree, storageVars
<1>2. StorageInv'
  <2>1. uploadClock' \in Nat /\ uploadClock <= uploadClock'
    BY <1>0, <1>1
  <2> QED
    BY Zenon, <1>1, <2>1, StorageQuiet
<1>3. CASE /\ LookupQueuedComposition(k) # NoManifest /\ completed' = completed \cup {k}
           /\ tx' = [tx EXCEPT ![k] = NoManifest]
  <2>1. queuedManifests[k] # NoManifest
    BY Zenon, <1>3 DEF LookupQueuedComposition
  <2>2. EmitterInv'
    BY Zenon, <1>1, <1>3, <2>1, Between
  <2> QED
    BY Zenon, <1>2, <2>2 DEF UploadInv
<1>4. CASE /\ composed[k] = NoManifest /\ rounds[k] + 1 \in Rounds
           /\ tx' = [tx EXCEPT ![k] = newTransaction(rounds[k] + 1)] /\ completed' = completed
  <2>1. newTransaction(rounds[k] + 1) \in Transactions
    BY <1>0, <1>4, UploadAssumption DEF newTransaction, Transactions
  <2>2. PICK t \in Transactions : t = newTransaction(rounds[k] + 1)
    BY Zenon, <2>1
  <2>3. EmitterInv'
    BY Zenon, <1>1, <1>4, <2>2, Between
  <2> QED
    BY Zenon, <1>2, <2>3 DEF UploadInv
<1>5. CASE tx' = [tx EXCEPT ![k] = NoManifest] /\ completed' = completed
  <2>1. EmitterInv'
    BY Zenon, <1>1, <1>5, Between
  <2> QED
    BY Zenon, <1>2, <2>1 DEF UploadInv
<1> QED
  BY Zenon, <1>3, <1>4, <1>5 DEF BeginUpload

LEMMA AppendStep ==
    ASSUME UploadInv, NEW k \in UploadKeys, AppendChunk(k)
    PROVE  UploadInv'
<1>0. UploadTypes /\ uploadClock \in Nat
  BY Zenon DEF UploadInv, EmitterInv, UploadTypes
<1>1. /\ commit' = NoCommit /\ composed' = composed /\ queuedManifests' = queuedManifests
      /\ UNCHANGED storageVars /\ attached' = attached /\ uploadClock' = uploadClock
      /\ completed' = completed /\ Begun(k)
  BY Zenon DEF AppendChunk, EmitterFree, storageVars
<1>2. StorageInv'
  <2>1. uploadClock' \in Nat /\ uploadClock <= uploadClock'
    BY <1>0, <1>1
  <2> QED
    BY Zenon, <1>1, <2>1, StorageQuiet
<1>3. PICK n \in Nat : n = OrphanReconciled(tx[k]).sealed + 1 /\ n - 1 \in Nat
  <2>1. tx[k] \in Transactions
    BY Zenon, <1>0, <1>1, ManifestType
  <2>2. OrphanReconciled(tx[k]).sealed = tx[k].chunks /\ tx[k].chunks \in Nat
    BY Zenon, <2>1 DEF OrphanReconciled, Transactions
  <2> QED
    BY <2>2
<1>4. PICK s \in Nat : tx' = [tx EXCEPT ![k].chunks = n, ![k].sealed = s]
  BY Zenon, <1>3 DEF AppendChunk
<1>5. PICK t \in Transactions : tx' = [tx EXCEPT ![k] = t] /\ t.round = tx[k].round
  <2>1. tx[k] \in Transactions
    BY Zenon, <1>0, <1>1, ManifestType
  <2>2. PICK t : t = [[tx[k] EXCEPT !.chunks = n] EXCEPT !.sealed = s]
    BY Zenon
  <2>3. t \in Transactions /\ t.round = tx[k].round
    BY Zenon, <2>1, <2>2 DEF Transactions
  <2>4. tx' = [tx EXCEPT ![k] = t]
    BY Zenon, <1>0, <1>4, <2>2 DEF UploadTypes
  <2> QED
    BY Zenon, <2>3, <2>4
<1>6. EmitterInv'
  BY Zenon, <1>1, <1>5, SameRound, Between
<1> QED
  BY Zenon, <1>2, <1>6 DEF UploadInv

LEMMA PrepareStep ==
    ASSUME UploadInv, NEW k \in UploadKeys, CommitPrepare(k)
    PROVE  UploadInv'
<1>0. UploadTypes /\ uploadClock \in Nat
  BY Zenon DEF UploadInv, EmitterInv, UploadTypes
<1>1. /\ composed' = composed /\ queuedManifests' = queuedManifests
      /\ UNCHANGED storageVars /\ attached' = attached /\ uploadClock' = uploadClock
      /\ completed' = completed /\ Begun(k)
  BY Zenon DEF CommitPrepare, EmitterFree, storageVars
<1>2. StorageInv'
  <2>1. uploadClock' \in Nat /\ uploadClock <= uploadClock'
    BY <1>0, <1>1
  <2> QED
    BY Zenon, <1>1, <2>1, StorageQuiet
<1>3. CASE tx' = [tx EXCEPT ![k] = NoManifest] /\ commit' = NoCommit
  <2>1. EmitterInv'
    BY Zenon, <1>1, <1>3, Between
  <2> QED
    BY Zenon, <1>2, <2>1 DEF UploadInv
<1>4. CASE /\ tx' = [tx EXCEPT ![k].prepared = TRUE, ![k].sealed = ChunkCount]
           /\ commit' = [key |-> k, step |-> "compose"]
  <2>1. PICK t \in Transactions : tx' = [tx EXCEPT ![k] = t] /\ t.round = tx[k].round
    <3>1. tx[k] \in Transactions
      BY Zenon, <1>0, <1>1, ManifestType
    <3>2. PICK t : t = [[tx[k] EXCEPT !.prepared = TRUE] EXCEPT !.sealed = ChunkCount]
      BY Zenon
    <3>3. t \in Transactions /\ t.round = tx[k].round
      BY Zenon, <3>1, <3>2, UploadAssumption DEF Transactions
    <3>4. tx' = [tx EXCEPT ![k] = t]
      BY Zenon, <1>0, <1>4, <3>2 DEF UploadTypes
    <3> QED
      BY Zenon, <3>3, <3>4
  <2>2. tx' \in [UploadKeys -> Transactions \cup {NoManifest}] /\ tx'[k] = t /\ ComposedIsBegun'
    BY Zenon, <1>1, <2>1, SameRound, TxReplaced
  <2>3. commit' \in Commits /\ commit'.key = k /\ commit'.step = "compose"
    BY Zenon, <1>0, <1>4, CommitFields DEF CommitSteps
  <2>4. UploadTypes'
    BY Zenon, <1>0, <1>1, <2>2, <2>3 DEF UploadTypes
  <2>5. tx'[k] # NoManifest
    BY Zenon, <2>2, UploadAssumption
  <2>6. CommitKnows'
    BY Zenon, <2>3, <2>5 DEF CommitKnows, Begun
  <2>7. QueuedWasStored' /\ CompleteIsQueued'
    BY Zenon, <1>1 DEF UploadInv, EmitterInv, QueuedWasStored, CompleteIsQueued
  <2> QED
    BY Zenon, <1>2, <2>2, <2>4, <2>6, <2>7 DEF UploadInv, EmitterInv
<1> QED
  BY Zenon, <1>3, <1>4 DEF CommitPrepare, CommitEnds

\* The Commit that holds the lock goes on, and composes or queues on its way.
LEMMA GoesOn ==
    ASSUME UploadInv, commit \in Commits, NEW s \in CommitSteps \ {"compose"},
           commit' = [commit EXCEPT !.step = s], tx' = tx, completed' = completed,
           composed' \in [UploadKeys -> Manifests \cup {NoManifest}],
           \A j \in UploadKeys : composed'[j] = composed[j] \/ composed[j] = NoManifest,
           \A j \in UploadKeys \ {commit.key} : composed'[j] = composed[j],
           composed'[commit.key] = ManifestOf(commit.key),
           queuedManifests' \in [UploadKeys -> Manifests \cup {NoManifest}],
           \A j \in UploadKeys : queuedManifests'[j] = queuedManifests[j]
                                 \/ (j = commit.key /\ queuedManifests'[j] = composed'[j]),
           uploadClock' = uploadClock, DOMAIN attached \subseteq DOMAIN attached',
           \A m \in DOMAIN attached' : attached'[m] \in Nat,
           s \in {"stored", "queued"} => composed'[commit.key] \in DOMAIN attached',
           s = "queued" => queuedManifests'[commit.key] = composed'[commit.key],
           queuedManifests' # queuedManifests => s = "queued"
    PROVE  EmitterInv'
<1>0. UploadTypes /\ commit.key \in UploadKeys
  BY Zenon, CommitFields DEF UploadInv, EmitterInv, Commits
<1>1. commit' \in Commits /\ commit'.step = s /\ commit'.key = commit.key
  BY Zenon, <1>0, CommitFields
<1>2. Begun(commit.key)
  BY Zenon, <1>0, CommitFields DEF UploadInv, EmitterInv, CommitKnows
<1>3. composed'[commit.key] # NoManifest
  BY Zenon, <1>0, <1>2, ManifestType
<1>4. UploadTypes'
  BY Zenon, <1>0, <1>1 DEF UploadTypes
<1>5. ComposedIsBegun'
  BY Zenon, <1>0 DEF UploadInv, EmitterInv, ComposedIsBegun, Begun, ManifestOf
<1>6. CommitKnows'
  BY Zenon, <1>1, <1>2, <1>3 DEF CommitKnows, Begun, ManifestOf
<1>7. ASSUME NEW j \in UploadKeys, queuedManifests'[j] # NoManifest
      PROVE  queuedManifests'[j] = composed'[j] /\ queuedManifests'[j] \in DOMAIN attached'
  <2>1. CASE queuedManifests'[j] = queuedManifests[j]
    <3>1. queuedManifests[j] = composed[j] /\ queuedManifests[j] \in DOMAIN attached
      BY Zenon, <1>7, <2>1 DEF UploadInv, EmitterInv, QueuedWasStored
    <3> QED
      BY Zenon, <1>7, <2>1, <3>1
  <2>2. CASE queuedManifests'[j] # queuedManifests[j]
    <3>1. j = commit.key /\ queuedManifests'[j] = composed'[j] /\ s = "queued"
      BY Zenon, <2>2
    <3> QED
      BY Zenon, <3>1
  <2> QED
    BY Zenon, <2>1, <2>2
<1>8. QueuedWasStored'
  BY Zenon, <1>7 DEF QueuedWasStored
<1>9. CompleteIsQueued'
  BY Zenon, <1>0, <1>3 DEF UploadInv, EmitterInv, CompleteIsQueued, UploadTypes
<1> QED
  BY Zenon, <1>4, <1>5, <1>6, <1>8, <1>9 DEF EmitterInv

LEMMA Holding ==
    ASSUME UploadInv, NEW s \in CommitSteps, commit.step = s
    PROVE  /\ commit \in Commits /\ commit.key \in UploadKeys /\ Begun(commit.key)
           /\ s # "compose" => composed[commit.key] = ManifestOf(commit.key)
           /\ s \in {"stored", "queued"} => composed[commit.key] \in DOMAIN attached
           /\ s = "queued" => queuedManifests[commit.key] # NoManifest
           /\ UploadTypes /\ uploadClock \in Nat
BY Zenon, CommitFields DEF UploadInv, EmitterInv, CommitKnows, UploadTypes

LEMMA ComposeStep ==
    ASSUME UploadInv, CommitCompose
    PROVE  UploadInv'
<1>0. commit.step = "compose"
  BY Zenon DEF CommitCompose, CommitAt
<1>1. /\ commit \in Commits /\ commit.key \in UploadKeys /\ Begun(commit.key)
      /\ UploadTypes /\ uploadClock \in Nat
  BY Zenon, <1>0, Holding DEF CommitSteps
<1>2. PICK k \in UploadKeys : k = commit.key
  BY Zenon, <1>1
<1>3. /\ queuedManifests' = queuedManifests /\ UNCHANGED storageVars /\ attached' = attached
      /\ uploadClock' = uploadClock
  BY Zenon DEF CommitCompose, storageVars
<1>4. StorageInv'
  <2>1. uploadClock' \in Nat /\ uploadClock <= uploadClock'
    BY <1>1, <1>3
  <2> QED
    BY Zenon, <1>3, <2>1, StorageQuiet
<1>5. CASE commit' = NoCommit /\ UNCHANGED <<tx, composed, completed>>
  <2>1. EmitterInv'
    BY Zenon, <1>1, <1>3, <1>5, EmitterQuiet DEF UploadTypes
  <2> QED
    BY Zenon, <1>4, <2>1 DEF UploadInv
<1>6. CASE /\ composed[k] = NoManifest
           /\ composed' = [composed EXCEPT ![k] = ManifestOf(k)]
           /\ CommitTo("send") /\ UNCHANGED <<tx, completed>>
  <2>1. ManifestOf(k) \in Manifests
    BY Zenon, <1>1, <1>2, ManifestType
  <2>2. /\ composed' \in [UploadKeys -> Manifests \cup {NoManifest}]
        /\ composed'[k] = ManifestOf(k)
        /\ \A j \in UploadKeys \ {k} : composed'[j] = composed[j]
    BY Zenon, <1>1, <1>6, <2>1 DEF UploadTypes
  <2>3. commit' = [commit EXCEPT !.step = "send"] /\ "send" \in CommitSteps \ {"compose"}
    BY Zenon, <1>6 DEF CommitTo, CommitSteps
  <2>4. /\ queuedManifests' \in [UploadKeys -> Manifests \cup {NoManifest}]
        /\ \A m \in DOMAIN attached' : attached'[m] \in Nat
    BY Zenon, <1>1, <1>3 DEF UploadTypes
  <2>5. EmitterInv'
    BY Zenon, <1>1, <1>2, <1>3, <1>6, <2>2, <2>3, <2>4, GoesOn
  <2> QED
    BY Zenon, <1>4, <2>5 DEF UploadInv
<1>7. CASE /\ composed[k] = ManifestOf(k)
           /\ CommitTo("send") /\ UNCHANGED <<tx, composed, completed>>
  <2>1. commit' = [commit EXCEPT !.step = "send"] /\ "send" \in CommitSteps \ {"compose"}
    BY Zenon, <1>7 DEF CommitTo, CommitSteps
  <2>2. /\ queuedManifests' \in [UploadKeys -> Manifests \cup {NoManifest}]
        /\ composed' \in [UploadKeys -> Manifests \cup {NoManifest}]
        /\ \A m \in DOMAIN attached' : attached'[m] \in Nat
    BY Zenon, <1>1, <1>3, <1>7 DEF UploadTypes
  <2>3. EmitterInv'
    BY Zenon, <1>1, <1>2, <1>3, <1>7, <2>1, <2>2, GoesOn
  <2> QED
    BY Zenon, <1>4, <2>3 DEF UploadInv
<1>8. composed[k] # NoManifest => composed[k] = ManifestOf(k)
  BY Zenon, <1>1, <1>2 DEF UploadInv, EmitterInv, ComposedIsBegun
<1> QED
  BY Zenon, <1>2, <1>5, <1>6, <1>7, <1>8 DEF CommitCompose, CommitEnds

\* The steps that only move on, or end the Commit.
LEMMA MovesOrEnds ==
    ASSUME UploadInv, commit \in Commits, NEW s \in {"send", "lease", "partial"},
           commit' = NoCommit \/ (commit.step # "compose" /\ commit' = [commit EXCEPT !.step = s]),
           UNCHANGED <<tx, composed, queuedManifests, completed, attached, uploadClock>>
    PROVE  EmitterInv'
<1>0. UploadTypes /\ uploadClock \in Nat /\ commit.step \in CommitSteps /\ commit # NoCommit
  BY Zenon, CommitFields DEF UploadInv, EmitterInv, UploadTypes, Commits
<1>1. CASE commit' = NoCommit
  BY Zenon, <1>0, <1>1, EmitterQuiet DEF UploadTypes
<1>2. CASE commit.step # "compose" /\ commit' = [commit EXCEPT !.step = s]
  <2>1. composed[commit.key] = ManifestOf(commit.key)
    BY Zenon, <1>0, <1>2 DEF UploadInv, EmitterInv, CommitKnows
  <2>2. s \in CommitSteps \ {"compose"} /\ s \notin {"stored", "queued"}
    BY Zenon DEF CommitSteps
  <2>3. /\ queuedManifests' \in [UploadKeys -> Manifests \cup {NoManifest}]
        /\ composed' \in [UploadKeys -> Manifests \cup {NoManifest}]
        /\ \A m \in DOMAIN attached' : attached'[m] \in Nat
    BY Zenon, <1>0 DEF UploadTypes
  <2> QED
    BY Zenon, <1>2, <2>1, <2>2, <2>3, GoesOn
<1> QED
  BY Zenon, <1>1, <1>2

LEMMA PutStep ==
    ASSUME UploadInv, PutObjects
    PROVE  UploadInv'
<1>0. commit.step = "send"
  BY Zenon DEF PutObjects, CommitAt
<1>1. commit \in Commits
  BY Zenon, <1>0, Holding DEF CommitSteps
<1>2. UNCHANGED <<tx, composed, queuedManifests, completed, attached, uploadClock>> /\ leases' = leases
  BY Zenon DEF PutObjects
<1>3. commit' = NoCommit \/ (commit.step # "compose" /\ commit' = [commit EXCEPT !.step = "lease"])
  BY Zenon, <1>0 DEF PutObjects, CommitEnds, CommitTo
<1>4. EmitterInv'
  BY Zenon, <1>1, <1>2, <1>3, MovesOrEnds
<1>5. DOMAIN objects \subseteq DOMAIN objects'
  <2>1. CASE objects' = objects
    BY Zenon, <2>1
  <2>2. ASSUME NEW o, objects' = Assign(objects, o, uploadClock)
        PROVE  DOMAIN objects \subseteq DOMAIN objects'
    BY Zenon, <2>2 DEF Assign
  <2> QED
    BY Zenon, <2>1, <2>2 DEF PutObjects
<1>6. LeaseIsWhole'
  BY Zenon, <1>2, <1>5 DEF UploadInv, StorageInv, LeaseIsWhole, ObjectsOf
<1>7. LeaseOfAcknowledged'
  BY Zenon, <1>2 DEF UploadInv, StorageInv, LeaseOfAcknowledged
<1>8. LeasesTyped'
  BY Zenon, <1>2 DEF UploadInv, StorageInv, LeasesTyped
<1> QED
  BY Zenon, <1>4, <1>6, <1>7, <1>8 DEF UploadInv, StorageInv

LEMMA OpaqueStep ==
    ASSUME UploadInv, CommitOpaque
    PROVE  UploadInv'
<1>0. commit.step = "lease"
  BY Zenon DEF CommitOpaque, CommitAt
<1>1. /\ commit \in Commits /\ commit.key \in UploadKeys /\ Begun(commit.key)
      /\ composed[commit.key] = ManifestOf(commit.key) /\ UploadTypes /\ uploadClock \in Nat
  BY Zenon, <1>0, Holding DEF CommitSteps
<1>2. UNCHANGED <<tx, composed, queuedManifests, completed, uploadClock, objects>>
  BY Zenon DEF CommitOpaque
<1>3. CASE /\ commit' = NoCommit \/ commit' = [commit EXCEPT !.step = "partial"]
           /\ UNCHANGED <<leases, attached>>
  <2>1. EmitterInv'
    BY Zenon, <1>0, <1>1, <1>2, <1>3, MovesOrEnds
  <2>2. StorageInv'
    BY Zenon, <1>2, <1>3
       DEF UploadInv, StorageInv, LeaseIsWhole, LeaseOfAcknowledged, LeasesTyped, ObjectsOf
  <2> QED
    BY Zenon, <2>1, <2>2 DEF UploadInv
<1>4. ASSUME NEW m, m = ManifestOf(commit.key), NEW x \in Nat,
             ObjectsOf(m) \subseteq DOMAIN objects,
             leases' = Assign(leases, m, x), attached' = Assign(attached, m, x),
             commit' = [commit EXCEPT !.step = "stored"]
      PROVE  UploadInv'
  <2>1. /\ DOMAIN leases' = DOMAIN leases \cup {m} /\ leases'[m] = x
        /\ \A y \in DOMAIN leases \ {m} : leases'[y] = leases[y]
    BY Zenon, <1>4 DEF Assign
  <2>2. /\ DOMAIN attached' = DOMAIN attached \cup {m} /\ attached'[m] = x
        /\ \A y \in DOMAIN attached \ {m} : attached'[y] = attached[y]
    BY Zenon, <1>4 DEF Assign
  <2>3. \A y \in DOMAIN attached' : attached'[y] \in Nat
    BY Zenon, <1>1, <2>2 DEF UploadTypes
  <2>4. EmitterInv'
    <3>1. "stored" \in CommitSteps \ {"compose"} /\ "stored" # "queued"
      BY Zenon DEF CommitSteps
    <3>2. /\ queuedManifests' \in [UploadKeys -> Manifests \cup {NoManifest}]
          /\ composed' \in [UploadKeys -> Manifests \cup {NoManifest}]
      BY Zenon, <1>1, <1>2 DEF UploadTypes
    <3>3. composed'[commit.key] \in DOMAIN attached' /\ DOMAIN attached \subseteq DOMAIN attached'
      BY Zenon, <1>1, <1>2, <1>4, <2>2
    <3> QED
      BY Zenon, <1>1, <1>2, <1>4, <2>3, <3>1, <3>2, <3>3, GoesOn
  <2>5. LeaseIsWhole'
    BY Zenon, <1>2, <1>4, <2>1 DEF UploadInv, StorageInv, LeaseIsWhole, ObjectsOf
  <2>6. LeaseOfAcknowledged'
    BY Zenon, <1>2, <2>1, <2>2 DEF UploadInv, StorageInv, LeaseOfAcknowledged
  <2>7. LeasesTyped'
    BY Zenon, <2>1 DEF UploadInv, StorageInv, LeasesTyped
  <2> QED
    BY Zenon, <2>4, <2>5, <2>6, <2>7 DEF UploadInv, StorageInv
<1>5. tx[commit.key].expires \in Nat
  BY Zenon, <1>1, ManifestType
<1>6. CASE commit' = NoCommit \/ commit' = [commit EXCEPT !.step = "partial"]
  <2>1. CASE UNCHANGED <<leases, attached>>
    BY Zenon, <1>3, <1>6, <2>1
  <2>2. CASE ~UNCHANGED <<leases, attached>>
    <3>1. /\ leases' = Assign(leases, ManifestOf(commit.key), tx[commit.key].expires)
          /\ attached' = Assign(attached, ManifestOf(commit.key), tx[commit.key].expires)
          /\ ObjectsOf(ManifestOf(commit.key)) \subseteq DOMAIN objects
          /\ commit' = [commit EXCEPT !.step = "stored"]
      BY Zenon, <2>2 DEF CommitOpaque, CommitTo
    <3> QED
      BY Zenon, <1>4, <1>5, <3>1
  <2> QED
    BY Zenon, <2>1, <2>2
<1>7. CASE ~(commit' = NoCommit \/ commit' = [commit EXCEPT !.step = "partial"])
  <2>1. /\ leases' = Assign(leases, ManifestOf(commit.key), tx[commit.key].expires)
        /\ attached' = Assign(attached, ManifestOf(commit.key), tx[commit.key].expires)
        /\ ObjectsOf(ManifestOf(commit.key)) \subseteq DOMAIN objects
        /\ commit' = [commit EXCEPT !.step = "stored"]
    BY Zenon, <1>7 DEF CommitOpaque, CommitTo, CommitEnds
  <2> QED
    BY Zenon, <1>4, <1>5, <2>1
<1> QED
  BY Zenon, <1>6, <1>7

LEMMA EndingSteps ==
    ASSUME UploadInv, CommitFails \/ CommitPartial \/ CommitDestroy
    PROVE  UploadInv'
<1>0. commit.step \in {"send", "lease", "partial", "stored", "queued"}
  BY Zenon DEF CommitFails, CommitPartial, CommitDestroy, CommitAt
<1>1. /\ commit \in Commits /\ commit.key \in UploadKeys /\ Begun(commit.key)
      /\ UploadTypes /\ uploadClock \in Nat
  BY Zenon, <1>0, Holding DEF CommitSteps
<1>2. /\ composed' = composed /\ queuedManifests' = queuedManifests /\ commit' = NoCommit
      /\ UNCHANGED storageVars /\ attached' = attached /\ uploadClock' = uploadClock
  BY Zenon DEF CommitFails, CommitPartial, CommitDestroy, CommitEnds, storageVars
<1>3. StorageInv'
  <2>1. uploadClock' \in Nat /\ uploadClock <= uploadClock'
    BY <1>1, <1>2
  <2> QED
    BY Zenon, <1>2, <2>1, StorageQuiet
<1>4. PICK k \in UploadKeys : k = commit.key
  BY Zenon, <1>1
<1>5. ASSUME tx' = tx, completed' = completed PROVE UploadInv'
  <2>1. EmitterInv'
    BY Zenon, <1>1, <1>2, <1>5, EmitterQuiet DEF UploadTypes
  <2> QED
    BY Zenon, <1>3, <2>1 DEF UploadInv
<1>6. CASE CommitFails
  BY Zenon, <1>5, <1>6 DEF CommitFails
<1>7. CASE CommitPartial
  <2>1. CASE tx' = tx
    BY Zenon, <1>5, <1>7, <2>1 DEF CommitPartial
  <2>2. CASE tx' = [tx EXCEPT ![k].uploaded = @ + 1]
    <3>1. tx[k] \in Transactions
      BY Zenon, <1>1, <1>4, ManifestType
    <3>2. PICK t : t = [tx[k] EXCEPT !.uploaded = @ + 1]
      BY Zenon
    <3>3. t \in Transactions /\ t.round = tx[k].round
      BY <3>1, <3>2 DEF Transactions
    <3>4. tx' = [tx EXCEPT ![k] = t]
      BY Zenon, <1>1, <2>2, <3>2 DEF UploadTypes
    <3>5. EmitterInv'
      BY Zenon, <1>1, <1>2, <1>4, <1>7, <3>3, <3>4, SameRound, Between DEF CommitPartial
    <3> QED
      BY Zenon, <1>3, <3>5 DEF UploadInv
  <2> QED
    BY Zenon, <1>4, <1>7, <2>1, <2>2 DEF CommitPartial
<1>8. CASE CommitDestroy
  <2>1. queuedManifests[k] # NoManifest
    BY Zenon, <1>4, <1>8, Holding DEF CommitDestroy, CommitAt, CommitSteps
  <2>2. EmitterInv'
    BY Zenon, <1>2, <1>4, <1>8, <2>1, Between DEF CommitDestroy
  <2> QED
    BY Zenon, <1>3, <2>2 DEF UploadInv
<1> QED
  BY Zenon, <1>6, <1>7, <1>8

LEMMA QueueStep ==
    ASSUME UploadInv, CommitQueue
    PROVE  UploadInv'
<1>0. commit.step = "stored"
  BY Zenon DEF CommitQueue, CommitAt
<1>1. /\ commit \in Commits /\ commit.key \in UploadKeys /\ Begun(commit.key)
      /\ composed[commit.key] = ManifestOf(commit.key) /\ composed[commit.key] \in DOMAIN attached
      /\ UploadTypes /\ uploadClock \in Nat
  BY Zenon, <1>0, Holding DEF CommitSteps
<1>2. /\ UNCHANGED <<tx, composed, completed, uploadClock>> /\ UNCHANGED storageVars
      /\ attached' = attached /\ commit' = [commit EXCEPT !.step = "queued"]
  BY Zenon DEF CommitQueue, CommitTo, storageVars
<1>3. PICK k \in UploadKeys : k = commit.key
  BY Zenon, <1>1
<1>4. queuedManifests' = [queuedManifests EXCEPT ![k] = composed[k]]
  BY Zenon, <1>3 DEF CommitQueue
<1>5. /\ queuedManifests' \in [UploadKeys -> Manifests \cup {NoManifest}]
      /\ queuedManifests'[k] = composed[k]
      /\ \A j \in UploadKeys \ {k} : queuedManifests'[j] = queuedManifests[j]
  BY Zenon, <1>1, <1>4 DEF UploadTypes
<1>6. /\ composed' \in [UploadKeys -> Manifests \cup {NoManifest}]
      /\ \A m \in DOMAIN attached' : attached'[m] \in Nat
      /\ "queued" \in CommitSteps \ {"compose"}
  BY Zenon, <1>1, <1>2 DEF UploadTypes, CommitSteps
<1>7. EmitterInv'
  BY Zenon, <1>1, <1>2, <1>3, <1>5, <1>6, GoesOn
<1>8. StorageInv'
  <2>1. uploadClock' \in Nat /\ uploadClock <= uploadClock'
    BY <1>1, <1>2
  <2> QED
    BY Zenon, <1>2, <2>1, StorageQuiet
<1> QED
  BY Zenon, <1>7, <1>8 DEF UploadInv

LEMMA CollectStep ==
    ASSUME UploadInv, CollectGarbage
    PROVE  UploadInv'
<1>0. UploadTypes /\ uploadClock \in Nat
  BY Zenon DEF UploadInv, EmitterInv, UploadTypes
<1>1. UNCHANGED <<tx, commit, composed, queuedManifests, completed, attached, uploadClock>>
  BY Zenon DEF CollectGarbage, emitterVars
<1>2. EmitterInv'
  BY Zenon, <1>0, <1>1, EmitterQuiet DEF UploadTypes
<1>3. /\ DOMAIN leases' = DOMAIN leases \ {m \in DOMAIN leases : leases[m] <= uploadClock}
      /\ \A m \in DOMAIN leases' : leases'[m] = leases[m]
  BY Zenon DEF CollectGarbage, Removed
<1>4. DOMAIN objects' = DOMAIN objects \ Collectable
  BY Zenon DEF CollectGarbage, Removed
<1>5. ASSUME NEW m \in DOMAIN leases', NEW o \in ObjectsOf(m)
      PROVE  o \in DOMAIN objects'
  <2>1. m \in DOMAIN leases /\ ~(leases[m] <= uploadClock) /\ o \in DOMAIN objects
    BY Zenon, <1>3 DEF UploadInv, StorageInv, LeaseIsWhole
  <2>2. o[1] = m
    BY Zenon DEF ObjectsOf
  <2>3. leases[m] > uploadClock => o \notin Collectable
    BY Zenon, <2>1, <2>2 DEF Collectable
  <2>4. leases[m] > uploadClock
    BY <1>0, <2>1 DEF UploadInv, StorageInv, LeasesTyped
  <2> QED
    BY Zenon, <1>4, <2>1, <2>3, <2>4
<1>6. LeaseIsWhole'
  BY Zenon, <1>5 DEF LeaseIsWhole, ObjectsOf
<1>7. LeaseOfAcknowledged'
  <2> SUFFICES ASSUME NEW m \in DOMAIN attached, attached[m] > uploadClock
               PROVE  m \in DOMAIN leases' /\ leases'[m] = attached[m]
    BY Zenon, <1>1 DEF LeaseOfAcknowledged
  <2>1. m \in DOMAIN leases /\ leases[m] = attached[m]
    BY Zenon DEF UploadInv, StorageInv, LeaseOfAcknowledged
  <2>2. attached[m] \in Nat
    BY Zenon, <1>0 DEF UploadTypes
  <2>3. ~(leases[m] <= uploadClock)
    BY <1>0, <2>1, <2>2
  <2> QED
    BY Zenon, <1>3, <2>1, <2>3
<1>8. LeasesTyped'
  BY Zenon, <1>3 DEF UploadInv, StorageInv, LeasesTyped
<1> QED
  BY Zenon, <1>2, <1>6, <1>7, <1>8 DEF UploadInv, StorageInv

LEMMA DeleteStep ==
    ASSUME UploadInv, NEW m, DeleteLease(m)
    PROVE  UploadInv'
<1>0. UploadTypes /\ uploadClock \in Nat
  BY Zenon DEF UploadInv, EmitterInv, UploadTypes
<1>1. UNCHANGED <<tx, commit, composed, queuedManifests, completed, uploadClock, objects>>
  BY Zenon DEF DeleteLease, emitterVars
<1>2. /\ DOMAIN leases' = DOMAIN leases \ {m}
      /\ \A y \in DOMAIN leases' : leases'[y] = leases[y]
  BY Zenon DEF DeleteLease, Removed
<1>3. /\ DOMAIN attached' = DOMAIN attached \cup {m} /\ attached'[m] = 0
      /\ \A y \in DOMAIN attached \ {m} : attached'[y] = attached[y]
  BY Zenon DEF DeleteLease, Assign
<1>4. EmitterInv'
  <2>1. \A y \in DOMAIN attached' : attached'[y] \in Nat
    BY <1>0, <1>3 DEF UploadTypes
  <2> QED
    BY Zenon, <1>0, <1>1, <1>3, <2>1, EmitterQuiet
<1>5. LeaseIsWhole'
  BY Zenon, <1>1, <1>2 DEF UploadInv, StorageInv, LeaseIsWhole, ObjectsOf
<1>6. LeaseOfAcknowledged'
  <2> SUFFICES ASSUME NEW y \in DOMAIN attached', attached'[y] > uploadClock
               PROVE  y \in DOMAIN leases' /\ leases'[y] = attached'[y]
    BY Zenon, <1>1 DEF LeaseOfAcknowledged
  <2>1. y # m
    BY <1>0, <1>3
  <2>2. y \in DOMAIN attached /\ attached'[y] = attached[y]
    BY Zenon, <1>3, <2>1
  <2>3. y \in DOMAIN leases /\ leases[y] = attached[y]
    BY Zenon, <2>2 DEF UploadInv, StorageInv, LeaseOfAcknowledged
  <2> QED
    BY Zenon, <1>2, <2>1, <2>2, <2>3
<1>7. LeasesTyped'
  BY Zenon, <1>2 DEF UploadInv, StorageInv, LeasesTyped
<1> QED
  BY Zenon, <1>4, <1>5, <1>6, <1>7 DEF UploadInv, StorageInv

LEMMA EmitterCrashStep ==
    ASSUME UploadInv, EmitterCrash
    PROVE  UploadInv'
<1>0. UploadTypes /\ uploadClock \in Nat
  BY Zenon DEF UploadInv, EmitterInv, UploadTypes
<1>1. /\ composed' = composed /\ queuedManifests' = queuedManifests /\ commit' = NoCommit
      /\ UNCHANGED storageVars /\ attached' = attached /\ uploadClock' = uploadClock
      /\ completed' = completed
  BY Zenon DEF EmitterCrash, CommitEnds, storageVars
<1>2. /\ tx' \in [UploadKeys -> Transactions \cup {NoManifest}]
      /\ \A k \in UploadKeys : tx'[k] # NoManifest => Begun(k) /\ tx'[k].round = tx[k].round
  <2>1. tx' = [k \in UploadKeys |-> IF Begun(k) /\ residue' = {} THEN OrphanReconciled(tx[k]) ELSE tx[k]]
    BY Zenon DEF EmitterCrash
  <2>2. \A t \in Transactions : OrphanReconciled(t) \in Transactions /\ OrphanReconciled(t).round = t.round
    BY Zenon DEF OrphanReconciled, Transactions
  <2>3. ASSUME NEW k \in UploadKeys
        PROVE  /\ tx'[k] \in Transactions \cup {NoManifest}
               /\ tx'[k] # NoManifest => Begun(k) /\ tx'[k].round = tx[k].round
    <3>1. CASE Begun(k)
      <4>1. tx[k] \in Transactions
        BY Zenon, <1>0, <3>1, ManifestType
      <4>2. tx'[k] \in {OrphanReconciled(tx[k]), tx[k]}
        BY Zenon, <2>1
      <4> QED
        BY Zenon, <2>2, <3>1, <4>1, <4>2
    <3>2. CASE ~Begun(k)
      <4>1. tx'[k] = NoManifest
        BY Zenon, <2>1, <3>2 DEF Begun
      <4> QED
        BY Zenon, <4>1
    <3> QED
      BY Zenon, <3>1, <3>2
  <2>4. DOMAIN tx' = UploadKeys /\ tx' = [k \in UploadKeys |-> tx'[k]]
    BY Zenon, <2>1
  <2> QED
    BY Zenon, <2>3, <2>4
<1>3. UploadTypes'
  BY Zenon, <1>0, <1>1, <1>2 DEF UploadTypes
<1>4. ComposedIsBegun'
  BY Zenon, <1>1, <1>2 DEF UploadInv, EmitterInv, ComposedIsBegun, Begun, ManifestOf
<1>5. CommitKnows' /\ QueuedWasStored' /\ CompleteIsQueued'
  BY Zenon, <1>1 DEF UploadInv, EmitterInv, CommitKnows, QueuedWasStored, CompleteIsQueued
<1>6. StorageInv'
  <2>1. uploadClock' \in Nat /\ uploadClock <= uploadClock'
    BY <1>0, <1>1
  <2> QED
    BY Zenon, <1>1, <2>1, StorageQuiet
<1> QED
  BY Zenon, <1>3, <1>4, <1>5, <1>6 DEF UploadInv, EmitterInv

LEMMA UploadInitially == UploadInit => UploadInv
<1> SUFFICES ASSUME UploadInit PROVE UploadInv
  BY Zenon
<1>1. attached = <<>> /\ leases = <<>> /\ DOMAIN attached = {} /\ DOMAIN leases = {}
  BY DEF UploadInit
<1>2. UploadTypes
  BY Zenon, <1>1 DEF UploadInit, UploadTypes
<1>3. ComposedIsBegun /\ CommitKnows /\ QueuedWasStored /\ CompleteIsQueued
  BY Zenon DEF UploadInit, ComposedIsBegun, CommitKnows, QueuedWasStored, CompleteIsQueued
<1>4. LeaseIsWhole /\ LeaseOfAcknowledged /\ LeasesTyped
  BY Zenon, <1>1 DEF LeaseIsWhole, LeaseOfAcknowledged, LeasesTyped
<1> QED
  BY Zenon, <1>2, <1>3, <1>4 DEF UploadInv, EmitterInv, StorageInv

LEMMA UploadStep == UploadInv /\ [UploadNext]_uploadVars => UploadInv'
<1> SUFFICES ASSUME UploadInv, [UploadNext]_uploadVars PROVE UploadInv'
  BY Zenon
<1>0. UploadTypes /\ uploadClock \in Nat
  BY Zenon DEF UploadInv, EmitterInv, UploadTypes
<1>1. CASE UNCHANGED uploadVars \/ UploadTick
  <2>1. /\ UNCHANGED <<tx, commit, composed, queuedManifests, completed, attached>>
        /\ UNCHANGED storageVars
        /\ uploadClock' \in {uploadClock, uploadClock + 1}
    BY Zenon, <1>1 DEF uploadVars, emitterVars, storageVars, UploadTick
  <2>2. uploadClock' \in Nat /\ uploadClock <= uploadClock'
    BY <1>0, <2>1
  <2>3. EmitterInv' /\ StorageInv'
    BY Zenon, <1>0, <2>1, <2>2, EmitterQuiet, StorageQuiet DEF UploadTypes
  <2> QED
    BY Zenon, <2>3 DEF UploadInv
<1> QED
  BY <1>1, BeginStep, AppendStep, PrepareStep, ComposeStep, PutStep, OpaqueStep, EndingSteps,
     QueueStep, CollectStep, DeleteStep, EmitterCrashStep DEF UploadNext

\* What a recipient is told of can be fetched, for any keys, rounds, chunks, retention
\* and grace, wherever a call fails or the daemon ends: it was stored whole before it was
\* queued, queued before it was reported complete, and no collection takes a chunk of it
\* away before it expires.
THEOREM UploadsFetchable == UploadSpec => []AttachmentsAreFetchable
<1>1. ASSUME UploadInv PROVE AttachmentsAreFetchable
  <2>1. StoredUntilExpiry
    BY Zenon, <1>1 DEF UploadInv, StorageInv, LeaseIsWhole, LeaseOfAcknowledged, StoredUntilExpiry
  <2> QED
    BY Zenon, <1>1, <2>1 DEF UploadInv, EmitterInv, StorageInv, AttachmentsAreFetchable
<1> QED
  BY <1>1, UploadInitially, UploadStep, PTL DEF UploadSpec

-----------------------------------------------------------------------------
(***************************************************************************)
(* Bags behind Sites. For any bags, hints and crashes: a locator that is   *)
(* held, passed on or recorded reproduces the history it names. A mirror   *)
(* and a catch-up go on with a bag they looked at earlier, so SitesInv     *)
(* says what each of their steps can rely on (MirrorsWell, CatchesWell).   *)
(***************************************************************************)

MirrorSteps == [at : {"rest", "wait", "create"}] \cup [at : {"record", "adopt"}, bag : Bags]
CatchSteps == {Resting} \cup [at : {"fetch", "download", "record", "commit", "show"}, bag : Bags]

SitesTypes ==
    /\ mirrorReceipts \in [Histories -> Bags \cup {Missing, Torn}]
    /\ downloads \in [Bags -> {"absent", "partial", "complete"}]
    /\ downloadReceipts \in [Histories -> Bags \cup {Missing, Torn}]
    /\ storeHistory \in 0..LastHistory /\ nodeHistory \in Nat
    /\ locator \in SitesHints \cup {Missing}
    /\ mirroring \in [Histories -> MirrorSteps]
    /\ catching \in [Histories -> CatchSteps]
    /\ told \subseteq SitesHints

\* The bag b holds the history h; it is also here.
Holds(b, h) == b \in Bags /\ BagDir[b] = h /\ BagHolds[b] = h
Fetched(b, h) == Holds(b, h) /\ downloads[b] = "complete"

\* A mirror that goes on with a bag, and a catch-up that goes on with one.
MirrorsWell == \A h \in Histories : mirroring[h].at \in {"record", "adopt"} => Holds(mirroring[h].bag, h)
CatchesWell ==
    \A h \in Histories :
        /\ catching[h].at \in {"record", "commit", "show"} => Fetched(catching[h].bag, h)
        /\ catching[h].at = "show" => h <= storeHistory

ReceiptsHold ==
    \A h \in Histories :
        /\ mirrorReceipts[h] \in Bags => Holds(mirrorReceipts[h], h)
        /\ downloadReceipts[h] \in Bags => Fetched(downloadReceipts[h], h)

Told(hint) == Holds(hint.bag, hint.history) /\ hint.history <= storeHistory
HintsHold == (\A hint \in told : Told(hint)) /\ (locator # Missing => Told(locator))

SitesInv ==
    /\ SitesTypes /\ MirrorsWell /\ CatchesWell /\ ReceiptsHold /\ HintsHold
    /\ nodeHistory <= storeHistory

-----------------------------------------------------------------------------

LEMMA Steps ==
    /\ Resting \in MirrorSteps /\ Resting \in CatchSteps /\ Resting.at = "rest"
    /\ [at |-> "wait"] \in MirrorSteps /\ [at |-> "create"] \in MirrorSteps
    /\ \A a \in {"record", "adopt"}, b \in Bags :
          /\ [at |-> a, bag |-> b] \in MirrorSteps
          /\ [at |-> a, bag |-> b].at = a /\ [at |-> a, bag |-> b].bag = b
    /\ \A a \in {"fetch", "download", "record", "commit", "show"}, b \in Bags :
          /\ [at |-> a, bag |-> b] \in CatchSteps
          /\ [at |-> a, bag |-> b].at = a /\ [at |-> a, bag |-> b].bag = b
BY Zenon DEF Resting, MirrorSteps, CatchSteps

LEMMA StepFields ==
    /\ \A x \in MirrorSteps : x.at \in {"record", "adopt"} =>
          x.bag \in Bags /\ x = [at |-> x.at, bag |-> x.bag]
    /\ \A x \in CatchSteps : x # Resting =>
          /\ x.at \in {"fetch", "download", "record", "commit", "show"}
          /\ x.bag \in Bags /\ x = [at |-> x.at, bag |-> x.bag]
BY DEF Resting, MirrorSteps, CatchSteps

\* One mirror moves to x; everything else that the invariant is about stays.
LEMMA MirrorMoves ==
    ASSUME SitesInv, NEW h \in Histories, NEW x \in MirrorSteps,
           mirroring' = [mirroring EXCEPT ![h] = x],
           x.at \in {"record", "adopt"} => Holds(x.bag, h)
    PROVE  mirroring' \in [Histories -> MirrorSteps] /\ MirrorsWell'
<1>1. /\ mirroring' \in [Histories -> MirrorSteps] /\ mirroring'[h] = x
      /\ \A g \in Histories \ {h} : mirroring'[g] = mirroring[g]
  BY Zenon DEF SitesInv, SitesTypes
<1> QED
  BY Zenon, <1>1 DEF SitesInv, MirrorsWell, Holds

\* One catch-up moves to x; the downloads and the store's history do not go back.
LEMMA CatchMoves ==
    ASSUME SitesInv, NEW h \in Histories, NEW x \in CatchSteps,
           catching' = [catching EXCEPT ![h] = x],
           \A b \in Bags : downloads[b] = "complete" => downloads'[b] = "complete",
           storeHistory' \in Nat, storeHistory <= storeHistory',
           x.at \in {"record", "commit", "show"} => Fetched(x.bag, h)',
           x.at = "show" => h <= storeHistory'
    PROVE  catching' \in [Histories -> CatchSteps] /\ CatchesWell'
<1>1. /\ catching' \in [Histories -> CatchSteps] /\ catching'[h] = x
      /\ \A g \in Histories \ {h} : catching'[g] = catching[g]
  BY Zenon DEF SitesInv, SitesTypes
<1>2. storeHistory \in Nat /\ Histories \subseteq Nat
  BY SitesBagsAssumption DEF SitesInv, SitesTypes, Histories
<1>3. ASSUME NEW g \in Histories
      PROVE  /\ catching'[g].at \in {"record", "commit", "show"} => Fetched(catching[g].bag, g)'
             /\ catching'[g].at = "show" => g <= storeHistory'
  <2>1. CASE g = h
    BY Zenon, <1>1, <2>1 DEF Fetched, Holds
  <2>2. CASE g # h
    <3>1. catching'[g] = catching[g]
      BY Zenon, <1>1, <2>2
    <3>2. catching[g].at \in {"record", "commit", "show"} => Fetched(catching[g].bag, g)
      BY Zenon DEF SitesInv, CatchesWell
    <3>3. catching[g].at = "show" => g <= storeHistory
      BY Zenon DEF SitesInv, CatchesWell
    <3>4. catching[g].at = "show" => g <= storeHistory'
      BY <1>2, <3>3
    <3> QED
      BY Zenon, <3>1, <3>2, <3>4 DEF Fetched, Holds
  <2> QED
    BY Zenon, <2>1, <2>2
<1> QED
  BY Zenon, <1>1, <1>3 DEF CatchesWell

LEMMA HistoryNumbers ==
    ASSUME SitesInv
    PROVE  /\ storeHistory \in Nat /\ nodeHistory \in Nat /\ Histories \subseteq Nat
           /\ storeHistory > 0 => storeHistory \in Histories
           /\ \A h \in Histories : h <= LastHistory /\ h \in 0..LastHistory
BY SitesBagsAssumption DEF SitesInv, SitesTypes, Histories

LEMMA HintsKept ==
    ASSUME SitesInv, told' = told, locator' \in {locator, Missing},
           storeHistory' \in Nat, storeHistory <= storeHistory'
    PROVE  HintsHold'
<1>1. storeHistory \in Nat
  BY Zenon, HistoryNumbers
<1>2. \A x \in SitesHints : x.history \in Nat
  BY Zenon, HistoryNumbers DEF SitesHints
<1>3. \A x \in SitesHints : Told(x) => Told(x)'
  <2>1. \A n \in Nat : n <= storeHistory => n <= storeHistory'
    BY <1>1
  <2> QED
    BY Zenon, <1>2, <2>1 DEF Told, Holds
<1> QED
  BY Zenon, <1>3 DEF SitesInv, HintsHold, SitesTypes

\* A step of a mirror that leaves the receipts and the locator alone.
LEMMA MirrorQuiet ==
    ASSUME SitesInv, NEW h \in Histories, NEW x \in MirrorSteps,
           mirroring' = [mirroring EXCEPT ![h] = x],
           x.at \in {"record", "adopt"} => Holds(x.bag, h),
           UNCHANGED <<mirrorReceipts, downloads, downloadReceipts, storeHistory,
                       nodeHistory, locator, catching, told>>
    PROVE  SitesInv'
<1>1. mirroring' \in [Histories -> MirrorSteps] /\ MirrorsWell'
  BY Zenon, MirrorMoves
<1>2. SitesTypes'
  BY Zenon, <1>1 DEF SitesInv, SitesTypes
<1>3. CatchesWell' /\ ReceiptsHold' /\ HintsHold' /\ nodeHistory' <= storeHistory'
  BY Zenon DEF SitesInv, CatchesWell, ReceiptsHold, HintsHold, Told, Holds, Fetched
<1> QED
  BY Zenon, <1>1, <1>2, <1>3 DEF SitesInv

\* A step of a catch-up that leaves the files and the locator alone.
LEMMA CatchQuiet ==
    ASSUME SitesInv, NEW h \in Histories, NEW x \in CatchSteps,
           catching' = [catching EXCEPT ![h] = x],
           x.at \in {"record", "commit"} => Fetched(x.bag, h),
           x.at # "show",
           UNCHANGED <<mirrorReceipts, downloads, downloadReceipts, storeHistory,
                       nodeHistory, locator, mirroring, told>>
    PROVE  SitesInv'
<1>0. storeHistory \in Nat
  BY Zenon, HistoryNumbers
<1>1. catching' \in [Histories -> CatchSteps] /\ CatchesWell'
  <2>1. x.at \in {"record", "commit", "show"} => Fetched(x.bag, h)'
    BY Zenon DEF Fetched, Holds
  <2>2. storeHistory' \in Nat /\ storeHistory <= storeHistory'
    BY <1>0
  <2>3. \A b \in Bags : downloads[b] = "complete" => downloads'[b] = "complete"
    BY Zenon
  <2> QED
    BY Zenon, <2>1, <2>2, <2>3, CatchMoves
<1>2. SitesTypes'
  BY Zenon, <1>1 DEF SitesInv, SitesTypes
<1>3. MirrorsWell' /\ ReceiptsHold' /\ HintsHold' /\ nodeHistory' <= storeHistory'
  BY Zenon DEF SitesInv, MirrorsWell, ReceiptsHold, HintsHold, Told, Holds, Fetched
<1> QED
  BY Zenon, <1>1, <1>2, <1>3 DEF SitesInv

LEMMA SynchronizedStep ==
    ASSUME SitesInv, NEW h \in Histories, Synchronized(h)
    PROVE  SitesInv'
<1>1. /\ storeHistory' = h /\ nodeHistory' = h /\ storeHistory < h
      /\ storeHistory \in Nat /\ h \in Nat /\ h \in 0..LastHistory
  BY Zenon, HistoryNumbers DEF Synchronized
<1>2. UNCHANGED <<mirrorReceipts, downloads, downloadReceipts, locator, catching, told>>
  BY Zenon DEF Synchronized
<1>3. mirroring' \in [Histories -> MirrorSteps] /\ MirrorsWell'
  <2>1. CASE mirroring' = mirroring
    BY Zenon, <2>1 DEF SitesInv, SitesTypes, MirrorsWell, Holds
  <2>2. CASE mirroring' = [mirroring EXCEPT ![h] = [at |-> "wait"]]
    BY Zenon, <2>2, Steps, MirrorMoves
  <2> QED
    BY Zenon, <2>1, <2>2 DEF Synchronized, ScheduledMirror
<1>4. SitesTypes'
  BY Zenon, <1>1, <1>2, <1>3 DEF SitesInv, SitesTypes
<1>5. HintsHold'
  BY <1>1, <1>2, HintsKept
<1>6. ReceiptsHold'
  BY Zenon, <1>2 DEF SitesInv, ReceiptsHold, Holds, Fetched
<1>7. CatchesWell'
  <2>1. \A g \in Histories : g \in Nat
    BY Zenon, HistoryNumbers
  <2> QED
    BY <1>1, <1>2, <2>1 DEF SitesInv, CatchesWell, Fetched, Holds
<1>8. nodeHistory' <= storeHistory'
  BY <1>1
<1> QED
  BY Zenon, <1>3, <1>4, <1>5, <1>6, <1>7, <1>8 DEF SitesInv

LEMMA MirrorSteps1 ==
    ASSUME SitesInv, NEW h \in Histories,
           ExportSitesSnapshot(h) \/ \E b \in Bags : CreateBag(h, b)
    PROVE  SitesInv'
<1>1. CASE ExportSitesSnapshot(h)
  <2>1. PICK x : x = MirrorReceiptRead(h)
    BY Zenon
  <2>2. x \in MirrorSteps /\ (x.at \in {"record", "adopt"} => Holds(x.bag, h))
    <3>1. CASE mirrorReceipts[h] = Missing
      <4>1. x = [at |-> "create"] /\ x.at = "create"
        BY Zenon, <2>1, <3>1, SitesBagsAssumption DEF MirrorReceiptRead
      <4> QED
        BY Zenon, <4>1, Steps
    <3>2. CASE mirrorReceipts[h] # Missing /\ mirrorReceipts[h] = Torn
      <4>1. x = Resting
        BY Zenon, <2>1, <3>2 DEF MirrorReceiptRead
      <4> QED
        BY Zenon, <4>1, Steps
    <3>3. CASE mirrorReceipts[h] # Missing /\ mirrorReceipts[h] # Torn
      <4>1. mirrorReceipts[h] \in Bags
        BY Zenon, <3>3 DEF SitesInv, SitesTypes
      <4>2. x = [at |-> "adopt", bag |-> mirrorReceipts[h]]
        BY Zenon, <2>1, <3>3 DEF MirrorReceiptRead
      <4> QED
        BY Zenon, <4>1, <4>2, Steps DEF SitesInv, ReceiptsHold
    <3> QED
      BY Zenon, <3>1, <3>2, <3>3
  <2>3. mirroring' = [mirroring EXCEPT ![h] = x]
    BY Zenon, <1>1, <2>1 DEF ExportSitesSnapshot
  <2> QED
    BY Zenon, <1>1, <2>2, <2>3, MirrorQuiet DEF ExportSitesSnapshot
<1>2. ASSUME NEW b \in Bags, CreateBag(h, b) PROVE SitesInv'
  <2>1. Holds(b, h)
    BY Zenon, <1>2 DEF CreateBag, Holds
  <2>2. CASE mirroring' = [mirroring EXCEPT ![h] = [at |-> "record", bag |-> b]]
    BY Zenon, <1>2, <2>1, <2>2, Steps, MirrorQuiet DEF CreateBag
  <2>3. CASE mirroring' = [mirroring EXCEPT ![h] = Resting]
    BY Zenon, <1>2, <2>3, Steps, MirrorQuiet DEF CreateBag
  <2> QED
    BY Zenon, <1>2, <2>2, <2>3 DEF CreateBag
<1> QED
  BY Zenon, <1>1, <1>2

LEMMA RecordMirrorStep ==
    ASSUME SitesInv, NEW h \in Histories, RecordMirror(h)
    PROVE  SitesInv'
<1>1. PICK b \in Bags : b = mirroring[h].bag /\ Holds(b, h)
  BY Zenon, StepFields DEF RecordMirror, SitesInv, MirrorsWell, Holds
<1>2. mirroring' = [mirroring EXCEPT ![h] = [at |-> "adopt", bag |-> b]]
  <2>1. mirroring[h] = [at |-> "record", bag |-> b]
    BY Zenon, <1>1, StepFields DEF RecordMirror, SitesInv, SitesTypes
  <2>2. [mirroring[h] EXCEPT !.at = "adopt"] = [at |-> "adopt", bag |-> b]
    BY <2>1
  <2> QED
    BY Zenon, <2>2 DEF RecordMirror
<1>3. mirroring' \in [Histories -> MirrorSteps] /\ MirrorsWell'
  BY ZenonT(40), <1>1, <1>2, Steps, MirrorMoves
<1>4. /\ mirrorReceipts' = [mirrorReceipts EXCEPT ![h] = b]
      /\ UNCHANGED <<downloads, downloadReceipts, storeHistory, nodeHistory, locator, catching, told>>
  BY Zenon, <1>1 DEF RecordMirror
<1>5. /\ mirrorReceipts' \in [Histories -> Bags \cup {Missing, Torn}] /\ mirrorReceipts'[h] = b
      /\ \A g \in Histories \ {h} : mirrorReceipts'[g] = mirrorReceipts[g]
  BY Zenon, <1>4 DEF SitesInv, SitesTypes
<1>6. SitesTypes'
  BY Zenon, <1>3, <1>4, <1>5 DEF SitesInv, SitesTypes
<1>7. ReceiptsHold'
  BY Zenon, <1>1, <1>4, <1>5 DEF SitesInv, ReceiptsHold, Holds, Fetched
<1>8. CatchesWell' /\ HintsHold' /\ nodeHistory' <= storeHistory'
  BY Zenon, <1>4 DEF SitesInv, CatchesWell, HintsHold, Told, Holds, Fetched
<1> QED
  BY Zenon, <1>3, <1>6, <1>7, <1>8 DEF SitesInv

LEMMA AdoptStep ==
    ASSUME SitesInv, NEW h \in Histories, AdoptMirror(h)
    PROVE  SitesInv'
<1>1. PICK b \in Bags : b = mirroring[h].bag /\ Holds(b, h)
  BY Zenon, StepFields DEF AdoptMirror, SitesInv, MirrorsWell, Holds
<1>2. PICK x \in SitesHints : x = SitesHint(h, b) /\ x.history = h /\ x.bag = b
  <2>1. SitesHint(h, b) \in SitesHints /\ SitesHint(h, b).history = h /\ SitesHint(h, b).bag = b
    BY Zenon DEF SitesHint, SitesHints
  <2> QED
    BY Zenon, <2>1
<1>3. UNCHANGED <<mirrorReceipts, downloads, downloadReceipts, storeHistory, nodeHistory, catching>>
  BY Zenon DEF AdoptMirror, diskVars
<1>4. mirroring' \in [Histories -> MirrorSteps] /\ MirrorsWell'
  BY Zenon, Steps, MirrorMoves DEF AdoptMirror
<1>5. h = nodeHistory => Told(x)
  BY Zenon, <1>1, <1>2 DEF SitesInv, Told
<1>6. /\ locator' \in SitesHints \cup {Missing} /\ (locator' # Missing => Told(locator'))
  <2>1. CASE nodeHistory = h
    <3>1. locator' = x
      BY Zenon, <1>1, <1>2, <2>1 DEF AdoptMirror, AdoptedLocator
    <3> QED
      BY Zenon, <1>5, <2>1, <3>1
  <2>2. CASE nodeHistory # h
    <3>1. locator' = locator
      BY Zenon, <2>2 DEF AdoptMirror, AdoptedLocator
    <3> QED
      BY Zenon, <3>1 DEF SitesInv, SitesTypes, HintsHold
  <2> QED
    BY Zenon, <2>1, <2>2
<1>7. locator' # Missing /\ locator'.history = h => Told(x)
  BY Zenon, <1>1, <1>2, <1>6 DEF Told
<1>8. told' \subseteq SitesHints /\ \A y \in told' : Told(y)
  BY Zenon, <1>1, <1>2, <1>7 DEF AdoptMirror, SitesInv, SitesTypes, HintsHold
<1>9. HintsHold'
  <2>1. \A y : Told(y) => Told(y)'
    BY Zenon, <1>3 DEF Told, Holds
  <2>2. locator' # Missing => Told(locator)'
    BY Zenon, <1>3, <1>6 DEF Told, Holds
  <2> QED
    BY Zenon, <1>8, <2>1, <2>2 DEF HintsHold
<1>10. SitesTypes'
  BY Zenon, <1>3, <1>4, <1>6, <1>8 DEF SitesInv, SitesTypes
<1>11. CatchesWell' /\ ReceiptsHold' /\ nodeHistory' <= storeHistory'
  BY Zenon, <1>3 DEF SitesInv, CatchesWell, ReceiptsHold, Holds, Fetched
<1> QED
  BY Zenon, <1>4, <1>9, <1>10, <1>11 DEF SitesInv

LEMMA CatchSteps1 ==
    ASSUME SitesInv, NEW h \in Histories, Fetch(h) \/ Downloaded(h)
    PROVE  SitesInv'
<1>1. catching[h].at \in {"fetch", "download"}
  BY Zenon DEF Fetch, Downloaded
<1>2. catching[h] # Resting
  BY Zenon, <1>1, Steps
<1>3. PICK b \in Bags : b = catching[h].bag
  BY Zenon, <1>2, StepFields DEF SitesInv, SitesTypes
<1>4. UNCHANGED <<mirrorReceipts, downloads, downloadReceipts, storeHistory,
                  nodeHistory, locator, mirroring, told>>
  BY Zenon DEF Fetch, Downloaded, diskVars
<1>5. ASSUME catching' = [catching EXCEPT ![h] = Resting] PROVE SitesInv'
  BY Zenon, <1>4, <1>5, Steps, CatchQuiet
<1>6. ASSUME NEW a \in {"fetch", "download", "record", "commit"}, NEW c \in Bags,
             catching' = [catching EXCEPT ![h] = [at |-> a, bag |-> c]],
             a \in {"record", "commit"} => Fetched(c, h)
      PROVE  SitesInv'
  <2>1. PICK x : x = [at |-> a, bag |-> c]
    BY Zenon
  <2>2. x \in CatchSteps /\ x.at = a /\ x.bag = c
    BY Zenon, <2>1, Steps
  <2> QED
    BY Zenon, <1>4, <1>6, <2>1, <2>2, CatchQuiet
<1>7. CASE Fetch(h)
  <2>1. CASE downloadReceipts[h] = Torn
    BY Zenon, <1>5, <1>7, <2>1, SitesBagsAssumption DEF Fetch
  <2>2. CASE downloadReceipts[h] \in Bags
    <3>1. Fetched(downloadReceipts[h], h)
      BY Zenon, <2>2 DEF SitesInv, ReceiptsHold
    <3>2. PICK c \in Bags : c = downloadReceipts[h]
      BY Zenon, <2>2
    <3>3. \/ catching' = [catching EXCEPT ![h] = [at |-> "commit", bag |-> c]]
          \/ catching' = [catching EXCEPT ![h] = Resting]
      BY Zenon, <1>7, <2>2, <3>2, SitesBagsAssumption DEF Fetch, CachedBag
    <3> QED
      BY Zenon, <1>5, <1>6, <3>1, <3>2, <3>3
  <2>3. CASE downloadReceipts[h] \notin Bags /\ downloadReceipts[h] # Torn
    <3>1. \/ /\ AcceptsSnapshot(b, h)
             /\ catching' = [catching EXCEPT ![h] = [at |-> "record", bag |-> b]]
          \/ catching' = [catching EXCEPT ![h] = Resting]
          \/ catching' = [catching EXCEPT ![h] = [at |-> "download", bag |-> b]]
      BY Zenon, <1>3, <1>7, <2>3 DEF Fetch
    <3>2. AcceptsSnapshot(b, h) => Fetched(b, h)
      BY Zenon DEF AcceptsSnapshot, LoadSitesSnapshot, Fetched, Holds
    <3> QED
      BY Zenon, <1>5, <1>6, <3>1, <3>2
  <2> QED
    BY Zenon, <2>1, <2>2, <2>3
<1>8. CASE Downloaded(h)
  <2>1. CASE catching' = [catching EXCEPT ![h] = Resting]
    BY Zenon, <1>5, <2>1
  <2>2. CASE LoadSitesSnapshot(b, h) /\ catching' = [catching EXCEPT ![h].at = "record"]
    <3>1. catching[h] = [at |-> "download", bag |-> b]
      BY Zenon, <1>2, <1>3, <1>8, StepFields DEF SitesInv, SitesTypes, Downloaded
    <3>2. [catching[h] EXCEPT !.at = "record"] = [at |-> "record", bag |-> b]
      BY <3>1
    <3>3. catching' = [catching EXCEPT ![h] = [at |-> "record", bag |-> b]]
      BY Zenon, <2>2, <3>2
    <3>4. Fetched(b, h)
      BY Zenon, <2>2 DEF LoadSitesSnapshot, Fetched, Holds
    <3> QED
      BY Zenon, <1>6, <3>3, <3>4
  <2> QED
    BY Zenon, <1>3, <1>8, <2>1, <2>2 DEF Downloaded
<1> QED
  BY Zenon, <1>7, <1>8

LEMMA ScheduleCatchStep ==
    ASSUME SitesInv, NEW hint \in SitesHints, ScheduleSitesCatchUp(hint)
    PROVE  SitesInv'
<1>1. PICK h \in Histories, b \in Bags : h = hint.history /\ b = hint.bag
  BY Zenon DEF SitesHints
<1>2. catching' = [catching EXCEPT ![h] = [at |-> "fetch", bag |-> b]]
  BY Zenon, <1>1 DEF ScheduleSitesCatchUp
<1>3. UNCHANGED <<mirrorReceipts, downloads, downloadReceipts, storeHistory,
                  nodeHistory, locator, mirroring, told>>
  BY Zenon DEF ScheduleSitesCatchUp, diskVars
<1> QED
  BY ZenonT(40), <1>2, <1>3, Steps, CatchQuiet

LEMMA DaemonStep ==
    ASSUME SitesInv, NEW b \in Bags, DaemonDownloads(b)
    PROVE  SitesInv'
<1>1. UNCHANGED <<mirrorReceipts, downloadReceipts, storeHistory, nodeHistory,
                  locator, mirroring, catching, told>>
  BY Zenon DEF DaemonDownloads
<1>2. PICK d \in {"partial", "complete"} : downloads' = [downloads EXCEPT ![b] = d]
  BY Zenon DEF DaemonDownloads
<1>3. downloads[b] # "complete"
  BY Zenon DEF DaemonDownloads
<1>4. /\ downloads' \in [Bags -> {"absent", "partial", "complete"}]
      /\ \A c \in Bags : downloads[c] = "complete" => downloads'[c] = "complete"
  BY Zenon, <1>2, <1>3 DEF SitesInv, SitesTypes
<1>5. \A c, h : Fetched(c, h) => Fetched(c, h)'
  BY Zenon, <1>4 DEF Fetched, Holds
<1>6. SitesTypes'
  BY Zenon, <1>1, <1>4 DEF SitesInv, SitesTypes
<1>7. MirrorsWell' /\ HintsHold' /\ nodeHistory' <= storeHistory'
  BY Zenon, <1>1 DEF SitesInv, MirrorsWell, HintsHold, Told, Holds
<1>8. CatchesWell'
  <2>1. \A h \in Histories : catching'[h] = catching[h] /\ storeHistory' = storeHistory
    BY Zenon, <1>1
  <2> QED
    BY <1>4, <2>1 DEF SitesInv, CatchesWell, Fetched, Holds
<1>9. ReceiptsHold'
  BY Zenon, <1>1, <1>4 DEF SitesInv, ReceiptsHold, Fetched, Holds
<1> QED
  BY Zenon, <1>6, <1>7, <1>8, <1>9 DEF SitesInv

LEMMA RecordDownloadStep ==
    ASSUME SitesInv, NEW h \in Histories, RecordDownload(h)
    PROVE  SitesInv'
<1>0. storeHistory \in Nat
  BY Zenon, HistoryNumbers
<1>1. catching[h].at = "record" /\ catching[h] # Resting
  BY Zenon, Steps DEF RecordDownload
<1>2. PICK b \in Bags : b = catching[h].bag /\ Fetched(b, h)
  BY Zenon, <1>1 DEF SitesInv, CatchesWell, Fetched, Holds
<1>3. catching' = [catching EXCEPT ![h] = [at |-> "commit", bag |-> b]]
  <2>1. catching[h] = [at |-> "record", bag |-> b]
    BY Zenon, <1>1, <1>2, StepFields DEF SitesInv, SitesTypes
  <2>2. [catching[h] EXCEPT !.at = "commit"] = [at |-> "commit", bag |-> b]
    BY <2>1
  <2> QED
    BY Zenon, <2>2 DEF RecordDownload
<1>4. /\ downloadReceipts' = [downloadReceipts EXCEPT ![h] = b]
      /\ UNCHANGED <<mirrorReceipts, downloads, storeHistory, nodeHistory, locator, mirroring, told>>
  BY Zenon, <1>2 DEF RecordDownload
<1>5. Fetched(b, h)'
  BY Zenon, <1>2, <1>4 DEF Fetched, Holds
<1>6. catching' \in [Histories -> CatchSteps] /\ CatchesWell'
  <2>1. PICK x : x = [at |-> "commit", bag |-> b]
    BY Zenon
  <2>2. x \in CatchSteps /\ x.at = "commit" /\ x.bag = b
    BY Zenon, <2>1, Steps
  <2>3. storeHistory' \in Nat /\ storeHistory <= storeHistory'
    BY <1>0, <1>4
  <2>4. \A c \in Bags : downloads[c] = "complete" => downloads'[c] = "complete"
    BY Zenon, <1>4
  <2> QED
    BY Zenon, <1>3, <1>5, <2>1, <2>2, <2>3, <2>4, CatchMoves
<1>7. /\ downloadReceipts' \in [Histories -> Bags \cup {Missing, Torn}] /\ downloadReceipts'[h] = b
      /\ \A g \in Histories \ {h} : downloadReceipts'[g] = downloadReceipts[g]
  BY Zenon, <1>4 DEF SitesInv, SitesTypes
<1>8. SitesTypes'
  BY Zenon, <1>4, <1>6, <1>7 DEF SitesInv, SitesTypes
<1>9. ReceiptsHold'
  BY Zenon, <1>4, <1>5, <1>7 DEF SitesInv, ReceiptsHold, Holds, Fetched
<1>10. MirrorsWell' /\ HintsHold' /\ nodeHistory' <= storeHistory'
  BY Zenon, <1>4 DEF SitesInv, MirrorsWell, HintsHold, Told, Holds
<1> QED
  BY Zenon, <1>6, <1>8, <1>9, <1>10 DEF SitesInv

LEMMA CommitCatchStep ==
    ASSUME SitesInv, NEW h \in Histories, CatchUpCommits(h)
    PROVE  SitesInv'
<1>1. /\ storeHistory \in Nat /\ nodeHistory \in Nat /\ h \in Nat /\ h \in 0..LastHistory
  BY Zenon, HistoryNumbers
<1>2. UNCHANGED <<mirrorReceipts, downloads, downloadReceipts, nodeHistory, locator, mirroring, told>>
  BY Zenon DEF CatchUpCommits
<1>3. CASE h < storeHistory
  <2>1. storeHistory' = storeHistory /\ catching' = [catching EXCEPT ![h] = Resting]
    BY <1>1, <1>3 DEF CatchUpCommits
  <2> QED
    BY Zenon, <1>2, <2>1, Steps, CatchQuiet
<1>4. CASE h >= storeHistory
  <2>1. catching[h].at = "commit" /\ catching[h] # Resting
    BY Zenon, Steps DEF CatchUpCommits
  <2>2. PICK b \in Bags : b = catching[h].bag /\ Fetched(b, h)
    BY Zenon, <2>1 DEF SitesInv, CatchesWell, Fetched, Holds
  <2>3. storeHistory' = h /\ catching' = [catching EXCEPT ![h] = [at |-> "show", bag |-> b]]
    <3>1. catching[h] = [at |-> "commit", bag |-> b]
      BY Zenon, <2>1, <2>2, StepFields DEF SitesInv, SitesTypes
    <3>2. [catching[h] EXCEPT !.at = "show"] = [at |-> "show", bag |-> b]
      BY <3>1
    <3> QED
      BY Zenon, <1>4, <3>2 DEF CatchUpCommits
  <2>4. storeHistory <= storeHistory' /\ storeHistory' \in Nat
    BY Zenon, <1>1, <1>4, <2>3
  <2>5. catching' \in [Histories -> CatchSteps] /\ CatchesWell'
    <3>0. PICK x : x = [at |-> "show", bag |-> b]
      BY Zenon
    <3>1. x \in CatchSteps /\ x.at = "show" /\ x.bag = b
      BY Zenon, <3>0, Steps
    <3>2. Fetched(b, h)' /\ h <= storeHistory'
      BY <1>1, <1>2, <2>2, <2>3 DEF Fetched, Holds
    <3> QED
      BY Zenon, <1>2, <2>3, <2>4, <3>0, <3>1, <3>2, CatchMoves
  <2>6. SitesTypes'
    BY Zenon, <1>1, <1>2, <2>3, <2>5 DEF SitesInv, SitesTypes
  <2>7. MirrorsWell' /\ ReceiptsHold'
    BY Zenon, <1>2 DEF SitesInv, MirrorsWell, ReceiptsHold, Holds, Fetched
  <2>8. HintsHold'
    BY Zenon, <1>2, <2>4, HintsKept
  <2>9. nodeHistory' <= storeHistory'
    BY <1>1, <1>2, <2>4 DEF SitesInv
  <2> QED
    BY Zenon, <2>5, <2>6, <2>7, <2>8, <2>9 DEF SitesInv
<1> QED
  BY <1>1, <1>3, <1>4

LEMMA ShowCatchStep ==
    ASSUME SitesInv, NEW h \in Histories, CatchUpShows(h)
    PROVE  SitesInv'
<1>0. h \in Nat /\ storeHistory \in Nat
  BY Zenon, HistoryNumbers
<1>1. catching[h].at = "show"
  BY Zenon DEF CatchUpShows
<1>2. PICK b \in Bags : b = catching[h].bag /\ Fetched(b, h)
  BY Zenon, <1>1 DEF SitesInv, CatchesWell, Fetched, Holds
<1>3. h <= storeHistory
  BY Zenon, <1>1 DEF SitesInv, CatchesWell
<1>4. PICK x \in SitesHints : x = SitesHint(h, b) /\ x.history = h /\ x.bag = b
  <2>1. SitesHint(h, b) \in SitesHints /\ SitesHint(h, b).history = h /\ SitesHint(h, b).bag = b
    BY Zenon DEF SitesHint, SitesHints
  <2> QED
    BY Zenon, <2>1
<1>5. /\ UNCHANGED <<mirrorReceipts, downloads, downloadReceipts, storeHistory, mirroring>>
      /\ nodeHistory' = h /\ locator' = x /\ told' = told \cup {x}
      /\ catching' = [catching EXCEPT ![h] = Resting]
  BY Zenon, <1>2, <1>4 DEF CatchUpShows, diskVars
<1>6. catching' \in [Histories -> CatchSteps] /\ CatchesWell'
  <2>1. storeHistory' \in Nat /\ storeHistory <= storeHistory'
    BY <1>0, <1>5
  <2>2. \A c \in Bags : downloads[c] = "complete" => downloads'[c] = "complete"
    BY Zenon, <1>5
  <2>3. Resting \in CatchSteps /\ Resting.at \notin {"record", "commit", "show"}
    BY Zenon, Steps
  <2> QED
    BY Zenon, <1>5, <2>1, <2>2, <2>3, CatchMoves
<1>7. Told(x)'
  BY Zenon, <1>2, <1>3, <1>4, <1>5 DEF Told, Fetched, Holds
<1>8. HintsHold'
  <2>1. \A y : Told(y) => Told(y)'
    BY Zenon, <1>5 DEF Told, Holds
  <2>2. Told(locator)'
    BY Zenon, <1>5, <1>7 DEF Told, Holds
  <2>3. \A y \in told' : Told(y)'
    BY Zenon, <1>5, <1>7, <2>1 DEF SitesInv, HintsHold
  <2> QED
    BY Zenon, <2>2, <2>3 DEF HintsHold
<1>9. SitesTypes'
  BY Zenon, <1>0, <1>5, <1>6 DEF SitesInv, SitesTypes
<1>10. MirrorsWell' /\ ReceiptsHold'
  BY Zenon, <1>5 DEF SitesInv, MirrorsWell, ReceiptsHold, Holds, Fetched
<1>11. nodeHistory' <= storeHistory'
  BY Zenon, <1>3, <1>5
<1> QED
  BY Zenon, <1>6, <1>8, <1>9, <1>10, <1>11 DEF SitesInv

LEMMA CrashStep ==
    ASSUME SitesInv, SitesCrash
    PROVE  SitesInv'
<1>0. storeHistory \in Nat
  BY Zenon, HistoryNumbers
<1>1. UNCHANGED <<downloads, storeHistory, told>>
  BY Zenon DEF SitesCrash
<1>2. /\ nodeHistory' = 0 /\ locator' = Missing
      /\ mirroring' = [h \in Histories |-> Resting]
      /\ catching' = [h \in Histories |-> Resting]
  BY Zenon DEF SitesCrash, NodeDown
<1>3. /\ mirroring' \in [Histories -> MirrorSteps] /\ MirrorsWell'
      /\ catching' \in [Histories -> CatchSteps] /\ CatchesWell'
  BY Zenon, <1>2, Steps DEF MirrorsWell, CatchesWell
<1> DEFINE Torn1(receipts, next) ==
        /\ next \in [Histories -> Bags \cup {Missing, Torn}]
        /\ \A h \in Histories : next[h] \in Bags => next[h] = receipts[h]
<1>4. Torn1(mirrorReceipts, mirrorReceipts') /\ Torn1(downloadReceipts, downloadReceipts')
  <2>1. /\ mirrorReceipts' = mirrorReceipts => Torn1(mirrorReceipts, mirrorReceipts')
        /\ downloadReceipts' = downloadReceipts => Torn1(downloadReceipts, downloadReceipts')
    BY Zenon DEF SitesInv, SitesTypes
  <2>2. ASSUME NEW h \in Histories, mirrorReceipts' = [mirrorReceipts EXCEPT ![h] = Torn]
        PROVE  Torn1(mirrorReceipts, mirrorReceipts')
    BY Zenon, <2>2, SitesBagsAssumption DEF SitesInv, SitesTypes
  <2>3. ASSUME NEW h \in Histories, downloadReceipts' = [downloadReceipts EXCEPT ![h] = Torn]
        PROVE  Torn1(downloadReceipts, downloadReceipts')
    BY Zenon, <2>3, SitesBagsAssumption DEF SitesInv, SitesTypes
  <2> HIDE DEF Torn1
  <2> QED
    BY Zenon, <2>1, <2>2, <2>3 DEF SitesCrash, CrashDuring
<1>5. SitesTypes'
  BY Zenon, <1>1, <1>2, <1>3, <1>4 DEF SitesInv, SitesTypes
<1>6. ReceiptsHold'
  BY Zenon, <1>1, <1>4 DEF SitesInv, ReceiptsHold, Holds, Fetched
<1>7. HintsHold'
  <2>1. storeHistory' \in Nat /\ storeHistory <= storeHistory'
    BY <1>0, <1>1
  <2> QED
    BY Zenon, <1>1, <1>2, <2>1, HintsKept
<1>8. nodeHistory' <= storeHistory'
  BY <1>0, <1>1, <1>2
<1> QED
  BY Zenon, <1>3, <1>5, <1>6, <1>7, <1>8 DEF SitesInv

LEMMA StartStep ==
    ASSUME SitesInv, SitesStart
    PROVE  SitesInv'
<1>0. storeHistory \in Nat /\ (storeHistory > 0 => storeHistory \in Histories)
  BY Zenon, HistoryNumbers
<1>1. /\ UNCHANGED <<mirrorReceipts, downloads, downloadReceipts, storeHistory, catching, told>>
      /\ nodeHistory' = storeHistory
  BY Zenon DEF SitesStart, diskVars
<1>2. CatchesWell' /\ ReceiptsHold'
  BY Zenon, <1>1 DEF SitesInv, CatchesWell, ReceiptsHold, Holds, Fetched
<1>3. nodeHistory' <= storeHistory' /\ nodeHistory' \in Nat
  BY <1>0, <1>1
<1>4. storeHistory' \in Nat /\ storeHistory <= storeHistory'
  BY <1>0, <1>1
<1>5. CASE storeHistory > 0 /\ downloadReceipts[storeHistory] # Missing
  <2>1. PICK h \in Histories : h = storeHistory
    BY Zenon, <1>0, <1>5
  <2>2. downloadReceipts[h] # Torn
    BY Zenon, <1>5, <2>1 DEF SitesStart, CachedAgrees
  <2>3. PICK b \in Bags : b = downloadReceipts[h] /\ Holds(b, h)
    BY Zenon, <1>5, <2>1, <2>2 DEF SitesInv, SitesTypes, ReceiptsHold, Fetched
  <2>4. PICK x \in SitesHints : x = SitesHint(h, b) /\ x.history = h /\ x.bag = b
    <3>1. SitesHint(h, b) \in SitesHints /\ SitesHint(h, b).history = h /\ SitesHint(h, b).bag = b
      BY Zenon DEF SitesHint, SitesHints
    <3> QED
      BY Zenon, <3>1
  <2>5. locator' = x /\ mirroring' = mirroring
    BY Zenon, <1>5, <2>1, <2>3, <2>4 DEF SitesStart
  <2>6. SitesTypes'
    BY Zenon, <1>1, <1>3, <2>5 DEF SitesInv, SitesTypes
  <2>7. MirrorsWell'
    BY Zenon, <2>5 DEF SitesInv, MirrorsWell, Holds
  <2>8. HintsHold'
    <3>1. \A y : Told(y) => Told(y)'
      BY Zenon, <1>1 DEF Told, Holds
    <3>2. x.history <= storeHistory
      BY <1>0, <2>1, <2>4
    <3>3. Told(x)
      BY Zenon, <2>3, <2>4, <3>2 DEF Told
    <3>4. Told(locator)'
      BY Zenon, <1>1, <2>5, <3>3 DEF Told, Holds
    <3>5. \A y \in told' : Told(y)'
      BY Zenon, <1>1, <3>1 DEF SitesInv, HintsHold
    <3> QED
      BY Zenon, <3>4, <3>5 DEF HintsHold
  <2> QED
    BY Zenon, <1>2, <1>3, <2>6, <2>7, <2>8 DEF SitesInv
<1>6. CASE ~(storeHistory > 0 /\ downloadReceipts[storeHistory] # Missing)
  <2>1. locator' = locator
    BY Zenon, <1>6 DEF SitesStart
  <2>2. mirroring' \in [Histories -> MirrorSteps] /\ MirrorsWell'
    <3>1. CASE mirroring' = mirroring
      BY Zenon, <3>1 DEF SitesInv, SitesTypes, MirrorsWell, Holds
    <3>2. CASE storeHistory > 0 /\ mirroring' = [mirroring EXCEPT ![storeHistory] = [at |-> "wait"]]
      <4>1. PICK h \in Histories : h = storeHistory
        BY Zenon, <1>0, <3>2
      <4>2. mirroring' = [mirroring EXCEPT ![h] = [at |-> "wait"]]
        BY Zenon, <3>2, <4>1
      <4> QED
        BY Zenon, <4>2, Steps, MirrorMoves
    <3> QED
      BY Zenon, <1>6, <3>1, <3>2 DEF SitesStart, ScheduledMirror
  <2>3. SitesTypes'
    BY Zenon, <1>1, <1>3, <2>1, <2>2 DEF SitesInv, SitesTypes
  <2>4. HintsHold'
    BY Zenon, <1>1, <1>4, <2>1, HintsKept
  <2> QED
    BY Zenon, <1>2, <1>3, <2>2, <2>3, <2>4 DEF SitesInv
<1> QED
  BY Zenon, <1>5, <1>6

LEMMA SitesInitially == SitesInit => SitesInv
<1> SUFFICES ASSUME SitesInit PROVE SitesInv
  BY Zenon
<1>1. SitesTypes
  BY Steps, SitesBagsAssumption DEF SitesInit, SitesTypes
<1>2. MirrorsWell /\ CatchesWell
  BY Zenon, Steps DEF SitesInit, MirrorsWell, CatchesWell
<1>3. ReceiptsHold /\ HintsHold /\ nodeHistory <= storeHistory
  BY SitesBagsAssumption DEF SitesInit, ReceiptsHold, HintsHold
<1> QED
  BY Zenon, <1>1, <1>2, <1>3 DEF SitesInv

LEMMA SitesStep == SitesInv /\ [SitesNext]_sitesVars => SitesInv'
<1> SUFFICES ASSUME SitesInv, [SitesNext]_sitesVars PROVE SitesInv'
  BY Zenon
<1>1. CASE UNCHANGED sitesVars
  <2>1. UNCHANGED <<mirrorReceipts, downloads, downloadReceipts, storeHistory, nodeHistory,
                    locator, mirroring, catching, told>>
    BY Zenon, <1>1 DEF sitesVars, diskVars
  <2>2. SitesTypes' /\ MirrorsWell' /\ nodeHistory' <= storeHistory'
    BY Zenon, <2>1 DEF SitesInv, SitesTypes, MirrorsWell, Holds
  <2>3. CatchesWell' /\ ReceiptsHold' /\ HintsHold'
    BY Zenon, <2>1 DEF SitesInv, CatchesWell, ReceiptsHold, HintsHold, Told, Holds, Fetched
  <2> QED
    BY Zenon, <2>2, <2>3 DEF SitesInv
<1> QED
  BY Zenon, <1>1, SynchronizedStep, MirrorSteps1, RecordMirrorStep, AdoptStep, CatchSteps1,
     ScheduleCatchStep,
     DaemonStep, RecordDownloadStep, CommitCatchStep, ShowCatchStep, CrashStep, StartStep DEF SitesNext

\* Every locator the node holds, passes on or has a receipt for names a bag that
\* reproduces its history, of a history the store has committed, for any bags and
\* hints, wherever a download stops and wherever the process ends.
THEOREM LocatorsHold == SitesSpec => []LocatorsReproduce
<1>1. ASSUME SitesInv PROVE LocatorsReproduce
  <2>1. ASSUME NEW hint \in told \union ({locator} \ {Missing})
        PROVE  Reproduces(hint) /\ hint.history <= storeHistory
    BY Zenon, <1>1, <2>1 DEF SitesInv, HintsHold, Told, Holds, Reproduces
  <2>2. ASSUME NEW h \in Histories
        PROVE  /\ mirrorReceipts[h] \in Bags => Reproduces(SitesHint(h, mirrorReceipts[h]))
               /\ downloadReceipts[h] \in Bags =>
                     /\ downloads[downloadReceipts[h]] = "complete"
                     /\ Reproduces(SitesHint(h, downloadReceipts[h]))
    BY Zenon, <1>1 DEF SitesInv, ReceiptsHold, Holds, Fetched, Reproduces, SitesHint
  <2> QED
    BY Zenon, <2>1, <2>2 DEF LocatorsReproduce
<1> QED
  BY <1>1, SitesInitially, SitesStep, PTL DEF SitesSpec
=============================================================================
