------------------------- MODULE PrekeyGenerations --------------------------
(***************************************************************************)
(* How an Endpoint's devices produce one prekey publication together:      *)
(* each device's private ledger (pkg/eventlog/device_prekeys.go), the      *)
(* collection of their signed public bundles (prekey_contributions.go),    *)
(* the publication ledger it advances (prekey_publications.go), the        *)
(* planner that opens generations (pkg/daemon/prekeys.go) and the device   *)
(* API other devices contribute through (pkg/prekeyapi).                   *)
(*                                                                         *)
(* Each ledger call is one critical section of the journal's mutex and one *)
(* atomic file replacement; a finalization is three of them, and anything  *)
(* may happen in between.  A write may fail with nothing written, or after *)
(* the new record is in place.                                             *)
(***************************************************************************)
EXTENDS DeviceSets, FiniteSets

CONSTANTS
    PrekeyDevices,              \* every device identifier a roster may name
    LocalDevice,                \* the device of the daemon itself
    Rosters,                    \* the rosters an operator may configure
    GenerationLifetime,         \* PublicationConfig.GenerationLifetime
    ReplenishBefore,            \* PublicationConfig.ReplenishBefore
    DelegationExpires,          \* the end of the Endpoint's delegation
    MaxRetiredDevicePrekeys,    \* device_prekeys.go
    Finalizers,                 \* goroutines that may be finalizing at one time
    MaxPrekeyClock, MaxPrekeyFaults, MaxRosterChanges,    \* bounds of the model
    NoCollection                \* no record on disk, or nothing in progress

Bundles == [device : PrekeyDevices, issued : Nat, expires : Nat, key : Nat]

CollectionRecords ==
    [roster : Rosters, issued : Nat, expires : Nat, got : SUBSET Bundles, finalized : BOOLEAN]

\* A configured roster names at least one device.
ASSUME PrekeyAssumption ==
    /\ Rosters \subseteq (SUBSET PrekeyDevices) \ {{}}
    /\ GenerationLifetime \in Nat /\ ReplenishBefore \in Nat /\ DelegationExpires \in Nat

ASSUME NoCollectionAssumption == NoCollection \notin CollectionRecords

VARIABLES
    roster,             \* the running daemon's configured devices
    collection,         \* the contribution record
    publication,        \* the bundles of the publication record ({} before the first)
    tombstones,         \* its revoked devices
    keyring,            \* per device: its private record
    asked,              \* per device: the generation it last read from the Endpoint
    finalizing,         \* per goroutine: the collection it is finalizing, and how far it got
    made,               \* per device: how many keys it has generated
    exposed,            \* every bundle that ever left its device
    lastSend,           \* the local daemon's last direct message
    prekeyClock, prekeyFaults, rosterChanges

collectionVars == <<collection, finalizing>>
publicationVars == <<publication, tombstones>>
deviceVars == <<keyring, asked, made, exposed>>
countVars == <<prekeyClock, prekeyFaults, rosterChanges>>
prekeyVars == <<roster, collectionVars, publicationVars, deviceVars, lastSend, countVars>>

-----------------------------------------------------------------------------

PlanOf(c) == [roster |-> c.roster, issued |-> c.issued, expires |-> c.expires]

Complete(c) == DevicesOf(c.got) = c.roster

\* CurrentPrekeyCollection: what is stored, if every contribution still binds.
Current(c) == c # NoCollection /\ \A b \in c.got : b.issued <= prekeyClock /\ prekeyClock < b.expires

LiveOf(set) == {b \in set : prekeyClock < b.expires}

NoKeys == [last |-> 0, revoked |-> FALSE, current |-> {}, retired |-> {}]

\* replace: the new value is in place, or (a fault) it is not; either way a
\* fault means the caller is told the write failed.
Stored(failed, written) ==
    /\ failed => prekeyFaults < MaxPrekeyFaults
    /\ prekeyFaults' = prekeyFaults + (IF failed THEN 1 ELSE 0)
    /\ ~failed => written

PrekeyInit ==
    /\ roster \in Rosters
    /\ collection = NoCollection
    /\ publication = {} /\ tombstones = {}
    /\ keyring = [d \in PrekeyDevices |-> NoKeys]
    /\ asked = [d \in PrekeyDevices |-> NoCollection]
    /\ finalizing = [f \in Finalizers |-> NoCollection]
    /\ made = [d \in PrekeyDevices |-> 0]
    /\ exposed = {}
    /\ lastSend = NoCollection
    /\ prekeyClock = 1 /\ prekeyFaults = 0 /\ rosterChanges = 0

-----------------------------------------------------------------------------
(* The planner *)

\* BeginPrekeyCollection's judgement of a new plan against the stored record.
MayBegin(c, plan) ==
    c # NoCollection =>
        /\ plan # PlanOf(c)
        /\ \/ plan.issued > c.issued
           \/ /\ plan.issued = c.issued /\ plan.expires = c.expires
              /\ c.finalized /\ plan.roster \subseteq c.roster
        /\ c.got = {} \/ c.finalized \/ c.expires <= prekeyClock

\* prekeyPlanner.begin: the window, clamped to the delegation.
BeginPlan ==
    [roster |-> roster, issued |-> prekeyClock,
     expires |-> Min({prekeyClock + GenerationLifetime, DelegationExpires})]

\* prekeyPlanner.Ensure when it rotates: nothing is stored, what is stored has
\* expired, or the finalized generation reached its replenishment horizon.
Begin(failed, written) ==
    /\ collection # NoCollection =>
        \/ collection.expires <= prekeyClock
        \/ /\ Current(collection) /\ collection.finalized
           /\ collection.expires <= prekeyClock + ReplenishBefore
    /\ BeginPlan.expires > prekeyClock + ReplenishBefore
    /\ prekeyClock < DelegationExpires
    /\ MayBegin(collection, BeginPlan)
    /\ Stored(failed, written)
    /\ collection' = IF written
                     THEN [roster |-> BeginPlan.roster, issued |-> BeginPlan.issued,
                           expires |-> BeginPlan.expires, got |-> {}, finalized |-> FALSE]
                     ELSE collection
    /\ UNCHANGED <<roster, finalizing, publicationVars, deviceVars, lastSend, prekeyClock, rosterChanges>>

-----------------------------------------------------------------------------
(* A device *)

\* OpCurrentGeneration, or ensureLocalDevice's read: the planned window.
AskGeneration(d) ==
    /\ Current(collection)
    /\ d \in collection.roster
    /\ asked[d] # PlanOf(collection)
    /\ asked' = [asked EXCEPT ![d] = PlanOf(collection)]
    /\ UNCHANGED <<roster, collectionVars, publicationVars, keyring, made, exposed, lastSend, countVars>>

NewBundle(d) ==
    [device |-> d, issued |-> asked[d].issued, expires |-> asked[d].expires, key |-> made[d] + 1]

\* Faulty variant: the previous generation's private half is dropped on rotation.
RotatedForgetful(d) ==
    [last |-> asked[d].issued, revoked |-> FALSE, current |-> {NewBundle(d)}, retired |-> {}]

\* The record EnsureDevicePrekey writes for a new generation: the previous
\* private halves stay until their signed expiry.
Rotated(d) ==
    [last |-> asked[d].issued, revoked |-> FALSE, current |-> {NewBundle(d)},
     retired |-> LiveOf(keyring[d].retired \cup keyring[d].current)]

\* The stored bundle that already is this generation's contribution.
Reusable(d) ==
    {b \in keyring[d].current : b.issued = asked[d].issued /\ b.expires = asked[d].expires}

\* Faulty variant: an existing contribution for the window is not reused.
NeedsNewAlways(d) ==
    /\ ~keyring[d].revoked
    /\ asked[d].issued >= keyring[d].last
    /\ Cardinality(LiveOf(keyring[d].retired \cup keyring[d].current)) <= MaxRetiredDevicePrekeys

\* EnsureDevicePrekey goes on to generate: nothing to reuse, a strictly later
\* issuance, and room for what must stay answerable.
NeedsNew(d) ==
    /\ ~keyring[d].revoked
    /\ Reusable(d) = {}
    /\ asked[d].issued > keyring[d].last
    /\ Cardinality(LiveOf(keyring[d].retired \cup keyring[d].current)) <= MaxRetiredDevicePrekeys

\* validateDevicePrekeyInputs: the asked window is open and covers the horizon.
Usable(d) ==
    /\ asked[d] # NoCollection
    /\ asked[d].issued <= prekeyClock
    /\ asked[d].expires > prekeyClock + ReplenishBefore

\* EnsureDevicePrekey generates, signs and stores; the bundle leaves the
\* device only once the write succeeded.
EnsureDevicePrekey(d, failed, written) ==
    /\ Usable(d) /\ NeedsNew(d)
    /\ Stored(failed, written)
    /\ made' = [made EXCEPT ![d] = @ + 1]
    /\ keyring' = IF written THEN [keyring EXCEPT ![d] = Rotated(d)] ELSE keyring
    /\ exposed' = IF failed THEN exposed ELSE exposed \cup {NewBundle(d)}
    /\ UNCHANGED <<roster, collectionVars, publicationVars, asked, lastSend, prekeyClock, rosterChanges>>

\* EnsureDevicePrekey finds this generation's contribution and returns it again.
ReuseDevicePrekey(d) ==
    /\ Usable(d) /\ ~keyring[d].revoked /\ Reusable(d) # {}
    /\ ~ Reusable(d) \subseteq exposed
    /\ exposed' = exposed \cup Reusable(d)
    /\ UNCHANGED <<roster, collectionVars, publicationVars, keyring, asked, made, lastSend, countVars>>

RevokedRecord(d) == [keyring[d] EXCEPT !.revoked = TRUE, !.current = {}, !.retired = {}]

\* RevokeDevicePrekeys: a device taken out of service drops every private half.
RevokeDevicePrekeys(d, failed, written) ==
    /\ keyring[d].last > 0 /\ ~keyring[d].revoked
    /\ d \notin roster
    /\ Stored(failed, written)
    /\ keyring' = IF written THEN [keyring EXCEPT ![d] = RevokedRecord(d)] ELSE keyring
    /\ UNCHANGED <<roster, collectionVars, publicationVars, asked, made, exposed, lastSend, prekeyClock,
                   rosterChanges>>

\* PruneDevicePrekeys: expired private halves go.
PruneDevicePrekeys(d) ==
    /\ ~keyring[d].revoked
    /\ LET kept == [keyring[d] EXCEPT !.current = LiveOf(@), !.retired = LiveOf(@)]
       IN  kept # keyring[d] /\ keyring' = [keyring EXCEPT ![d] = kept]
    /\ UNCHANGED <<roster, collectionVars, publicationVars, asked, made, exposed, lastSend, countVars>>

\* DevicePrekeyPrivate: the device has the private half of a bundle that is in use.
Answerable(b) ==
    /\ ~keyring[b.device].revoked
    /\ b \in keyring[b.device].current \cup keyring[b.device].retired
    /\ prekeyClock < b.expires

-----------------------------------------------------------------------------
(* Collecting and finalizing *)

\* AddPrekeyContribution of a bundle some device sent, in any order and any
\* number of times: an exact match of the plan, one per device.
AddPrekeyContribution(b, failed, written) ==
    /\ b \in exposed
    /\ b.issued <= prekeyClock /\ prekeyClock < b.expires
    /\ collection # NoCollection
    /\ b.issued = collection.issued /\ b.expires = collection.expires
    /\ b.device \in collection.roster
    /\ b.device \notin DevicesOf(collection.got)
    /\ Stored(failed, written)
    /\ collection' = IF written THEN [collection EXCEPT !.got = @ \cup {b}] ELSE collection
    /\ UNCHANGED <<roster, finalizing, publicationVars, deviceVars, lastSend, prekeyClock, rosterChanges>>

\* FinalizePrekeyCollection, first section: a complete collection is read.
\* (Finalizing again what is already marked and published changes nothing.)
FinalizeRead(f) ==
    /\ finalizing[f] = NoCollection
    /\ Current(collection) /\ Complete(collection)
    /\ \/ ~collection.finalized
       \/ collection.got # publication
    /\ finalizing' = [finalizing EXCEPT ![f] = [read |-> collection, prepared |-> FALSE]]
    /\ UNCHANGED <<roster, collection, publicationVars, deviceVars, lastSend, countVars>>

\* PreparePrekeyPublication: the publication record advances by succession, or
\* already is this set; a refusal ends the finalization.
PreparePrekeyPublication(f, failed, written) ==
    /\ finalizing[f] # NoCollection /\ ~finalizing[f].prepared
    /\ LET set == finalizing[f].read.got IN
       IF set = publication
       THEN /\ finalizing' = [finalizing EXCEPT ![f].prepared = TRUE]
            /\ ~failed /\ written
            /\ UNCHANGED <<publicationVars, prekeyFaults>>
       ELSE IF BindBundleSet(set, prekeyClock) /\ Succeeds(publication, tombstones, set)
       THEN /\ Stored(failed, written)
            /\ publication' = IF written THEN set ELSE publication
            /\ tombstones' = IF written THEN tombstones \cup Removed(publication, set) ELSE tombstones
            /\ finalizing' = IF failed THEN [finalizing EXCEPT ![f] = NoCollection]
                             ELSE [finalizing EXCEPT ![f].prepared = TRUE]
       ELSE /\ finalizing' = [finalizing EXCEPT ![f] = NoCollection]
            /\ ~failed /\ written
            /\ UNCHANGED <<publicationVars, prekeyFaults>>
    /\ UNCHANGED <<roster, collection, deviceVars, lastSend, prekeyClock, rosterChanges>>

\* Faulty variant: the plan is not compared again before it is marked.
SamePlanBlind(read) == collection # NoCollection

\* The last section: the collection is still the one that was published.
SamePlan(read) == collection # NoCollection /\ Complete(collection) /\ PlanOf(collection) = PlanOf(read)

FinalizeMark(f, failed, written) ==
    /\ finalizing[f] # NoCollection /\ finalizing[f].prepared
    /\ finalizing' = [finalizing EXCEPT ![f] = NoCollection]
    /\ IF SamePlan(finalizing[f].read)
       THEN /\ Stored(failed, written)
            /\ collection' = IF written THEN [collection EXCEPT !.finalized = TRUE] ELSE collection
       ELSE ~failed /\ written /\ UNCHANGED <<collection, prekeyFaults>>
    /\ UNCHANGED <<roster, publicationVars, deviceVars, lastSend, prekeyClock, rosterChanges>>

-----------------------------------------------------------------------------
(* What the local daemon does with the generation, restarts and time *)

\* FanOut, on the sender's own side: every other device that is listed.
FanOut(own) == DevicesOf(own) \ {LocalDevice}

\* ensureDirectSessions: the daemon bootstraps from its own bundle of the
\* current collection and copies its other devices listed there.
SendDirect ==
    /\ Current(collection)
    /\ LocalDevice \in DevicesOf(collection.got)
    /\ lastSend' = [own |-> CHOOSE b \in collection.got : b.device = LocalDevice,
                    copies |-> FanOut(collection.got),
                    owed |-> FanOut(LiveOf(publication))]
    /\ lastSend' # lastSend
    /\ UNCHANGED <<roster, collectionVars, publicationVars, deviceVars, countVars>>

\* The daemon stops and starts, perhaps with another roster; what was in
\* progress is lost, what is on disk is not.
DaemonRestart(r) ==
    /\ rosterChanges < MaxRosterChanges
    /\ r \in Rosters
    /\ r # roster \/ \E f \in Finalizers : finalizing[f] # NoCollection
    /\ rosterChanges' = rosterChanges + 1
    /\ roster' = r
    /\ finalizing' = [f \in Finalizers |-> NoCollection]
    /\ UNCHANGED <<collection, publicationVars, deviceVars, lastSend, prekeyClock, prekeyFaults>>

PrekeyTick ==
    /\ prekeyClock < MaxPrekeyClock
    /\ prekeyClock' = prekeyClock + 1
    /\ UNCHANGED <<roster, collectionVars, publicationVars, deviceVars, lastSend, prekeyFaults, rosterChanges>>

PrekeyNext ==
    \/ \E failed, written \in BOOLEAN :
        \/ Begin(failed, written)
        \/ \E d \in PrekeyDevices :
            \/ EnsureDevicePrekey(d, failed, written)
            \/ RevokeDevicePrekeys(d, failed, written)
        \/ \E b \in exposed : AddPrekeyContribution(b, failed, written)
        \/ \E f \in Finalizers :
            \/ PreparePrekeyPublication(f, failed, written)
            \/ FinalizeMark(f, failed, written)
    \/ \E d \in PrekeyDevices :
        \/ AskGeneration(d)
        \/ ReuseDevicePrekey(d)
        \/ PruneDevicePrekeys(d)
    \/ \E f \in Finalizers : FinalizeRead(f)
    \/ SendDirect
    \/ \E r \in Rosters : DaemonRestart(r)
    \/ PrekeyTick

PrekeySpec == PrekeyInit /\ [][PrekeyNext]_prekeyVars

-----------------------------------------------------------------------------
(* Properties *)

PrekeyTypeOK ==
    /\ roster \in SUBSET PrekeyDevices
    /\ collection # NoCollection => DevicesOf(collection.got) \subseteq collection.roster
    /\ tombstones \subseteq PrekeyDevices
    /\ publication \subseteq exposed
    /\ \A d \in PrekeyDevices :
        /\ DevicesOf(keyring[d].current \cup keyring[d].retired) \subseteq {d}
        /\ Cardinality(keyring[d].current) <= 1
        /\ Cardinality(keyring[d].retired) <= MaxRetiredDevicePrekeys + 1
    /\ prekeyFaults \in 0 .. MaxPrekeyFaults

\* Whoever fetched a bundle may use it until it expires: every unexpired bundle
\* a device ever gave out can still be answered by DevicePrekeyPrivate, through
\* any number of rotations, failed writes and restarts, until the device is
\* revoked; a revoked device answers nothing.
GivenOutIsAnswered ==
    \A b \in exposed :
        IF keyring[b.device].revoked
        THEN keyring[b.device].current \cup keyring[b.device].retired = {}
        ELSE prekeyClock < b.expires => Answerable(b)

\* A device never gives out two different bundles for one generation, so a
\* retry after a failed write or a restart cannot look like equivocation.
OneBundlePerGeneration ==
    \A b, c \in exposed : b.device = c.device /\ b.issued = c.issued => b = c

\* Only a whole generation is published: the published devices are a roster
\* that was planned, all at one issuance and one expiry, and a collection
\* marked finalized really is what the publication ledger holds or held
\* before something later.
WholeGenerationPublished ==
    /\ publication # {} =>
        /\ DevicesOf(publication) \in Rosters
        /\ \A b, c \in publication : b.issued = c.issued /\ b.expires = c.expires
    /\ collection # NoCollection /\ collection.finalized =>
        collection.got = publication \/ NewestIssued(publication) > collection.issued

\* The publication record as a keeper of a device set: the generation moves
\* forward, a device that left never returns, at equal freshness devices only
\* leave.
Publisher == INSTANCE DeviceSuccession WITH
    generation <- IF publication = {} THEN 0 ELSE NewestIssued(publication),
    members <- DevicesOf(publication),
    gone <- tombstones

\* The ledgers, the planner and any number of finalizers implement that promise.
PublicationSucceeds == Publisher!SuccessionSpec

\* "every other device of the sender gets one, so the sender's own devices
\* agree about what was said" (e2ee.FanOut's plan): a message copies every
\* other device of the published live set.
SelfCopiesReachAll == lastSend # NoCollection => lastSend.owed \subseteq lastSend.copies

\* A peer that uses a published bundle is answered: only whole generations are
\* published, a device has one bundle in each, and keeps its private half as long as
\* the bundle is valid.
PublishedIsAnswered ==
    GivenOutIsAnswered /\ OneBundlePerGeneration /\ WholeGenerationPublished
=============================================================================
