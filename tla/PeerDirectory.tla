--------------------------- MODULE PeerDirectory ----------------------------
(***************************************************************************)
(* From an Endpoint's publication ledger to a peer's use of it:            *)
(* GenerationPublisher writes the prekey object, the descriptor and the    *)
(* DHT locator (pkg/directory/generation_publication.go,                   *)
(* https_publication.go, tosdht.go); a peer's Refresher follows locator,   *)
(* descriptor and prekeys back and submits the set to its device ledger    *)
(* (refresh.go, pkg/eventlog/devices.go); Manager caches the result for    *)
(* any number of concurrent callers (manager.go).                          *)
(*                                                                         *)
(* The DHT may return any locator it was ever given that has not expired.  *)
(* A locator and a descriptor are named by what they commit to.            *)
(***************************************************************************)
EXTENDS DeviceSets

CONSTANTS
    Generations,            \* the bundle sets the Endpoint may come to publish
    DescriptorLifetime,     \* DescriptorPolicy.MaxLifetimeSeconds
    LocatorLifetime,        \* MaxLocatorLifetimeSeconds
    RefreshLead,            \* Manager.Lead
    DirectoryCallers,       \* goroutines that use the peer's Manager
    MaxDirectoryClock, MaxDirectoryFaults, MaxInvalidations,      \* bounds of the model
    NoEntry

\* A bundle is refused without an issuance time; a publisher is refused with a renewal
\* step (half a descriptor's lifetime) below a minute, a peer with a negative lead.
ASSUME DirectoryAssumption ==
    /\ \A g \in Generations : \A b \in g : b.issued \in Nat \ {0} /\ b.expires \in Nat
    /\ DescriptorLifetime \in Nat /\ DescriptorLifetime >= 2
    /\ LocatorLifetime \in Nat
    /\ RefreshLead \in Nat

VARIABLES
    endpointSet, endpointGone,  \* the Endpoint's publication record
    publishing,                 \* the publication in progress, and how far it got
    objects, descriptors,       \* the immutable objects on the HTTPS origin
    locators,                   \* every locator the DHT was given
    delegated,                  \* the delegation stands in finalized state
    peerSet, peerTombstones,    \* the peer's device record
    entry,                      \* the Manager's cache entry
    lookups,                    \* per caller: the refresh it is running
    invalidations, directoryClock, directoryFaults

endpointVars == <<endpointSet, endpointGone>>
originVars == <<publishing, objects, descriptors, locators>>
peerVars == <<peerSet, peerTombstones>>
managerVars == <<entry, lookups, invalidations>>
directoryVars == <<endpointVars, originVars, delegated, peerVars, managerVars, directoryClock, directoryFaults>>

-----------------------------------------------------------------------------
(* The Endpoint *)

Expiry(set) == Min({b.expires : b \in set})

\* Faulty variant: the descriptor's window is not clamped to the generation's.
DescriptorForUnclamped(set, now) ==
    LET step == DescriptorLifetime \div 2
        issued == Max({(now \div step) * step, NewestIssued(set)})
    IN  [set |-> set, issued |-> issued, expires |-> issued + DescriptorLifetime]

\* GenerationPublisher.Publish: validity advances in half-lifetime buckets
\* inside the generation.
DescriptorFor(set, now) ==
    LET step == DescriptorLifetime \div 2
        issued == Max({(now \div step) * step, NewestIssued(set)})
    IN  [set |-> set, issued |-> issued, expires |-> Min({Expiry(set), issued + DescriptorLifetime})]

\* NewLocator over a descriptor, with its own shorter lifetime.
LocatorFor(d) == [descriptor |-> d, issued |-> d.issued, expires |-> Min({d.expires, d.issued + LocatorLifetime})]

Live(x, now) == x.issued <= now /\ now < x.expires

\* The publication ledger moves on (module PrekeyGenerations).
AdvanceEndpoint(next) ==
    /\ next # endpointSet
    /\ BindBundleSet(next, directoryClock)
    /\ Succeeds(endpointSet, endpointGone, next)
    /\ endpointSet' = next
    /\ endpointGone' = endpointGone \cup Removed(endpointSet, next)
    /\ UNCHANGED <<originVars, delegated, peerVars, managerVars, directoryClock, directoryFaults>>

\* publishCurrent: the durable publication is read and signed for this time.
PublishCurrent ==
    /\ publishing = NoEntry
    /\ endpointSet # {}
    /\ BindBundleSet(endpointSet, directoryClock)
    /\ LET d == DescriptorFor(endpointSet, directoryClock) IN
       /\ Live(d, directoryClock) /\ Live(LocatorFor(d), directoryClock)
       /\ LocatorFor(d) \notin locators
       /\ publishing' = [descriptor |-> d, stage |-> "prekeys"]
    /\ UNCHANGED <<endpointVars, objects, descriptors, locators, delegated, peerVars, managerVars,
                   directoryClock, directoryFaults>>

\* Faulty variant: the locator is published before its descriptor exists.
StageAfterEager(stage) == IF stage = "prekeys" THEN "locator" ELSE "descriptor"

\* ActivateHTTPSPublication's order.
StageAfter(stage) == IF stage = "prekeys" THEN "descriptor" ELSE "locator"

\* PutPrekeySet and PutDescriptor: an immutable object is installed whole.
PutObject ==
    /\ publishing # NoEntry
    /\ publishing.stage \in {"prekeys", "descriptor"}
    /\ publishing' = [publishing EXCEPT !.stage = StageAfter(@)]
    /\ objects' = IF publishing.stage = "prekeys" THEN objects \cup {publishing.descriptor.set} ELSE objects
    /\ descriptors' = IF publishing.stage = "descriptor"
                      THEN descriptors \cup {publishing.descriptor} ELSE descriptors
    /\ UNCHANGED <<endpointVars, locators, delegated, peerVars, managerVars, directoryClock, directoryFaults>>

\* PublishLocator, if the locator is still live when its turn comes.
PublishLocator ==
    /\ publishing # NoEntry /\ publishing.stage = "locator"
    /\ publishing' = NoEntry
    /\ locators' = IF Live(LocatorFor(publishing.descriptor), directoryClock)
                   THEN locators \cup {LocatorFor(publishing.descriptor)} ELSE locators
    /\ UNCHANGED <<endpointVars, objects, descriptors, delegated, peerVars, managerVars,
                   directoryClock, directoryFaults>>

\* A put fails, or the daemon stops: the next tick starts over.
PublishFails ==
    /\ publishing # NoEntry
    /\ directoryFaults < MaxDirectoryFaults
    /\ directoryFaults' = directoryFaults + 1
    /\ publishing' = NoEntry
    /\ UNCHANGED <<endpointVars, objects, descriptors, locators, delegated, peerVars, managerVars, directoryClock>>

-----------------------------------------------------------------------------
(* The peer *)

\* RefreshAt: the earlier signed expiry less the lead, never before the refresh.
RefreshAt(l, now) ==
    LET expires == Min({l.expires, l.descriptor.expires})
    IN  IF expires >= now + RefreshLead THEN expires - RefreshLead ELSE now

\* The cache entry Manager.Ensure returns without a refresh.
EntryFresh == entry # NoEntry /\ directoryClock < entry.until

\* Manager.Ensure answers from the cache before its deadline and otherwise
\* starts a refresh: the time and the finalized authority are read now, for
\* the whole of it.
StartRefresh(c) ==
    /\ lookups[c] = NoEntry
    /\ ~EntryFresh
    /\ delegated
    /\ lookups' = [lookups EXCEPT ![c] = [now |-> directoryClock, began |-> invalidations, found |-> NoEntry]]
    /\ UNCHANGED <<endpointVars, originVars, delegated, peerVars, entry, invalidations,
                   directoryClock, directoryFaults>>

\* VerifyLocator, MatchesDescriptor, Bind and HTTPSObjects.Prekeys at one time.
Follows(l, now) ==
    /\ Live(l, now)
    /\ l.descriptor \in descriptors /\ Live(l.descriptor, now)
    /\ l.descriptor.set \in objects
    /\ BindBundleSet(l.descriptor.set, now)

\* Faulty variant: a set that is refused by succession is recorded.
AcceptSetAny(next) ==
    /\ peerSet' = next
    /\ peerTombstones' = peerTombstones \cup Removed(peerSet, next)

\* AcceptSet's new record.
AcceptSet(next) ==
    /\ Succeeds(peerSet, peerTombstones, next)
    /\ peerSet' = next
    /\ peerTombstones' = peerTombstones \cup Removed(peerSet, next)

\* Refresh follows one locator and AdmitPublishedSet judges and records the
\* set; a failed write may leave the new record in place all the same.
AdmitPublishedSet(c, l, failed) ==
    /\ lookups[c] # NoEntry /\ lookups[c].found = NoEntry
    /\ Follows(l, lookups[c].now)
    /\ AcceptSet(l.descriptor.set)
    /\ failed => directoryFaults < MaxDirectoryFaults /\ l.descriptor.set # peerSet
    /\ directoryFaults' = directoryFaults + (IF failed THEN 1 ELSE 0)
    /\ lookups' = IF failed THEN [lookups EXCEPT ![c] = NoEntry] ELSE [lookups EXCEPT ![c].found = l]
    /\ UNCHANGED <<endpointVars, originVars, delegated, entry, invalidations, directoryClock>>

\* Any other outcome of the refresh is an error and leaves the cache alone.
RefreshFails(c) ==
    /\ lookups[c] # NoEntry /\ lookups[c].found = NoEntry
    /\ lookups' = [lookups EXCEPT ![c] = NoEntry]
    /\ UNCHANGED <<endpointVars, originVars, delegated, peerVars, entry, invalidations,
                   directoryClock, directoryFaults>>

\* Manager.Ensure installs what it verified.
InstallEntry(c) ==
    /\ lookups[c] # NoEntry /\ lookups[c].found # NoEntry
    /\ entry' = [set |-> lookups[c].found.descriptor.set,
                 until |-> RefreshAt(lookups[c].found, lookups[c].now), began |-> lookups[c].began]
    /\ lookups' = [lookups EXCEPT ![c] = NoEntry]
    /\ UNCHANGED <<endpointVars, originVars, delegated, peerVars, invalidations,
                   directoryClock, directoryFaults>>

\* Manager.Run's recheck begins with Invalidate.
Invalidate ==
    /\ invalidations < MaxInvalidations
    /\ invalidations' = invalidations + 1
    /\ entry' = NoEntry
    /\ UNCHANGED <<endpointVars, originVars, delegated, peerVars, lookups,
                   directoryClock, directoryFaults>>

\* The peer's daemon restarts: the record is kept, the cache is not.
PeerRestart ==
    /\ directoryFaults < MaxDirectoryFaults
    /\ directoryFaults' = directoryFaults + 1
    /\ entry' = NoEntry
    /\ lookups' = [c \in DirectoryCallers |-> NoEntry]
    /\ UNCHANGED <<endpointVars, originVars, delegated, peerVars, invalidations, directoryClock>>

\* The chain finalizes the end of the delegation (external).
AuthorityEnds ==
    /\ delegated
    /\ delegated' = FALSE
    /\ UNCHANGED <<endpointVars, originVars, peerVars, managerVars, directoryClock, directoryFaults>>

DirectoryTick ==
    /\ directoryClock < MaxDirectoryClock
    /\ directoryClock' = directoryClock + 1
    /\ UNCHANGED <<endpointVars, originVars, delegated, peerVars, managerVars, directoryFaults>>

DirectoryInit ==
    /\ endpointSet = {} /\ endpointGone = {}
    /\ publishing = NoEntry /\ objects = {} /\ descriptors = {} /\ locators = {}
    /\ delegated = TRUE
    /\ peerSet = {} /\ peerTombstones = {}
    /\ entry = NoEntry /\ lookups = [c \in DirectoryCallers |-> NoEntry]
    /\ invalidations = 0 /\ directoryClock = 1 /\ directoryFaults = 0

DirectoryNext ==
    \/ \E next \in Generations : AdvanceEndpoint(next)
    \/ PublishCurrent \/ PutObject \/ PublishLocator \/ PublishFails
    \/ \E c \in DirectoryCallers :
        \/ StartRefresh(c) \/ RefreshFails(c) \/ InstallEntry(c)
        \/ \E l \in locators, failed \in BOOLEAN : AdmitPublishedSet(c, l, failed)
    \/ Invalidate \/ PeerRestart \/ AuthorityEnds \/ DirectoryTick

DirectorySpec == DirectoryInit /\ [][DirectoryNext]_directoryVars

-----------------------------------------------------------------------------
(* Properties *)

DirectoryTypeOK ==
    /\ endpointSet \in Generations \cup {{}} /\ peerSet \in Generations \cup {{}}
    /\ objects \subseteq Generations
    /\ \A d \in descriptors : d.issued < d.expires
    /\ entry # NoEntry => entry.set \in objects /\ entry.began \in 0 .. MaxInvalidations
    /\ directoryClock \in 1 .. MaxDirectoryClock

\* "A failure leaves at most unreachable immutable objects, never an
\* authoritative dangling pointer": whatever locator the DHT returns, its
\* descriptor and that descriptor's prekey set are on the origin, wherever
\* publications failed or overlapped a new generation.
LocatorResolves ==
    \A l \in locators : l.descriptor \in descriptors /\ l.descriptor.set \in objects

\* A peer that missed any number of publications, or was served stale ones,
\* can always accept what the Endpoint publishes now.
PeerCanCatchUp == endpointSet # {} => Succeeds(peerSet, peerTombstones, endpointSet)

\* An answer from the cache names only prekeys that are live when it is given:
\* the windows the Endpoint signs, the deadline the cache computes and the
\* device expiries agree.
AnswerIsLive == EntryFresh => \A b \in entry.set : directoryClock < b.expires

\* verifyForkPair: two publications that prove an Endpoint forked.
ForkPair(d, e) ==
    /\ d.set # e.set
    /\ NewestIssued(d.set) = NewestIssued(e.set)
    /\ ~ d.set \subseteq e.set /\ ~ e.set \subseteq d.set
    /\ LET proof == Max({d.issued, e.issued, NewestIssued(d.set)})
       IN  /\ Live(d, proof) /\ Live(e, proof)
           /\ BindBundleSet(d.set, proof) /\ BindBundleSet(e.set, proof)

\* No two descriptors of an Endpoint that follows its own ledger are fork
\* evidence, retirements within a generation included.
HonestNeverForks == \A d, e \in descriptors : ~ForkPair(d, e)

\* The peer's device record as a keeper of a device set.
PeerKeeper == INSTANCE DeviceSuccession WITH
    generation <- IF peerSet = {} THEN 0 ELSE NewestIssued(peerSet),
    members <- DevicesOf(peerSet),
    gone <- peerTombstones

\* The peer's record keeps the same promise as the publisher's, whatever order
\* and however late it is served the publications.
PeerSucceeds == PeerKeeper!SuccessionSpec

\* "Invalidate forces finalized authority and every signed cache object to be
\* resolved again on the next access": an entry in the cache comes from a
\* refresh that began after the last Invalidate.
InvalidateForces == entry # NoEntry => entry.began = invalidations

\* An honest Endpoint stays reachable through the directory: every locator leads to
\* a whole set, any peer can accept the present one, no answer is stale, and nothing
\* it published looks like a fork.
EndpointStaysReachable ==
    LocatorResolves /\ PeerCanCatchUp /\ AnswerIsLive /\ HonestNeverForks
=============================================================================
