----------------------------- MODULE ChannelNode -----------------------------
(***************************************************************************)
(* A replica of a public channel: the durable store (store.go), the        *)
(* connections that announce heads (native_overlay.go, syncguard.go), the  *)
(* scheduler of synchronizations (native_sync.go), the synchronizations    *)
(* and Sites catch-ups themselves, which fetch without the node's lock,    *)
(* commit under the store's and then show their history under the node's   *)
(* (native_node.go, sites.go, sites_catchup.go), restarts and crashes.     *)
(***************************************************************************)
EXTENDS ChannelHistory

CONSTANTS
    ChannelPeers,
    Announces,                 \* peer -> the heads it may announce
    PeerHas,                   \* peer -> the Events it can serve
    Hinted,                    \* histories of Sites hints
    CandidateHeadsPerPeer, MaxPendingSyncs, MaxCatchUps,
    MaxAttach, MaxChannelFaults,    \* bounds of the model
    NoHead, Sites

VARIABLES
    profileNow,    \* current-profile.json
    stored,        \* immutable objects on disk: <<kind, content>>
    torn,          \* immutable objects a crash left incomplete
    heads,         \* profile -> the history its head file names, or {}
    shown,         \* the node's history in memory, or {}
    carriers,      \* peers with a connection
    seenHeads,     \* peer -> heads its connection has let in
    activePeers,   \* peer -> the head it is fetching, or NoHead
    pendingSyncs,  \* candidates waiting: a sequence of [peer, head]
    syncing,       \* synchronizations: [peer, head, phase, cursor]
    sitesReceipt,  \* the history whose locator is advertised, or {}
    attachments, channelFaults

storeVars == <<profileNow, stored, torn, heads>>
schedulerVars == <<activePeers, pendingSyncs>>
channelVars == <<storeVars, shown, carriers, seenHeads, schedulerVars, syncing, sitesReceipt,
                 attachments, channelFaults>>

ChannelInit ==
    /\ profileNow = NoProfile /\ stored = {} /\ torn = {}
    /\ heads = [p \in Profiles |-> {}] /\ shown = {}
    /\ carriers = {} /\ seenHeads = [p \in ChannelPeers |-> {}]
    /\ activePeers = [p \in ChannelPeers |-> NoHead] /\ pendingSyncs = <<>>
    /\ syncing = {} /\ sitesReceipt = {} /\ attachments = 0 /\ channelFaults = 0

Running == profileNow # NoProfile
\* What the end of the process forgets.
NodeStopped ==
    /\ carriers' = {} /\ syncing' = {} /\ sitesReceipt' = {}
    /\ seenHeads' = [p \in ChannelPeers |-> {}]
    /\ activePeers' = [p \in ChannelPeers |-> NoHead] /\ pendingSyncs' = <<>>

-----------------------------------------------------------------------------
(* The scheduler.                                                          *)
PeerBusy(active, p) == active[p] # NoHead
HeadBusy(active, h) == \E p \in ChannelPeers : active[p] = h
Candidate(p, h) == [peer |-> p, head |-> h]
StartSync(candidate) == [peer |-> candidate.peer, head |-> candidate.head, phase |-> "fetch",
                     cursor |-> NewFetchCursor(candidate.head)]
Activated(active, c) == [active EXCEPT ![c.peer] = c.head]

\* Faulty variant: a head another peer is fetching is fetched again.
ReadyByPeer(active, c) == ~PeerBusy(active, c.peer)
\* At most one peer fetches a head, at most one head occupies a peer.
Ready(active, c) == ~PeerBusy(active, c.peer) /\ ~HeadBusy(active, c.head)

\* activateReady: in the order of the queue, what can start starts, and what
\* waits for a peer that is gone is dropped.
Considered(s, c) ==
    IF c.peer \notin carriers THEN s
    ELSE IF Ready(s.active, c)
    THEN [s EXCEPT !.active = Activated(@, c), !.started = @ \cup {StartSync(c)}]
    ELSE [s EXCEPT !.pending = Append(@, c)]
activateReady(active, pending) ==
    FoldLeft(Considered, [active |-> active, pending |-> <<>>, started |-> {}], pending)

\* Faulty variant: what waited for the peer is not started.
completeAlone(w, succeeded) ==
    [active |-> [activePeers EXCEPT ![w.peer] = NoHead], started |-> {},
     pending |-> SelectSeq(pendingSyncs, LAMBDA c : ~succeeded \/ c.head # w.head)]
\* complete: success drops the head's other claimants; failure hands it to
\* the next of them first.
complete(w, succeeded) ==
    LET freed == [activePeers EXCEPT ![w.peer] = NoHead]
        connected == SelectSeq(pendingSyncs, LAMBDA c : c.peer \in carriers)
        next == SelectInSeq(connected, LAMBDA c : c.head = w.head /\ ~PeerBusy(freed, c.peer))
    IN  IF succeeded THEN activateReady(freed, SelectSeq(pendingSyncs, LAMBDA c : c.head # w.head))
        ELSE IF next = 0 THEN activateReady(freed, pendingSyncs)
        ELSE LET c == connected[next]
                 rest == activateReady(Activated(freed, c), RemoveAt(connected, next))
             IN  [rest EXCEPT !.started = @ \cup {StartSync(c)}]

\* scheduleSync and enqueue, for an announcement that was let in.
scheduleSync(c) ==
    IF \/ c.head = HeadOf(shown) \/ activePeers[c.peer] = c.head
       \/ c \in ToSet(pendingSyncs)
    THEN UNCHANGED <<schedulerVars, syncing>>
    ELSE IF Ready(activePeers, c)
    THEN activePeers' = Activated(activePeers, c) /\ syncing' = syncing \cup {StartSync(c)} /\ UNCHANGED pendingSyncs
    ELSE /\ pendingSyncs' = IF Len(pendingSyncs) < MaxPendingSyncs THEN Append(pendingSyncs, c) ELSE pendingSyncs
         /\ UNCHANGED <<activePeers, syncing>>

-----------------------------------------------------------------------------
(* The connections.                                                        *)

\* attach: a new connection, with a budget of its own.
Attach(p) ==
    /\ Running /\ p \notin carriers /\ attachments < MaxAttach
    /\ carriers' = carriers \cup {p} /\ attachments' = attachments + 1
    /\ UNCHANGED <<storeVars, shown, seenHeads, schedulerVars, syncing, sitesReceipt, channelFaults>>

\* replaceAllowed: the peer is no longer discovered.
Detach(p) ==
    /\ p \in carriers /\ carriers' = carriers \ {p} /\ seenHeads' = [seenHeads EXCEPT ![p] = {}]
    /\ UNCHANGED <<storeVars, shown, schedulerVars, syncing, sitesReceipt, attachments, channelFaults>>

\* consumeAnnouncement of a head: observed, claimed once, scheduled.
Announce(p, h) ==
    /\ p \in carriers /\ h \in Announces[p] \ seenHeads[p]
    /\ Cardinality(seenHeads[p]) < CandidateHeadsPerPeer
    /\ seenHeads' = [seenHeads EXCEPT ![p] = @ \cup {h}]
    /\ scheduleSync(Candidate(p, h))
    /\ UNCHANGED <<storeVars, shown, carriers, sitesReceipt, attachments, channelFaults>>

\* A Sites hint: one catch-up of a history at a time, a bounded number of them.
ScheduleCatchUp(set) ==
    LET w == [peer |-> Sites, head |-> HeadOf(set), phase |-> "commit",
              cursor |-> [known |-> set, want |-> {}]]
    IN  /\ carriers # {} /\ sitesReceipt # set
        /\ \A v \in syncing : v.peer = Sites => v.head # w.head
        /\ Cardinality({v \in syncing : v.peer = Sites}) < MaxCatchUps
        /\ syncing' = syncing \cup {w}
        /\ UNCHANGED <<storeVars, shown, carriers, seenHeads, schedulerVars, sitesReceipt, attachments, channelFaults>>

-----------------------------------------------------------------------------
(* Synchronizations.                                                       *)

\* The end of a synchronization that did not succeed, for whatever reason.
SyncFails(w) ==
    /\ w \in syncing
    /\ IF w.peer = Sites
       THEN syncing' = syncing \ {w} /\ UNCHANGED schedulerVars
       ELSE LET s == complete(w, FALSE)
            IN  /\ activePeers' = s.active /\ pendingSyncs' = s.pending
                /\ syncing' = (syncing \ {w}) \cup s.started
    /\ UNCHANGED <<storeVars, shown, carriers, seenHeads, sitesReceipt, attachments, channelFaults>>

\* One request of the walk answered in full, each Event verified on its own.
SyncFetch(w) ==
    LET ids == NextFetch(w.cursor)
    IN  /\ w \in syncing /\ w.phase = "fetch" /\ w.peer \in carriers
        /\ Cardinality(w.cursor.known) < w.head.count
        /\ ids # {} /\ ids \subseteq PeerHas[w.peer]
        /\ Cardinality(w.cursor.known) + Cardinality(ids) <= w.head.count
        /\ \A id \in ids : VerifyEvent(id, profileNow)
        /\ syncing' = (syncing \ {w}) \cup {[w EXCEPT !.cursor = Merged(@, ids)]}
        /\ UNCHANGED <<storeVars, shown, carriers, seenHeads, schedulerVars, sitesReceipt, attachments, channelFaults>>

\* VerifySyncedHistory: the Events reproduce the head that was claimed.
VerifySyncedHistory(w) ==
    /\ w \in syncing /\ w.phase = "fetch" /\ Cardinality(w.cursor.known) = w.head.count
    /\ VerifyHistory(w.cursor.known, profileNow) /\ w.head = HeadOf(w.cursor.known)
    /\ syncing' = (syncing \ {w}) \cup {[w EXCEPT !.phase = "commit"]}
    /\ UNCHANGED <<storeVars, shown, carriers, seenHeads, schedulerVars, sitesReceipt, attachments, channelFaults>>

EventObjects(set) == {<<"event", id>> : id \in set}
\* The objects of a commit, in the order they are written.
Writes(set) ==
    LET ordered == Ordered(set)
    IN  [i \in 1..Len(ordered) + 1 |->
            IF i <= Len(ordered) THEN <<"event", ordered[i]>> ELSE <<"history", set>>]

\* Faulty variant: a smaller history may replace a larger one.
CommitAllowedAny(set) == VerifyHistory(set, profileNow)
\* CommitHistory goes on to its writes.
CommitAllowed(set) == VerifyHistory(set, profileNow) /\ heads[profileNow] \subseteq set

\* Faulty variant: the head file is replaced before the objects are there.
CommitCrashHeadFirst(w) ==
    /\ w \in syncing /\ w.phase = "commit" /\ CommitAllowed(w.cursor.known)
    /\ channelFaults < MaxChannelFaults /\ channelFaults' = channelFaults + 1
    /\ heads' = [heads EXCEPT ![profileNow] = w.cursor.known]
    /\ UNCHANGED <<profileNow, stored, torn, attachments>> /\ shown' = {} /\ NodeStopped
\* A crash among the writes of CommitHistory, the last of them perhaps torn.
CommitCrash(w) ==
    LET writes == Writes(w.cursor.known)
    IN  /\ w \in syncing /\ w.phase = "commit" /\ CommitAllowed(w.cursor.known)
        /\ channelFaults < MaxChannelFaults /\ channelFaults' = channelFaults + 1
        /\ \E i \in 1..Len(writes) :
              /\ \A j \in 1..i : writes[j] \notin torn
              /\ stored' = stored \cup {writes[j] : j \in 1..i - 1}
              /\ torn' \in {torn, torn \cup ({writes[i]} \ stored)}
        /\ UNCHANGED <<profileNow, heads, attachments>> /\ shown' = {} /\ NodeStopped

\* CommitHistory: objects, manifest, head file.  An incomplete object, or a
\* committed Event that is missing, refuses it.
CommitHistory(w) ==
    LET set == w.cursor.known
        objects == EventObjects(set) \cup {<<"history", set>>}
    IN  /\ w \in syncing /\ w.phase = "commit" /\ CommitAllowed(set)
        /\ objects \cap torn = {}
        /\ stored' = stored \cup objects /\ heads' = [heads EXCEPT ![profileNow] = set]
        /\ syncing' = (syncing \ {w}) \cup {[w EXCEPT !.phase = "show"]}
        /\ UNCHANGED <<profileNow, torn, shown, carriers, seenHeads, schedulerVars, sitesReceipt,
                       attachments, channelFaults>>

\* The history becomes the node's, and the scheduler goes on.
Show(w) ==
    /\ w \in syncing /\ w.phase = "show" /\ shown' = w.cursor.known
    /\ IF w.peer = Sites
       THEN syncing' = syncing \ {w} /\ sitesReceipt' = w.cursor.known /\ UNCHANGED schedulerVars
       ELSE LET s == complete(w, TRUE)
            IN  /\ activePeers' = s.active /\ pendingSyncs' = s.pending
                /\ syncing' = (syncing \ {w}) \cup s.started /\ UNCHANGED sitesReceipt
    /\ UNCHANGED <<storeVars, carriers, seenHeads, attachments, channelFaults>>

\* scheduleMirror: a committed history was published; its locator counts only
\* while it is the node's history.
MirrorPublished(set) ==
    /\ Running /\ shown = set /\ set # {} /\ sitesReceipt # set /\ sitesReceipt' = set
    /\ UNCHANGED <<storeVars, shown, carriers, seenHeads, schedulerVars, syncing, attachments, channelFaults>>

-----------------------------------------------------------------------------
\* Faulty variant: a profile of a later epoch need not extend the current one.
ApplyProfileLater(q) == IF profileNow = NoProfile THEN TRUE ELSE q = profileNow \/ q.epoch > profileNow.epoch
\* ApplyProfile accepts the profile.
ApplyProfile(q) ==
    IF profileNow = NoProfile THEN q.epoch = 1 ELSE q = profileNow \/ VerifySuccessor(profileNow, q)

\* The daemon starts again, perhaps under the next profile: ApplyProfile, then
\* NewNativeNode.  A crash may end it between the profile and its checkpoint.
NodeStart(q) ==
    /\ ApplyProfile(q) /\ <<"profile", q>> \notin torn
    /\ shown' = heads[q] /\ NodeStopped
    /\ stored' = stored \cup {<<"profile", q>>} /\ profileNow' = q
    /\ UNCHANGED <<torn, heads, attachments, channelFaults>>

ProfileCrash(q) ==
    /\ ApplyProfile(q) /\ <<"profile", q>> \notin torn \cup stored
    /\ channelFaults < MaxChannelFaults /\ channelFaults' = channelFaults + 1
    /\ \/ stored' = stored \cup {<<"profile", q>>} /\ UNCHANGED torn
       \/ torn' = torn \cup {<<"profile", q>>} /\ UNCHANGED stored
    /\ shown' = {} /\ NodeStopped
    /\ UNCHANGED <<profileNow, heads, attachments>>

ChannelNext ==
    \/ \E p \in ChannelPeers : Attach(p) \/ Detach(p) \/ \E h \in Announces[p] : Announce(p, h)
    \/ \E set \in Hinted : ScheduleCatchUp(set)
    \/ \E w \in syncing : \/ SyncFails(w) \/ SyncFetch(w) \/ VerifySyncedHistory(w)
                          \/ CommitHistory(w) \/ CommitCrash(w) \/ Show(w)
    \/ MirrorPublished(shown)
    \/ \E q \in Profiles : NodeStart(q) \/ ProfileCrash(q)

ChannelSpec == ChannelInit /\ [][ChannelNext]_channelVars

-----------------------------------------------------------------------------
\* The shape of the store and of the node.
ChannelTypeOK ==
    /\ profileNow \in Profiles \cup {NoProfile}
    /\ stored \cap torn = {}
    /\ shown \subseteq EventIDs /\ carriers \subseteq ChannelPeers
    /\ Len(pendingSyncs) <= MaxPendingSyncs
    /\ \A w \in syncing : w.phase \in {"fetch", "commit", "show"}

\* native_sync.go: at most one peer fetches a head and at most one head occupies
\* a peer, whatever connections come and go, and the scheduler's books agree
\* with the synchronizations that run.
OneFetchPerHead ==
    LET syncs == {w \in syncing : w.peer # Sites}
    IN  /\ \A v, w \in syncs : (v.peer = w.peer \/ v.head = w.head) => v = w
        /\ \A p \in ChannelPeers : PeerBusy(activePeers, p)
              <=> (\E w \in syncs : w.peer = p /\ w.head = activePeers[p])

\* A claim waits only while its peer or its head is occupied: what a finished
\* synchronization frees is taken up at once.
NothingWaitsForNobody ==
    \A i \in 1..Len(pendingSyncs) : ~Ready(activePeers, pendingSyncs[i])

\* Whatever a crash left behind, the head file of a profile names a history
\* that is on disk complete and that verifies: LoadHistory does not fail.
CommittedLoads ==
    \A p \in Profiles : heads[p] # {} =>
        /\ VerifyHistory(heads[p], p)
        /\ EventObjects(heads[p]) \cup {<<"history", heads[p]>>} \subseteq stored

\* What the node serves and advertises has been committed, for the profile it
\* runs under, though synchronizations commit and show in different orders.
ShownIsCommitted ==
    /\ shown # {} => shown \subseteq heads[profileNow]
    /\ sitesReceipt # {} => sitesReceipt \subseteq heads[profileNow]

\* The walk from the tips of an honest head finds exactly its history.
WalkFindsHistory ==
    \A w \in syncing :
        w.phase = "fetch" /\ VerifyHistory(w.head.digest, profileNow) /\ w.head = HeadOf(w.head.digest) =>
            /\ w.cursor.known \subseteq w.head.digest
            /\ Cardinality(w.cursor.known) < w.head.count => w.cursor.want # {}

\* A post is shown unless the last moderation of it, by time and then by id,
\* hides it.
LastModerationWins ==
    \A id \in shown : ChannelEvents[id].kind = "post" =>
        LET about == {m \in shown : ChannelEvents[m].target = id}
        IN  id \in VisiblePosts(shown) <=>
                \A m \in about : ChannelEvents[m].kind = "hide" => \E n \in about : Before(m, n)

\* No commit, crash or restart takes an Event out of a committed history, and the
\* profile of a replica follows one chain of signed epochs.
ReplicaOnlyAdvances ==
    [][/\ \A p \in Profiles : heads[p] \subseteq heads'[p]
       /\ \/ profileNow' = profileNow
          \/ profileNow = NoProfile /\ profileNow'.epoch = 1
          \/ profileNow # NoProfile /\ VerifySuccessor(profileNow, profileNow')]_channelVars

\* What a reader is shown was fetched whole, by one fetch of its head that a claim never
\* waits for in vain, committed, and can be loaded again, with moderation in its order.
ShownIsSound ==
    /\ OneFetchPerHead /\ NothingWaitsForNobody
    /\ CommittedLoads /\ ShownIsCommitted /\ WalkFindsHistory /\ LastModerationWins
=============================================================================
