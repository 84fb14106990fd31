------------------------------ MODULE SitesBags ------------------------------
(***************************************************************************)
(* The histories of a public channel as Storage Bags: the mirror that      *)
(* exports a committed history and has it stored (publicchannel/sites.go), *)
(* the catch-up that downloads what a hint names (sites_catchup.go), the   *)
(* locator the node advertises (native_node.go) and the storage daemon,    *)
(* which goes on downloading while the node is down.                       *)
(*                                                                         *)
(* A history is a number; a later one holds the Events of every earlier    *)
(* one.  How Events are synchronized is the matter of ChannelNode; here a  *)
(* synchronization is one step.                                            *)
(***************************************************************************)
EXTENDS Naturals, FiniteSets

CONSTANTS
    Bags,                      \* BagIDs hints may name
    BagDir,                    \* bag -> the history its directory is named after
    BagHolds,                  \* bag -> the history its files reproduce, or Damaged
    LastHistory,
    MaxPendingCatchUps,
    MaxSitesFaults, MaxStarts, \* bounds of the model
    Damaged, Missing, Torn

Histories == 1..LastHistory

ASSUME SitesBagsAssumption ==
    /\ BagDir \in [Bags -> Histories]
    /\ BagHolds \in [Bags -> Histories \union {Damaged}]
    /\ LastHistory \in Nat
    /\ Missing \notin Bags /\ Torn \notin Bags /\ Missing # Torn

VARIABLES
    mirrorReceipts,    \* history -> its bag, Missing or Torn
    downloads,         \* bag -> what is under downloads/: "absent", "partial", "complete"
    downloadReceipts,  \* history -> its bag, Missing or Torn
    storeHistory,      \* the history the store's head names; 0 before the first
    nodeHistory,       \* the node's history
    locator,           \* the receipt in memory, told to peers that connect: a hint or Missing
    mirroring,         \* history -> where its mirror stands
    catching,          \* history -> where its catch-up stands
    told,              \* hints sent to the peers connected at the time
    up, starts, sitesFaults

diskVars == <<mirrorReceipts, downloads, downloadReceipts, storeHistory>>
sitesVars == <<diskVars, nodeHistory, locator, mirroring, catching, told, up, starts, sitesFaults>>

SitesHint(h, b) == [history |-> h, bag |-> b]
SitesHints == [history : Histories, bag : Bags]
Resting == [at |-> "rest"]

SitesInit ==
    /\ mirrorReceipts = [h \in Histories |-> Missing]
    /\ downloads = [b \in Bags |-> "absent"]
    /\ downloadReceipts = [h \in Histories |-> Missing]
    /\ storeHistory = 0 /\ nodeHistory = 0 /\ locator = Missing
    /\ mirroring = [h \in Histories |-> Resting]
    /\ catching = [h \in Histories |-> Resting]
    /\ told = {} /\ up = TRUE /\ starts = 1 /\ sitesFaults = 0

\* The daemon stops: goroutines and the node's memory are gone.
NodeDown ==
    /\ up' = FALSE /\ nodeHistory' = 0 /\ locator' = Missing
    /\ mirroring' = [h \in Histories |-> Resting]
    /\ catching' = [h \in Histories |-> Resting]

(***************************************************************************)
(* The snapshot check.                                                     *)
(***************************************************************************)
\* Faulty variant: the files are there and their content is not verified.
LoadsWhateverIsThere(b, h) == downloads[b] = "complete" /\ BagDir[b] = h
\* LoadSitesSnapshot of a download: no file is missing, none is added, and the Events
\* reproduce the history.
LoadSitesSnapshot(b, h) == downloads[b] = "complete" /\ BagDir[b] = h /\ BagHolds[b] = h

(***************************************************************************)
(* The mirror.                                                             *)
(***************************************************************************)
\* scheduleMirror, unless the locator in memory is already this history's.
ScheduledMirror(h) ==
    IF locator # Missing /\ locator.history = h THEN mirroring
    ELSE [mirroring EXCEPT ![h] = [at |-> "wait"]]

\* A synchronization committed a longer history and the node shows it.
Synchronized(h) ==
    /\ up /\ h > storeHistory
    /\ storeHistory' = h /\ nodeHistory' = h
    /\ mirroring' = ScheduledMirror(h)
    /\ UNCHANGED <<mirrorReceipts, downloads, downloadReceipts, locator,
                   catching, told, up, starts, sitesFaults>>

\* SitesMirror.Publish holds the mirror's lock throughout.
MirrorHeld == \E h \in Histories : mirroring[h].at \in {"create", "record"}

\* Publish: a receipt ends the work, one that cannot be read refuses it.
MirrorReceiptRead(h) ==
    CASE mirrorReceipts[h] = Missing -> [at |-> "create"]
      [] mirrorReceipts[h] = Torn -> Resting
      [] OTHER -> [at |-> "adopt", bag |-> mirrorReceipts[h]]

\* The snapshot appears whole under its digest, by a rename, or is found and verified.
ExportSitesSnapshot(h) ==
    /\ mirroring[h].at = "wait" /\ ~MirrorHeld
    /\ mirroring' = [mirroring EXCEPT ![h] = MirrorReceiptRead(h)]
    /\ UNCHANGED <<mirrorReceipts, downloads, downloadReceipts, storeHistory,
                   nodeHistory, locator, catching, told, up, starts, sitesFaults>>

\* StorageCLIPublisher.Publish: the daemon stores the directory and names its bag, or
\* the command fails.
CreateBag(h, b) ==
    /\ mirroring[h].at = "create"
    /\ BagDir[b] = h /\ BagHolds[b] = h
    /\ mirroring' \in {[mirroring EXCEPT ![h] = [at |-> "record", bag |-> b]],
                      [mirroring EXCEPT ![h] = Resting]}
    /\ UNCHANGED <<mirrorReceipts, downloads, downloadReceipts, storeHistory,
                   nodeHistory, locator, catching, told, up, starts, sitesFaults>>

RecordMirror(h) ==
    /\ mirroring[h].at = "record"
    /\ mirrorReceipts' = [mirrorReceipts EXCEPT ![h] = mirroring[h].bag]
    /\ mirroring' = [mirroring EXCEPT ![h].at = "adopt"]
    /\ UNCHANGED <<downloads, downloadReceipts, storeHistory,
                   nodeHistory, locator, catching, told, up, starts, sitesFaults>>

\* The locator of a publication counts while its history is the node's.
AdoptedLocator(h) ==
    IF nodeHistory = h THEN SitesHint(h, mirroring[h].bag) ELSE locator

AdoptMirror(h) ==
    /\ mirroring[h].at = "adopt"
    /\ locator' = AdoptedLocator(h)
    /\ told' = IF locator' # Missing /\ locator'.history = h
               THEN told \union {SitesHint(h, mirroring[h].bag)} ELSE told
    /\ mirroring' = [mirroring EXCEPT ![h] = Resting]
    /\ UNCHANGED <<diskVars, nodeHistory, catching, up, starts, sitesFaults>>

(***************************************************************************)
(* The catch-up.                                                           *)
(***************************************************************************)
Catching == {h \in Histories : catching[h] # Resting}

\* One catch-up of a history at a time, a bounded number of them.
ScheduleSitesCatchUp(hint) ==
    /\ up /\ catching[hint.history] = Resting
    /\ ~(locator # Missing /\ locator.history = hint.history)
    /\ Cardinality(Catching) < MaxPendingCatchUps
    /\ catching' = [catching EXCEPT ![hint.history] = [at |-> "fetch", bag |-> hint.bag]]
    /\ UNCHANGED <<diskVars, nodeHistory, locator, mirroring, told, up, starts, sitesFaults>>

\* Fetch holds the catch-up's lock throughout.
FetchHeld == \E h \in Histories : catching[h].at \in {"download", "record"}

\* Faulty variant: the bag of the hint is handed on where a receipt names another.
CachedBagOfHint(h) == catching[h].bag
\* cachedLocked hands on the bag its receipt names.
CachedBag(h) == downloadReceipts[h]

\* The directory a bag's snapshot is expected under is there, whole or not.
Present(b, h) == downloads[b] # "absent" /\ BagDir[b] = h

\* Faulty variant: a directory that is there without a receipt is taken as it is.
AcceptsSnapshotAsItIs(b, h) == TRUE
\* A directory that is there without a receipt was left by a stop or a timeout.
AcceptsSnapshot(b, h) == LoadSitesSnapshot(b, h)

\* Fetch, up to the download: a receipt answers, after the snapshot it names was loaded
\* again; then an unreceipted directory does, if it verifies; only then is the bag asked for.
Fetch(h) ==
    LET b == catching[h].bag IN
    /\ catching[h].at = "fetch" /\ ~FetchHeld
    /\ catching' = [catching EXCEPT ![h] =
           CASE downloadReceipts[h] = Torn -> Resting
             [] downloadReceipts[h] \in Bags ->
                    IF LoadSitesSnapshot(downloadReceipts[h], h)
                    THEN [at |-> "commit", bag |-> CachedBag(h)] ELSE Resting
             [] OTHER -> IF Present(b, h)
                         THEN IF AcceptsSnapshot(b, h) THEN [at |-> "record", bag |-> b] ELSE Resting
                         ELSE [at |-> "download", bag |-> b]]
    /\ UNCHANGED <<diskVars, nodeHistory, locator, mirroring, told, up, starts, sitesFaults>>

\* The storage daemon downloads what it was once asked for, node or no node.
DaemonDownloads(b) ==
    /\ downloads[b] \in {"absent", "partial"}
    /\ downloads[b] = "absent" => \E h \in Histories : catching[h] = [at |-> "download", bag |-> b]
    /\ downloads' = [downloads EXCEPT ![b] = IF @ = "absent" THEN "partial" ELSE "complete"]
    /\ UNCHANGED <<mirrorReceipts, downloadReceipts, storeHistory, nodeHistory,
                   locator, mirroring, catching, told, up, starts, sitesFaults>>

\* The status says completed and the snapshot verifies; or the status names another
\* directory, the snapshot does not verify, or the time is up.
Downloaded(h) ==
    LET b == catching[h].bag IN
    /\ catching[h].at = "download"
    /\ \/ /\ downloads[b] = "complete" /\ LoadSitesSnapshot(b, h)
          /\ catching' = [catching EXCEPT ![h].at = "record"]
       \/ catching' = [catching EXCEPT ![h] = Resting]
    /\ UNCHANGED <<diskVars, nodeHistory, locator, mirroring, told, up, starts, sitesFaults>>

RecordDownload(h) ==
    /\ catching[h].at = "record"
    /\ downloadReceipts' = [downloadReceipts EXCEPT ![h] = catching[h].bag]
    /\ catching' = [catching EXCEPT ![h].at = "commit"]
    /\ UNCHANGED <<mirrorReceipts, downloads, storeHistory, nodeHistory,
                   locator, mirroring, told, up, starts, sitesFaults>>

\* CommitHistory refuses a history that lacks committed Events.
CatchUpCommits(h) ==
    /\ catching[h].at = "commit"
    /\ IF h >= storeHistory
       THEN storeHistory' = h /\ catching' = [catching EXCEPT ![h].at = "show"]
       ELSE UNCHANGED storeHistory /\ catching' = [catching EXCEPT ![h] = Resting]
    /\ UNCHANGED <<mirrorReceipts, downloads, downloadReceipts, nodeHistory,
                   locator, mirroring, told, up, starts, sitesFaults>>

\* The history and the accepted locator become the node's and every peer is told.
CatchUpShows(h) ==
    LET hint == SitesHint(h, catching[h].bag) IN
    /\ catching[h].at = "show"
    /\ nodeHistory' = h /\ locator' = hint /\ told' = told \union {hint}
    /\ catching' = [catching EXCEPT ![h] = Resting]
    /\ UNCHANGED <<diskVars, mirroring, up, starts, sitesFaults>>

(***************************************************************************)
(* Stops and starts.                                                       *)
(***************************************************************************)
\* The process ends, perhaps while a receipt is being written.
CrashDuring ==
    \/ \E h \in Histories : /\ mirroring[h].at = "record"
                            /\ mirrorReceipts' = [mirrorReceipts EXCEPT ![h] = Torn]
                            /\ UNCHANGED downloadReceipts
    \/ \E h \in Histories : /\ catching[h].at = "record"
                            /\ downloadReceipts' = [downloadReceipts EXCEPT ![h] = Torn]
                            /\ UNCHANGED mirrorReceipts
    \/ UNCHANGED <<mirrorReceipts, downloadReceipts>>

SitesCrash ==
    /\ up /\ sitesFaults < MaxSitesFaults /\ sitesFaults' = sitesFaults + 1
    /\ CrashDuring /\ NodeDown
    /\ UNCHANGED <<downloads, storeHistory, told, starts>>

\* Cached, for the history the store holds: refused when its receipt cannot be read or
\* its snapshot no longer verifies.
CachedAgrees ==
    storeHistory > 0 /\ downloadReceipts[storeHistory] # Missing =>
        /\ downloadReceipts[storeHistory] # Torn
        /\ LoadSitesSnapshot(downloadReceipts[storeHistory], storeHistory)

\* NewNativeNode and the beginning of Run.
SitesStart ==
    /\ ~up /\ starts < MaxStarts /\ starts' = starts + 1
    /\ CachedAgrees
    /\ up' = TRUE /\ nodeHistory' = storeHistory
    /\ IF storeHistory > 0 /\ downloadReceipts[storeHistory] # Missing
       THEN /\ locator' = SitesHint(storeHistory, downloadReceipts[storeHistory])
            /\ UNCHANGED mirroring
       ELSE /\ UNCHANGED locator
            /\ mirroring' = IF storeHistory > 0 THEN ScheduledMirror(storeHistory) ELSE mirroring
    /\ UNCHANGED <<diskVars, catching, told, sitesFaults>>

SitesNext ==
    \/ \E h \in Histories :
          \/ Synchronized(h) \/ ExportSitesSnapshot(h) \/ RecordMirror(h) \/ AdoptMirror(h)
          \/ \E b \in Bags : CreateBag(h, b)
          \/ Fetch(h) \/ Downloaded(h) \/ RecordDownload(h) \/ CatchUpCommits(h) \/ CatchUpShows(h)
    \/ \E hint \in SitesHints : ScheduleSitesCatchUp(hint)
    \/ \E b \in Bags : DaemonDownloads(b)
    \/ SitesCrash \/ SitesStart

SitesSpec == SitesInit /\ [][SitesNext]_sitesVars

(***************************************************************************)
(* Properties.                                                             *)
(***************************************************************************)
SitesTypeOK ==
    /\ mirrorReceipts \in [Histories -> Bags \union {Missing, Torn}]
    /\ downloadReceipts \in [Histories -> Bags \union {Missing, Torn}]
    /\ locator \in SitesHints \union {Missing}
    /\ Cardinality(Catching) <= MaxPendingCatchUps

\* The bag of a hint holds the history the hint names.
Reproduces(hint) == BagDir[hint.bag] = hint.history /\ BagHolds[hint.bag] = hint.history

(***************************************************************************)
(* Whatever hints arrive, downloads stop half-way or the process ends at:  *)
(* every locator the node holds, passes on or has a receipt for names a    *)
(* bag that reproduces its history, of a history the store has committed   *)
(* ("restart does not redownload or advertise an unverified Bag",          *)
(* sites_catchup.go:47), and the download behind a receipt is complete,    *)
(* which is what a restart checks before it goes on.                       *)
(***************************************************************************)
LocatorsReproduce ==
    /\ \A hint \in told \union ({locator} \ {Missing}) :
          Reproduces(hint) /\ hint.history <= storeHistory
    /\ \A h \in Histories :
          /\ mirrorReceipts[h] \in Bags => Reproduces(SitesHint(h, mirrorReceipts[h]))
          /\ downloadReceipts[h] \in Bags =>
                /\ downloads[downloadReceipts[h]] = "complete"
                /\ Reproduces(SitesHint(h, downloadReceipts[h]))
=============================================================================
