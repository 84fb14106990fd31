---------------------------- MODULE OwnerCommand ----------------------------
(***************************************************************************)
(* One owner command, submitted again and again: the service that admits   *)
(* it and hands it to a sink (pkg/ownercontrol/service.go), and the file   *)
(* journal with its rollback-resistant high-water that remembers how far   *)
(* it came (pkg/ownercontrol/file_journal.go).                             *)
(*                                                                         *)
(* Requests run concurrently.  Each journal call holds the journal's lock; *)
(* between two calls another request can run.  A commit makes five durable *)
(* steps (pending file, high-water, record, metadata, pending file gone);  *)
(* it can fail after any of them, and the process can end at any time.     *)
(***************************************************************************)
EXTENDS Naturals

CONSTANTS
    Requests,          \* submissions being served; each authorizes itself anew
    SinkCloses,        \* TRUE: a sink that reports "rejected" refuses what comes later
    MaxSubmissions, MaxJournalFaults, MaxEpoch, \* bounds of the model
    Nothing

VARIABLES
    req,        \* where each request stands
    record,     \* the record file: [state, history]
    meta,       \* the manifest in memory: [revision, digest]
    metaFile,   \* the manifest file
    pending,    \* journal-pending.json
    highWater,  \* the external high-water: [revision, digest]
    open,       \* the journal is open
    sink,       \* [effects, closed]
    epoch,      \* the sink authority's cluster epoch; the command names 1
    expired,    \* the command's validity is over
    submissions, journalFaults

ownerCommandVars == <<req, record, meta, metaFile, pending, highWater, open, sink,
                      epoch, expired, submissions, journalFaults>>
journalVars == <<record, meta, metaFile, pending, highWater, journalFaults>>
world == <<open, sink, epoch, expired, submissions>>

Terminal == {"applied", "rejected", "conflict"}

\* The shapes of what is stored: the record, a manifest, the commit in doubt.
CommandRecords == [state : {"prepared", "admitted", "ambiguous"} \cup Terminal,
                   history : SUBSET Requests]
Manifests == [revision : Nat, digest : CommandRecords \cup {Nothing}]
PendingCommits == [prior : Nat, next : Manifests]

ASSUME NothingAssumption == Nothing \notin CommandRecords \cup PendingCommits

\* A request: its step, the record it last read, what it is about to record.
AtRest == [step |-> "idle", seen |-> Nothing, next |-> Nothing]

OwnerCommandInit ==
    /\ req = [r \in Requests |-> AtRest]
    /\ record = Nothing
    /\ meta = [revision |-> 0, digest |-> Nothing]
    /\ metaFile = meta
    /\ pending = Nothing
    /\ highWater = meta
    /\ open = TRUE
    /\ sink = [effects |-> 0, closed |-> FALSE]
    /\ epoch = 1
    /\ expired = FALSE
    /\ submissions = 0
    /\ journalFaults = 0

\* readTracked: the record file has to be what the manifest says.
JournalReadable == open /\ record = meta.digest

\* Faulty variant: the high-water and the record move without a pending file.
commitRecordUnlogged(r, value, then) ==
    LET next == [revision |-> meta.revision + 1, digest |-> value]
    IN  /\ open
        /\ \E done \in 0..5 :
              /\ done < 5 => journalFaults < MaxJournalFaults
              /\ journalFaults' = journalFaults + (IF done < 5 THEN 1 ELSE 0)
              /\ pending' = Nothing
              /\ highWater' = IF done >= 2 THEN next ELSE highWater
              /\ record' = IF done >= 3 THEN value ELSE record
              /\ meta' = IF done >= 4 THEN next ELSE meta
              /\ metaFile' = IF done >= 4 THEN next ELSE metaFile
              /\ req' = [req EXCEPT ![r] = IF done = 5 THEN then ELSE AtRest]
\* commitRecord: refused while an earlier commit is in doubt.  The request goes
\* on as `then' when all five steps were made, and ends with an error when not.
commitRecord(r, value, then) ==
    LET next == [revision |-> meta.revision + 1, digest |-> value]
    IN  /\ open
        /\ IF pending # Nothing
           THEN /\ req' = [req EXCEPT ![r] = AtRest]
                /\ UNCHANGED journalVars
           ELSE \E done \in 0..5 :
                  /\ done < 5 => journalFaults < MaxJournalFaults
                  /\ journalFaults' = journalFaults + (IF done < 5 THEN 1 ELSE 0)
                  /\ pending' = IF done \in 1..4
                                THEN [prior |-> meta.revision, next |-> next] ELSE Nothing
                  /\ highWater' = IF done >= 2 THEN next ELSE highWater
                  /\ record' = IF done >= 3 THEN value ELSE record
                  /\ \/ done < 4 /\ meta' = meta     \* replaceRecord failed late
                     \/ done >= 3 /\ meta' = next
                  /\ metaFile' = IF done >= 4 THEN next ELSE metaFile
                  /\ req' = [req EXCEPT ![r] = IF done = 5 THEN then ELSE AtRest]

Fail(r) == req' = [req EXCEPT ![r] = AtRest] /\ UNCHANGED journalVars

At(r, step) == req[r].step = step /\ open

\* Submit, up to its first look at the journal, and everything it checks there:
\* a command that is not recorded must not have expired and must name the
\* current epoch; one that is recorded is recovered under any later epoch.
Submit(r) ==
    /\ At(r, "idle") /\ JournalReadable
    /\ submissions < MaxSubmissions
    /\ submissions' = submissions + 1
    /\ \/ /\ record = Nothing /\ ~expired /\ epoch = 1
          /\ req' = [req EXCEPT ![r].step = "begin"]
       \/ /\ record # Nothing /\ record.state \notin Terminal
          /\ req' = [req EXCEPT ![r].step = "attach", ![r].seen = record]
    /\ UNCHANGED <<journalVars, open, sink, epoch, expired>>

\* Begin persists prepared, or returns what another request has begun.
Begin(r) ==
    /\ At(r, "begin") /\ JournalReadable
    /\ IF record # Nothing
       THEN Fail(r)
       ELSE commitRecord(r, [state |-> "prepared", history |-> {r}],
                         [AtRest EXCEPT !.step = "fence"])
    /\ UNCHANGED world

\* The sink authority is looked up once more before anything is asked of it.
Fence(r) ==
    /\ At(r, "fence")
    /\ req' = [req EXCEPT ![r] =
                 IF epoch = 1 THEN [@ EXCEPT !.step = "admit"]
                 ELSE [@ EXCEPT !.step = "terminal",
                                !.next = [from |-> "prepared", to |-> "rejected"]]]
    /\ UNCHANGED <<journalVars, world>>

\* Transition: compare-and-set on the state of the record.
Transition(r, from, value, then) ==
    IF JournalReadable /\ record # Nothing /\ record.state = from
    THEN commitRecord(r, value, then) ELSE Fail(r)

Admitting(r) ==
    /\ At(r, "admit")
    /\ Transition(r, "prepared", [state |-> "admitted", history |-> {r}],
                  [AtRest EXCEPT !.step = "apply"])
    /\ UNCHANGED world

\* ApplyOwnerCommand: the sink acts or refuses, and its answer can be lost.
Apply(r) ==
    /\ At(r, "apply")
    /\ \E acts, answers \in BOOLEAN :
          /\ acts => ~(SinkCloses /\ sink.closed)
          /\ sink' = IF acts THEN [sink EXCEPT !.effects = @ + 1] ELSE sink
          /\ req' = [req EXCEPT ![r].step = "terminal", ![r].next =
                       [from |-> "admitted",
                        to |-> IF acts /\ answers THEN "applied" ELSE "ambiguous"]]
    /\ UNCHANGED <<journalVars, open, epoch, expired, submissions>>

\* storeTerminal reads the record for its history ...
StoreTerminal(r) ==
    /\ At(r, "terminal")
    /\ IF JournalReadable /\ record # Nothing
       THEN /\ req' = [req EXCEPT ![r].step = "store", ![r].seen = record]
            /\ UNCHANGED journalVars
       ELSE Fail(r)
    /\ UNCHANGED world

\* ... and then makes the transition.
StoreTransition(r) ==
    /\ At(r, "store")
    /\ Transition(r, req[r].next.from,
                  [state |-> req[r].next.to, history |-> req[r].seen.history], AtRest)
    /\ UNCHANGED world

\* attachAuthorization: this attempt joins the history of the record it read.
Attach(r) ==
    /\ At(r, "attach")
    /\ LET seen == req[r].seen
           value == [seen EXCEPT !.history = @ \cup {r}]
       IN  IF r \in seen.history
           THEN req' = [req EXCEPT ![r].step = "recover"] /\ UNCHANGED journalVars
           ELSE IF JournalReadable /\ record.state = seen.state /\ record.history = seen.history
           THEN commitRecord(r, value, [req[r] EXCEPT !.step = "recover", !.seen = value])
           ELSE Fail(r)
    /\ UNCHANGED world

\* Faulty variant: a record that was only prepared is taken to the sink again.
RecoverByApplying(r) ==
    /\ At(r, "recover")
    /\ req' = [req EXCEPT ![r].step = "apply"]
    /\ UNCHANGED <<journalVars, world>>
\* recover: a prepared command never reached the sink and is closed without
\* asking it; for any other the sink says what became of it, or cannot say.
Recover(r) ==
    /\ At(r, "recover")
    /\ LET from == req[r].seen.state
           store(to) == req' = [req EXCEPT ![r].step = "terminal",
                                           ![r].next = [from |-> from, to |-> to]]
       IN  \/ from = "prepared" /\ store("rejected") /\ UNCHANGED sink
           \/ /\ from # "prepared"
              /\ \/ sink.effects > 0 /\ store("applied") /\ UNCHANGED sink
                 \/ /\ sink.effects = 0
                    /\ \E to \in {"rejected", "conflict"} : store(to)
                    /\ sink' = [sink EXCEPT !.closed = TRUE]
                 \/ req' = [req EXCEPT ![r] = AtRest] /\ UNCHANGED sink
    /\ UNCHANGED <<journalVars, open, epoch, expired, submissions>>

\* The process ends.
CommandCrash ==
    /\ open
    /\ open' = FALSE
    /\ req' = [r \in Requests |-> AtRest]
    /\ UNCHANGED <<journalVars, sink, epoch, expired, submissions>>

\* OpenFileJournal and reconcile: a pending commit is completed when the
\* high-water agrees with it; without one the manifest has to be the high-water's.
ReopenJournal ==
    /\ ~open
    /\ open' = TRUE
    /\ IF pending = Nothing
       THEN /\ highWater = metaFile /\ record = metaFile.digest
            /\ meta' = metaFile
            /\ UNCHANGED <<record, metaFile, pending, highWater>>
       ELSE /\ pending.prior <= metaFile.revision /\ metaFile.revision <= pending.next.revision
            /\ \/ highWater.revision = pending.prior /\ metaFile.revision = pending.prior
               \/ highWater = pending.next
            /\ highWater' = pending.next
            /\ record' = pending.next.digest
            /\ meta' = pending.next /\ metaFile' = pending.next
            /\ pending' = Nothing
    /\ UNCHANGED <<req, sink, epoch, expired, submissions, journalFaults>>

\* The sink authority fails over; the command's validity ends.
FailOver ==
    /\ epoch < MaxEpoch
    /\ epoch' = epoch + 1
    /\ UNCHANGED <<req, journalVars, open, sink, expired, submissions>>

CommandExpires ==
    /\ ~expired
    /\ expired' = TRUE
    /\ UNCHANGED <<req, journalVars, open, sink, epoch, submissions>>

OwnerCommandNext ==
    \/ \E r \in Requests :
          \/ Submit(r) \/ Begin(r) \/ Fence(r) \/ Admitting(r) \/ Apply(r)
          \/ StoreTerminal(r) \/ StoreTransition(r) \/ Attach(r) \/ Recover(r)
    \/ CommandCrash \/ ReopenJournal \/ FailOver \/ CommandExpires

-----------------------------------------------------------------------------
OwnerCommandSpec == OwnerCommandInit /\ [][OwnerCommandNext]_ownerCommandVars

\* Every variable has its type.
OwnerCommandTypeOK ==
    /\ record \in CommandRecords \cup {Nothing}
    /\ meta \in Manifests /\ metaFile \in Manifests /\ highWater \in Manifests
    /\ pending = Nothing \/ pending \in PendingCommits
    /\ \A r \in Requests : req[r].seen \in CommandRecords \cup {Nothing}

\* What the journal has committed to: the commit in doubt, if there is one,
\* which reopening completes.
Recorded == IF pending # Nothing THEN pending.next.digest ELSE record

\* The service and its journal implement the promise of CommandOnce: whatever
\* commits were cut short, requests overlapped or authorities failed over, the
\* command takes effect at most once and its record ends as what happened.
Promise == INSTANCE CommandOnce WITH
    status <- IF Recorded = Nothing THEN "unknown" ELSE Recorded.state,
    effects <- sink.effects
TakesEffectOnce == Promise!CommandSpec

\* A journal can always be opened again: a commit cut short at any step, and
\* then again by a second crash, never leaves files that reconcile refuses.
JournalReopens ==
    ~open => \/ pending = Nothing /\ highWater = metaFile /\ record = metaFile.digest
             \/ /\ pending # Nothing
                /\ highWater = pending.next
                     \/ (highWater.revision = pending.prior /\ metaFile.revision = pending.prior)

\* A manifest that was advanced at the external authority is never replaced by
\* an older one: the files of the journal do not fall behind the high-water by
\* more than the commit in doubt.
NoRollback ==
    /\ highWater.revision \in {metaFile.revision, metaFile.revision + 1}
    /\ highWater.revision > metaFile.revision => pending # Nothing

\* An authorization that was attached to the record stays there: "owner command
\* authorization history was rewritten" (AttachAuthorization).
HistoryKept ==
    [][Recorded # Nothing /\ Recorded' # Nothing =>
         Recorded.history \subseteq Recorded'.history]_ownerCommandVars

\* Wherever a commit was cut short, the journal opens again and stands at the
\* revision the external authority holds, or at the one commit in doubt.
ReopensAtHighWater == JournalReopens /\ NoRollback
=============================================================================
